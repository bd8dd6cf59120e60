--------------------------- MODULE NvFlash_proofs ---------------------------
(***************************************************************************)
(* The variable store's driver keeps to its volume, and its two copies     *)
(* agree, for every geometry, every flash content, failing calls and power *)
(* losses included, as long as the lists its callers give to EraseBlocks   *)
(* stay in the volume: first alone, then beside the block device, with     *)
(* which it shares the flash, the library and the bounce buffer, for every *)
(* interleaving of their monitor calls.                                    *)
(***************************************************************************)
EXTENDS SmcFlashBlockIo_proofs, NvFlash

Tuple == {t \in Nat \X Nat : t[1] * SectorSize + t[2] * SectorSize <= VarSize}

\* SmcFlashFvbErase does not check the list, so its callers have to.
ListsInVolume == EraseLists \subseteq Seq(Tuple)

(***************************************************************************)
(* The inductive invariant: while the driver serves a request or boots,    *)
(* its call lies in the volume, and so does what is left of a list.  Reads *)
(* bring back a buffer, at boot one of the whole store.                    *)
(***************************************************************************)
FvbServing == {"read", "write", "erase"} \cup Booting

InVolume(j) == j.addr >= VarBase /\ j.addr + j.size <= VarBase + VarSize

FvbInv ==
  /\ FvbTypeOK
  /\ DOMAIN fvb = DOMAIN Doing("off")
  /\ fvb.pc \in FvbServing => ~Idle(Fvb) /\ InVolume(call[Fvb])
  /\ fvb.pc \notin FvbServing => Idle(Fvb)
  /\ fvb.pc \in {"read", "bootread"} => call[Fvb].op = "read"
  /\ fvb.pc = "bootread" => call[Fvb].size = VarSize
  /\ fvb.pc = "erase" => fvb.todo \in Seq(Tuple)

FvbAlone == \A c \in Client \ {Fvb} : Idle(c)

LEMMA DoingFields ==
  ASSUME NEW pc
  PROVE  /\ Doing(pc).pc = pc /\ Doing(pc).at = 0 /\ Doing(pc).len = 0
         /\ DOMAIN Doing(pc) = DOMAIN Doing("off")
  BY DEF Doing

\* Blame names offsets only.
LEMMA BlameOK ==
  ASSUME suspect \subseteq Offset, NEW at, NEW len, NEW cleared, Blame(at, len, cleared)
  PROVE  suspect' \subseteq Offset
  BY DEF Blame, Offsets

\* The mirror stays one when cells are copied into it.
LEMMA OverlayOK ==
  ASSUME mirror \in [Offset -> Cell], NEW at, NEW n \in Nat, NEW buf \in Memory(n)
  PROVE  Overlay(mirror, at, buf) \in [Offset -> Cell]
<1>1. DOMAIN buf = 0 .. n - 1 /\ \A i \in 0 .. n - 1 : buf[i] \in Cell
  BY DEF Memory
<1> QED BY <1>1 DEF Overlay

LEMMA FvbInitInv ==
  ASSUME \E f \in [Addr -> Cell] : LibInit(f), FvbInit
  PROVE  FvbInv /\ FvbAlone
<1>1. LibTypeOK
  BY LibInitOK
<1>2. \A c \in Client : call[c].pc = "idle"
  BY DEF LibInit, NoCall
<1>3. mirror \in [Offset -> Cell]
  BY DEF FvbInit, Cell
<1> QED BY <1>1, <1>2, <1>3, DoingFields, FvbAssumption
        DEF FvbInit, FvbInv, FvbAlone, FvbTypeOK, Idle, FvbServing, Booting

LEMMA FvbLibStepInv ==
  ASSUME FvbInv, LibStep(Fvb), UNCHANGED fvbVars
  PROVE  FvbInv'
<1>1. LibTypeOK' /\ Advances(Fvb)
  BY FvbAssumption, LibStepOK DEF FvbInv, FvbTypeOK
<1>2. ~Idle(Fvb)
  BY DEF LibStep, SmcErase, SmcReadBuf, SmcPosition, SmcPull, SmcPush, SmcWriteBuf, Idle
<1> QED BY <1>1, <1>2
        DEF fvbVars, FvbInv, FvbTypeOK, Advances, Idle, InVolume, FvbServing, Booting

\* The driver makes a call in the volume and goes on to pc.
LEMMA FvbCallInv ==
  ASSUME FvbInv, NEW pc \in FvbServing, NEW op \in {"erase", "read", "write"},
         NEW addr \in Nat, NEW size \in Nat, NewCallOf(Fvb, op, addr, size),
         addr >= VarBase, addr + size <= VarBase + VarSize,
         fvb'.pc = pc, fvb'.at \in Nat, fvb'.len \in Nat,
         DOMAIN fvb' = DOMAIN Doing("off"),
         pc \in {"read", "bootread"} => op = "read",
         pc = "bootread" => size = VarSize,
         pc = "erase" => fvb'.todo \in Seq(Tuple),
         mirror' \in [Offset -> Cell], suspect' \subseteq Offset,
         UNCHANGED <<flash, bounce, position>>
  PROVE  FvbInv'
<1>1. LibTypeOK /\ Fvb \in Client
  BY FvbAssumption DEF FvbInv, FvbTypeOK
<1>2. LibTypeOK'
  BY <1>1, CallsTyped DEF NewCallOf
<1> QED BY <1>1, <1>2 DEF FvbInv, FvbTypeOK, NewCallOf, Idle, InVolume, FvbServing, Booting

\* The last call of a request, or of the boot, has returned.
LEMMA FvbDoneInv ==
  ASSUME FvbInv, Leave(Fvb), NEW pc \in {"ready", "absent"}, fvb' = Doing(pc),
         mirror' \in [Offset -> Cell], suspect' \subseteq Offset,
         UNCHANGED <<flash, bounce, position>>
  PROVE  FvbInv'
<1>1. LibTypeOK /\ Fvb \in Client
  BY FvbAssumption DEF FvbInv, FvbTypeOK
<1>2. /\ DOMAIN call' = Client /\ call'[Fvb] = NoCall
      /\ \A d \in Client \ {Fvb} : call'[d] = call[d]
  BY <1>1, CallLeft
<1>3. LibTypeOK'
  BY <1>1, <1>2, NoCallOK, CallsTyped
<1>4. call'[Fvb].pc = "idle"
  BY <1>2 DEF NoCall
<1> QED BY <1>2, <1>3, <1>4, DoingFields
        DEF FvbInv, FvbTypeOK, Idle, FvbServing, Booting

\* What FvbInv says of the state an action starts from.
LEMMA FvbFacts ==
  ASSUME FvbInv
  PROVE  /\ LibTypeOK /\ Fvb \in Client /\ CallOK(call[Fvb])
         /\ VarBase \in Nat /\ VarSize \in Nat /\ SectorSize \in Nat
         /\ mirror \in [Offset -> Cell] /\ mirror \in Memory(VarSize)
         /\ suspect \subseteq Offset /\ fvb.at \in Nat /\ fvb.len \in Nat
         /\ call[Fvb].size \in Nat
         /\ call[Fvb].op = "read" => call[Fvb].buf \in Memory(call[Fvb].size)
         /\ DefaultStore \in [Offset -> Cell] /\ DefaultStore \in Memory(VarSize)
<1>1. LibTypeOK /\ Fvb \in Client /\ CallOK(call[Fvb])
  BY FvbAssumption DEF FvbInv, FvbTypeOK, LibTypeOK
<1>2. mirror \in [Offset -> Cell] /\ DefaultStore \in [Offset -> Cell]
  BY FvbAssumption DEF FvbInv, FvbTypeOK, DefaultStore, Erased, Cell
<1>3. mirror \in Memory(VarSize) /\ DefaultStore \in Memory(VarSize)
  BY <1>2 DEF Memory, Offset
<1> QED BY <1>1, <1>2, <1>3, FvbAssumption, SectorSizeAssumption
        DEF FvbInv, FvbTypeOK, CallOK

LEMMA FvbEntryInv ==
  ASSUME FvbInv, FvbEntry \/ FvbEntryFails
  PROVE  FvbInv'
<1> USE FvbFacts
<1>1. CASE FvbEntry
  <2>1. NewCallOf(Fvb, "read", VarBase, VarSize)
    BY <1>1, NewCallMade DEF FvbEntry
  <2> QED BY <1>1, <2>1, DoingFields, FvbCallInv DEF FvbEntry, FvbServing, Booting
<1>2. CASE FvbEntryFails
  <2>1. LibTypeOK' /\ call' = call /\ mirror' = mirror /\ suspect' = suspect /\ Idle(Fvb)
    BY <1>2 DEF FvbEntryFails, libVars, LibTypeOK, FvbInv, FvbServing, Booting
  <2> QED BY <1>2, <2>1, DoingFields
          DEF FvbEntryFails, FvbInv, FvbTypeOK, Idle, FvbServing, Booting
<1> QED BY <1>1, <1>2

LEMMA FvbBootInv ==
  ASSUME FvbInv, FvbHeadersFound \/ FvbFormat \/ FvbFormatErased \/ FvbFormatWritten
  PROVE  FvbInv'
<1> USE FvbFacts
<1>1. CASE FvbHeadersFound
  <2>1. call[Fvb].buf \in [Offset -> Cell]
    BY <1>1 DEF FvbHeadersFound, FvbInv, Memory, Offset
  <2>2. suspect' \subseteq Offset
    BY <1>1, BlameOK DEF FvbHeadersFound
  <2>3. PICK pc \in {"ready", "absent"} : fvb' = Doing(pc)
    BY <1>1 DEF FvbHeadersFound, Install
  <2> QED BY <1>1, <2>1, <2>2, <2>3, FvbDoneInv DEF FvbHeadersFound
<1>2. CASE FvbFormat
  <2>1. NewCallOf(Fvb, "erase", VarBase, VarSize)
    BY <1>2, NewCallMade DEF FvbFormat
  <2> QED BY <1>2, <2>1, DoingFields, FvbCallInv DEF FvbFormat, FvbServing, Booting
<1>3. CASE FvbFormatErased
  <2>1. NewCallOf(Fvb, "write", VarBase, VarSize)
    BY <1>3, NewCallMade DEF FvbFormatErased
  <2>2. suspect' \subseteq Offset
    BY <1>3, BlameOK DEF FvbFormatErased
  <2> QED BY <1>3, <2>1, <2>2, DoingFields, FvbCallInv DEF FvbFormatErased, FvbServing, Booting
<1>4. CASE FvbFormatWritten
  <2>1. suspect' \subseteq Offset
    BY <1>4, BlameOK DEF FvbFormatWritten
  <2>2. PICK pc \in {"ready", "absent"} : fvb' = Doing(pc)
    BY <1>4 DEF FvbFormatWritten, Install
  <2> QED BY <1>4, <2>1, <2>2, FvbDoneInv DEF FvbFormatWritten
<1> QED BY <1>1, <1>2, <1>3, <1>4

\* The offset of an Lba and a byte in it is a natural number.
LEMMA LocalOffsetOK ==
  ASSUME NEW lba \in Lba, NEW offset \in 0 .. SectorSize - 1
  PROVE  LocalOffset(lba, offset) \in Nat
<1>1. VarSize \div SectorSize \in Int
  BY FvbAssumption, SectorSizeAssumption
<1>2. lba \in Nat /\ offset \in Nat
  BY <1>1, SectorSizeAssumption DEF Lba
<1> QED BY <1>2, SectorSizeAssumption DEF LocalOffset

LEMMA FvbReadInv ==
  ASSUME FvbInv, NEW lba \in Lba, NEW offset \in 0 .. SectorSize - 1, NEW len \in Nat,
         LocalOffset(lba, offset) + len <= VarSize, FvbRead(lba, offset, len)
  PROVE  FvbInv'
<1> DEFINE at == LocalOffset(lba, offset)
<1>1. at \in Nat
  BY LocalOffsetOK
<1> HIDE DEF at
<1>2. Slice(mirror, at, len) \in Memory(len)
  <2>1. at + len <= VarSize
    BY DEF at
  <2>2. \A i \in 0 .. len - 1 : at + i \in Offset
    BY <1>1, <2>1, FvbAssumption DEF Offset
  <2> QED BY <2>2, FvbFacts DEF Slice, Memory
<1>3. NewCallOf(Fvb, "read", VarBase + at, len)
  <2>1. Enter(Fvb, "read", VarBase + at, len, Slice(mirror, at, len))
    BY DEF FvbRead, at
  <2>2. VarBase + at \in Nat
    BY <1>1, FvbAssumption
  <2> QED BY <1>2, <2>1, <2>2, FvbFacts, NewCallMade
<1>4. /\ fvb'.pc = "read" /\ fvb'.at = at /\ fvb'.len = len /\ DOMAIN fvb' = DOMAIN Doing("off")
      /\ mirror' = mirror /\ suspect' = suspect /\ UNCHANGED <<flash, bounce, position>>
  BY DEF FvbRead, Doing, at
<1>5. VarBase + at \in Nat /\ VarBase + at >= VarBase /\ VarBase + at + len <= VarBase + VarSize
  <2>1. at + len <= VarSize
    BY DEF at
  <2> QED BY <1>1, <2>1, FvbAssumption
<1> QED BY <1>1, <1>3, <1>4, <1>5, FvbFacts, FvbCallInv DEF FvbServing

LEMMA FvbWriteInv ==
  ASSUME FvbInv, NEW lba \in Lba, NEW offset \in 0 .. SectorSize - 1, NEW len \in Nat,
         LocalOffset(lba, offset) + len <= VarSize, NEW data \in [0 .. len - 1 -> Data],
         FvbWrite(lba, offset, len, data)
  PROVE  FvbInv'
<1> DEFINE at == LocalOffset(lba, offset)
<1>1. at \in Nat
  BY LocalOffsetOK
<1> HIDE DEF at
<1>2. data \in Memory(len)
  BY FvbAssumption DEF Memory
<1>3. NewCallOf(Fvb, "write", VarBase + at, len)
  <2>1. Enter(Fvb, "write", VarBase + at, len, data)
    BY DEF FvbWrite, at
  <2>2. VarBase + at \in Nat
    BY <1>1, FvbAssumption
  <2> QED BY <1>2, <2>1, <2>2, FvbFacts, NewCallMade
<1>4. mirror' \in [Offset -> Cell]
  BY <1>2, FvbFacts, OverlayOK DEF FvbWrite
<1>5. /\ fvb'.pc = "write" /\ fvb'.at = at /\ fvb'.len = len /\ DOMAIN fvb' = DOMAIN Doing("off")
      /\ suspect' = suspect /\ UNCHANGED <<flash, bounce, position>>
  BY DEF FvbWrite, Doing, at
<1>6. VarBase + at \in Nat /\ VarBase + at >= VarBase /\ VarBase + at + len <= VarBase + VarSize
  <2>1. at + len <= VarSize
    BY DEF at
  <2> QED BY <1>1, <2>1, FvbAssumption
<1> QED BY <1>1, <1>3, <1>4, <1>5, <1>6, FvbFacts, FvbCallInv DEF FvbServing

LEMMA FvbReturnsInv ==
  ASSUME FvbInv, FvbReadDone \/ FvbWriteDone
  PROVE  FvbInv'
<1> USE FvbFacts
<1>1. CASE FvbReadDone
  <2>1. mirror' \in [Offset -> Cell]
    BY <1>1, OverlayOK DEF FvbReadDone, FvbInv
  <2>2. suspect' \subseteq Offset
    BY <1>1, BlameOK DEF FvbReadDone
  <2> QED BY <1>1, <2>1, <2>2, FvbDoneInv DEF FvbReadDone
<1>2. CASE FvbWriteDone
  <2>1. suspect' \subseteq Offset
    BY <1>2, BlameOK DEF FvbWriteDone
  <2> QED BY <1>2, <2>1, FvbDoneInv DEF FvbWriteDone
<1> QED BY <1>1, <1>2

\* Erasing the first tuple of a list, at the start of it or in its middle.
LEMMA EraseTupleInv ==
  ASSUME FvbInv, NEW list \in Seq(Tuple), list # <<>>, EraseTuple(list),
         suspect' \subseteq Offset
  PROVE  FvbInv'
<1> DEFINE at   == list[1][1] * SectorSize
           size == list[1][2] * SectorSize
<1>1. at \in Nat /\ size \in Nat /\ at + size <= VarSize
  <2>1. list[1] \in Tuple
    OBVIOUS
  <2>2. /\ list[1][1] \in Nat /\ list[1][2] \in Nat
        /\ list[1][1] * SectorSize + list[1][2] * SectorSize <= VarSize
    BY <2>1 DEF Tuple
  <2>3. list[1][1] * SectorSize \in Nat /\ list[1][2] * SectorSize \in Nat
    BY <2>2, SectorSizeAssumption
  <2> QED BY <2>2, <2>3
<1>2. Tail(list) \in Seq(Tuple)
  OBVIOUS
<1>3. /\ mirror' = [i \in Offset |-> IF i \in Offsets(at, size) THEN Erased ELSE mirror[i]]
      /\ call' = [call EXCEPT ![Fvb] = NewCall("erase", VarBase + at, size, NoBuf)]
      /\ fvb'.pc = "erase" /\ fvb'.at = at /\ fvb'.len = size /\ fvb'.todo = Tail(list)
      /\ DOMAIN fvb' = DOMAIN Doing("off")
      /\ UNCHANGED <<flash, bounce, position>>
  BY DEF EraseTuple, Doing
<1> HIDE DEF at, size
<1>4. mirror' \in [Offset -> Cell]
  BY <1>3, FvbFacts DEF Erased, Cell
<1>5. VarBase + at \in Nat /\ VarBase + at >= VarBase /\ VarBase + at + size <= VarBase + VarSize
  BY <1>1, FvbAssumption
<1>6. NewCallOf(Fvb, "erase", VarBase + at, size)
  <2>1. DOMAIN call = Client /\ Fvb \in Client
    BY FvbFacts DEF LibTypeOK
  <2>2. call'[Fvb] = NewCall("erase", VarBase + at, size, NoBuf)
    BY <1>3, <2>1
  <2>3. \A d \in Client \ {Fvb} : call'[d] = call[d]
    BY <1>3, <2>1
  <2>4. /\ CallOK(call'[Fvb]) /\ call'[Fvb].pc # "idle" /\ call'[Fvb].op = "erase"
        /\ call'[Fvb].addr = VarBase + at /\ call'[Fvb].size = size
    <3>1. "erase" \in {"erase", "read", "write"} /\ VarBase + at \in Nat /\ size \in Nat
      BY <1>1, <1>5
    <3> QED BY <2>2, <3>1, NewCallOK
  <2> QED BY <1>3, <2>1, <2>3, <2>4 DEF NewCallOf
<1>7. "erase" \in FvbServing
  BY DEF FvbServing
<1> QED BY <1>1, <1>2, <1>3, <1>4, <1>5, <1>6, <1>7, FvbCallInv

LEMMA FvbEraseInv ==
  ASSUME FvbInv, ListsInVolume, FvbEraseNext \/ \E list \in EraseLists : FvbErase(list)
  PROVE  FvbInv'
<1> USE FvbFacts
<1>1. CASE \E list \in EraseLists : FvbErase(list)
  BY <1>1, EraseTupleInv DEF FvbErase, ListsInVolume
<1>2. CASE FvbEraseNext
  <2>1. suspect' \subseteq Offset
    BY <1>2, BlameOK DEF FvbEraseNext
  <2>2. CASE fvb.todo # <<>> /\ EraseTuple(fvb.todo)
    BY <1>2, <2>1, <2>2, EraseTupleInv DEF FvbEraseNext, FvbInv
  <2>3. CASE /\ Leave(Fvb) /\ fvb' = Doing("ready")
             /\ UNCHANGED <<flash, bounce, position, mirror>>
    BY <2>1, <2>3, FvbDoneInv
  <2> QED BY <1>2, <2>2, <2>3 DEF FvbEraseNext
<1> QED BY <1>1, <1>2

LEMMA FvbPowerLossInv ==
  ASSUME FvbInv, LibPowerLoss, FvbReset
  PROVE  FvbInv' /\ FvbAlone'
<1>1. LibTypeOK' /\ call' = [c \in Client |-> NoCall]
  BY LibPowerLossOK DEF FvbInv, FvbTypeOK
<1>2. \A c \in Client : call'[c].pc = "idle"
  BY <1>1 DEF NoCall
<1>3. mirror' \in [Offset -> Cell]
  BY DEF FvbReset, FvbInv, FvbTypeOK, Cell
<1> QED BY <1>1, <1>2, <1>3, DoingFields, FvbAssumption
        DEF FvbReset, FvbInv, FvbAlone, FvbTypeOK, Idle, FvbServing, Booting

LEMMA FvbStepInv ==
  ASSUME FvbInv, ListsInVolume, FvbRun \/ FvbRequest
  PROVE  FvbInv'
<1>1. CASE FvbEntry \/ FvbEntryFails
  BY <1>1, FvbEntryInv
<1>2. CASE FvbHeadersFound \/ FvbFormat \/ FvbFormatErased \/ FvbFormatWritten
  BY <1>2, FvbBootInv
<1>3. CASE FvbReadDone \/ FvbWriteDone
  BY <1>3, FvbReturnsInv
<1>4. CASE FvbEraseNext \/ \E list \in EraseLists : FvbErase(list)
  BY <1>4, FvbEraseInv
<1>5. CASE LibStep(Fvb) /\ UNCHANGED fvbVars
  BY <1>5, FvbLibStepInv
<1>6. CASE \E lba \in Lba, offset \in 0 .. SectorSize - 1, len \in 0 .. MaxLen :
             LocalOffset(lba, offset) + len <= VarSize /\ FvbRead(lba, offset, len)
  BY <1>6, FvbReadInv, FvbAssumption
<1>7. CASE \E lba \in Lba, offset \in 0 .. SectorSize - 1, len \in 1 .. MaxLen :
             /\ LocalOffset(lba, offset) + len <= VarSize
             /\ \E data \in [0 .. len - 1 -> Data] : FvbWrite(lba, offset, len, data)
  BY <1>7, FvbWriteInv, FvbAssumption
<1>8. CASE FvbRun
  BY <1>1, <1>2, <1>3, <1>4, <1>5, <1>8 DEF FvbRun
<1>9. CASE FvbRequest
  BY <1>4, <1>6, <1>7, <1>9 DEF FvbRequest
<1> QED BY <1>8, <1>9

\* The driver moves no call but its own.
LEMMA FvbOwnCallOnly ==
  ASSUME FvbInv, FvbRun \/ FvbRequest
  PROVE  \A d \in Client \ {Fvb} : call'[d] = call[d]
<1>1. Fvb \in Client /\ LibTypeOK /\ DOMAIN call = Client
  BY FvbFacts DEF LibTypeOK
<1>2. CASE LibStep(Fvb)
  BY <1>1, <1>2, LibStepOK DEF Advances
<1>3. CASE FvbRequest
  BY <1>1, <1>3 DEF FvbRequest, FvbRead, FvbWrite, FvbErase, EraseTuple, Enter
<1>4. CASE FvbEntryFails \/ FvbEntry \/ FvbHeadersFound \/ FvbFormat \/ FvbFormatErased
           \/ FvbFormatWritten \/ FvbReadDone \/ FvbWriteDone \/ FvbEraseNext
  BY <1>1, <1>4 DEF FvbEntryFails, FvbEntry, FvbHeadersFound, FvbFormat, FvbFormatErased,
       FvbFormatWritten, FvbReadDone, FvbWriteDone, FvbEraseNext, EraseTuple, libVars,
       Enter, Chain, Leave
<1> QED BY <1>2, <1>3, <1>4 DEF FvbRun

LEMMA FvbNextInv ==
  ASSUME FvbInv, FvbAlone, ListsInVolume, [FvbNext]_<<libVars, fvbVars>>
  PROVE  FvbInv' /\ FvbAlone'
<1>1. CASE FvbRun \/ FvbRequest
  BY <1>1, FvbStepInv, FvbOwnCallOnly DEF FvbAlone, Idle
<1>2. CASE FvbPowerLoss
  BY <1>2, FvbPowerLossInv DEF FvbPowerLoss
<1>3. CASE UNCHANGED <<libVars, fvbVars>>
  BY <1>3 DEF libVars, fvbVars, FvbInv, FvbAlone, FvbTypeOK, LibTypeOK, Idle, InVolume
<1> QED BY <1>1, <1>2, <1>3 DEF FvbNext

\* The inductive invariant holds in every state of the driver.
THEOREM FvbInvariant ==
  ASSUME ListsInVolume PROVE FvbSpec => [](FvbInv /\ FvbAlone)
<1>1. (\E f \in [Addr -> Cell] : LibInit(f)) /\ FvbInit => FvbInv /\ FvbAlone
  BY FvbInitInv
<1>2. FvbInv /\ FvbAlone /\ [FvbNext]_<<libVars, fvbVars>> => (FvbInv /\ FvbAlone)'
  BY FvbNextInv
<1> QED BY <1>1, <1>2, PTL DEF FvbSpec

\* Type correctness of the variable store's driver (SmcFlashFvbDxe on SmcFlashLib).
THEOREM FvbTypeCorrect ==
  ASSUME ListsInVolume PROVE FvbSpec => []FvbTypeOK
<1>1. FvbInv => FvbTypeOK
  BY DEF FvbInv
<1> QED BY <1>1, FvbInvariant, PTL

\* A cell that the driver's call covers is in the volume.
LEMMA FvbFootprint ==
  ASSUME FvbInv, NEW a \in Addr, a \in Footprint(Fvb), Changing(Fvb)
  PROVE  a \in VarArea
<1>1. ~Idle(Fvb) /\ call[Fvb].addr \in Nat /\ call[Fvb].size \in Nat
  BY FvbFacts DEF Changing, Idle, CallOK
<1>2. call[Fvb].addr >= VarBase /\ call[Fvb].addr + call[Fvb].size <= VarBase + VarSize
  BY <1>1 DEF FvbInv, InVolume
<1>3. a \in Int /\ a >= call[Fvb].addr /\ a <= call[Fvb].addr + call[Fvb].size - 1
  BY <1>1 DEF Footprint, Addr
<1> QED BY <1>1, <1>2, <1>3, FvbFacts DEF VarArea

\* A cell that the driver changes is in the volume.
LEMMA FvbChanges ==
  ASSUME FvbInv, FvbRun \/ FvbRequest, NEW a \in Addr, flash'[a] # flash[a]
  PROVE  a \in VarArea /\ Changing(Fvb)
<1>1. LibStep(Fvb)
  BY DEF FvbRun, FvbRequest, FvbEntryFails, FvbEntry, FvbHeadersFound, FvbFormat, FvbFormatErased,
         FvbFormatWritten, FvbReadDone, FvbWriteDone, FvbEraseNext, FvbRead, FvbWrite,
         FvbErase, EraseTuple, libVars
<1>2. a \in Footprint(Fvb) /\ Changing(Fvb)
  BY <1>1, FvbFacts, LibStepOK
<1> QED BY <1>2, FvbFootprint

\* No cell outside the volume ever changes: the firmware image behind it survives every
\* request, error and power loss (SmcFlashFvbErase, SmcFlashFvbWrite).
THEOREM FvbKeepsFirmware ==
  ASSUME ListsInVolume PROVE FvbSpec => VolumeConfined
<1>1. FvbInv /\ FvbAlone /\ [FvbNext]_<<libVars, fvbVars>> =>
        [\A a \in Addr \ VarArea : flash'[a] = flash[a]]_flash
  <2>1. SUFFICES ASSUME FvbInv, FvbAlone, FvbNext, NEW a \in Addr, a \notin VarArea
                 PROVE  flash'[a] = flash[a]
    BY Zenon DEF libVars
  <2>2. CASE FvbPowerLoss
    <3>1. SUFFICES ASSUME flash'[a] # flash[a] PROVE FALSE
      OBVIOUS
    <3>2. PICK c \in Client : a \in Footprint(c) /\ Changing(c)
      BY <2>1, <2>2, <3>1, FvbFacts, LibPowerLossOK DEF FvbPowerLoss
    <3>3. c = Fvb
      BY <2>1, <3>2 DEF FvbAlone, Changing, Idle
    <3> QED BY <2>1, <3>2, <3>3, FvbFootprint
  <2> QED BY <2>1, <2>2, FvbChanges DEF FvbNext
<1> QED BY <1>1, FvbInvariant, PTL DEF FvbSpec, VolumeConfined

----------------------------------------------------------------------------
(***************************************************************************)
(* The contents of the two copies.  The offsets that the driver's call is  *)
(* about are Target; At is the first.  Outside Target mirror and flash     *)
(* agree but for suspects.  Inside, while a write runs, the mirror already *)
(* holds the new data and the flash can still become it, because a caller  *)
(* only clears bits; while an erase runs the mirror is erased.             *)
(***************************************************************************)
At     == call[Fvb].addr - VarBase
Target == Offsets(At, call[Fvb].size)

AgreeOn(offsets) == \A i \in offsets \ suspect : mirror[i] = Store[i]

\* The store can still become what the mirror and the call's memory say.
Writable ==
  \A i \in Target : /\ mirror[i] = call[Fvb].buf[i - At]
                    /\ i \in suspect \/ mirror[i] \subseteq Store[i]

CallData ==
  /\ fvb.pc \in FvbServing => TransferOK(Fvb)
  /\ fvb.pc \in {"write", "bootwrite"} => call[Fvb].op = "write"
  /\ fvb.pc \in {"erase", "booterase"} => call[Fvb].op = "erase"
  /\ fvb.pc \in Booting => At = 0 /\ call[Fvb].size = VarSize
  /\ fvb.pc \in {"read", "write", "erase"} => At = fvb.at /\ call[Fvb].size = fvb.len
  /\ fvb.pc = "write" => fvb.data = call[Fvb].buf

FvbData ==
  /\ CallData
  /\ fvb.pc \in {"booterase", "bootwrite"} => mirror = DefaultStore
  /\ fvb.pc \in {"ready", "read"} => AgreeOn(Offset)
  /\ fvb.pc \in {"write", "erase"} => AgreeOn(Offset \ Target)
  /\ fvb.pc \in {"write", "bootwrite"} => Writable
  /\ fvb.pc = "erase" => \A i \in Target : mirror[i] = Erased

\* An offset the call is about, as a cell of the flash and of the call's memory.
LEMMA TargetCell ==
  ASSUME FvbInv, fvb.pc \in FvbServing, NEW i \in Offset
  PROVE  /\ At \in Nat /\ VarBase + i \in Addr /\ Store[i] = flash[VarBase + i]
         /\ i \in Target <=> VarBase + i \in Footprint(Fvb)
         /\ i \in Target => /\ i - At \in 0 .. call[Fvb].size - 1
                            /\ call[Fvb].addr + (i - At) = VarBase + i
                            /\ (VarBase + i) - call[Fvb].addr = i - At
<1>1. /\ call[Fvb].addr \in Nat /\ call[Fvb].size \in Nat /\ call[Fvb].addr >= VarBase
      /\ VarBase \in Nat /\ VarSize \in Nat /\ VarBase + VarSize <= FlashSize
  BY FvbFacts, FvbAssumption DEF FvbInv, InVolume, CallOK
<1>2. i \in Nat /\ i < VarSize
  BY <1>1 DEF Offset
<1>3. At \in Nat /\ VarBase + i \in Addr
  BY <1>1, <1>2, FlashSizeAssumption DEF At, Addr
<1>4. i \in Target <=> VarBase + i \in Footprint(Fvb)
  BY <1>1, <1>2 DEF Target, At, Offsets, Footprint
<1>5. i \in Target => /\ i - At \in 0 .. call[Fvb].size - 1
                      /\ call[Fvb].addr + (i - At) = VarBase + i
                      /\ (VarBase + i) - call[Fvb].addr = i - At
  BY <1>1, <1>2 DEF Target, At, Offsets
<1> QED BY <1>3, <1>4, <1>5 DEF Store

\* What a call that returned without an error says of the store.
LEMMA TransferDone ==
  ASSUME FvbInv, FvbData, fvb.pc \in FvbServing, Returned(Fvb), call[Fvb].err = 0,
         NEW i \in Target
  PROVE  /\ i \in Offset
         /\ call[Fvb].op = "read" => call[Fvb].buf[i - At] = Store[i]
         /\ call[Fvb].op = "write" => Store[i] \subseteq call[Fvb].buf[i - At]
         /\ call[Fvb].op = "erase" => Store[i] = Erased
<1>1. i \in Offset
  BY DEF Target, Offsets
<1>2. /\ i - At \in 0 .. call[Fvb].size - 1 /\ Store[i] = flash[VarBase + i]
      /\ call[Fvb].addr + (i - At) = VarBase + i
  BY <1>1, TargetCell
<1>3. TransferOK(Fvb) /\ Pulled(call[Fvb]) = call[Fvb].size /\ Stored(call[Fvb]) = call[Fvb].size
  BY DEF FvbData, CallData, Returned, Pulled, Stored
<1>4. call[Fvb].op = "read" => call[Fvb].buf[i - At] = Store[i]
  BY <1>2, <1>3 DEF TransferOK
<1>5. call[Fvb].op = "write" => Store[i] \subseteq call[Fvb].buf[i - At]
  BY <1>2, <1>3 DEF TransferOK
<1>6. call[Fvb].op = "erase" => Store[i] = Erased
  BY <1>2, <1>3 DEF TransferOK
<1> QED BY <1>1, <1>4, <1>5, <1>6

\* One monitor call changes the store inside Target only, and there in the
\* direction of the mirror.
LEMMA FvbLibStepData ==
  ASSUME FvbInv, FvbData, LibStep(Fvb), UNCHANGED fvbVars
  PROVE  FvbData'
<1>1. LibTypeOK /\ Fvb \in Client /\ fvb.pc \in FvbServing
  BY FvbFacts DEF LibStep, SmcErase, SmcReadBuf, SmcPosition, SmcPull, SmcPush, SmcWriteBuf,
     Idle, FvbInv
<1>2. /\ call'[Fvb].op = call[Fvb].op /\ call'[Fvb].addr = call[Fvb].addr
      /\ call'[Fvb].size = call[Fvb].size
      /\ \A a \in Addr : flash'[a] # flash[a] => a \in Footprint(Fvb)
  BY <1>1, LibStepOK DEF Advances
<1>3. TransferOK(Fvb)' /\ FlashEffect(Fvb)
  BY <1>1, LibStepTransfer DEF FvbData, CallData
<1>4. fvb' = fvb /\ mirror' = mirror /\ suspect' = suspect /\ At' = At /\ Target' = Target
  BY <1>2 DEF fvbVars, At, Target, Offsets, Offset
<1>5. fvb.pc = "write" => call'[Fvb].buf = call[Fvb].buf
  BY <1>3 DEF FlashEffect, FvbData, CallData
<1>6. CallData'
  BY <1>2, <1>3, <1>4, <1>5 DEF FvbData, CallData, Booting
<1>7. AgreeOn(Offset \ Target) => AgreeOn(Offset \ Target)'
  <2>1. \A i \in Offset : i \notin Target => Store'[i] = Store[i]
    BY <1>1, <1>2, TargetCell DEF Store
  <2> QED BY <1>4, <2>1 DEF AgreeOn
<1>8. fvb.pc \in {"ready", "read"} => AgreeOn(Offset)'
  <2>1. fvb.pc \in {"ready", "read"} => flash' = flash /\ call[Fvb].op = "read"
    BY <1>1, <1>3 DEF FlashEffect, FvbInv, FvbServing, Booting
  <2> QED BY <1>4, <2>1 DEF FvbData, AgreeOn, Store
<1>9. fvb.pc \in {"write", "bootwrite"} => Writable'
  <2>1. SUFFICES ASSUME fvb.pc \in {"write", "bootwrite"} PROVE Writable'
    OBVIOUS
  <2>2. call[Fvb].op = "write" /\ call'[Fvb].buf = call[Fvb].buf /\ Writable
    BY <1>3, <2>1 DEF FlashEffect, FvbData, CallData
  <2>3. ASSUME NEW i \in Target, mirror[i] = call[Fvb].buf[i - At], mirror[i] \subseteq Store[i]
        PROVE  mirror[i] \subseteq Store'[i]
    <3>1. i \in Offset
      BY DEF Target, Offsets
    <3>2. /\ VarBase + i \in Addr /\ Store[i] = flash[VarBase + i]
          /\ (VarBase + i) - call[Fvb].addr = i - At
      BY <1>1, <3>1, TargetCell
    <3>3. \/ flash'[VarBase + i] = flash[VarBase + i]
          \/ flash'[VarBase + i] = Program(flash[VarBase + i], call[Fvb].buf[i - At])
      <4>1. \A a \in Addr :
               flash'[a] = flash[a] \/ flash'[a] = Program(flash[a], call[Fvb].buf[a - call[Fvb].addr])
        BY <1>3, <2>2 DEF FlashEffect, ProgramsOnly
      <4> QED BY <3>2, <4>1
    <3>4. Store'[i] = flash'[VarBase + i]
      BY <3>1 DEF Store
    <3> QED BY <2>3, <3>2, <3>3, <3>4 DEF Program
  <2> QED BY <1>4, <2>2, <2>3 DEF Writable
<1> QED BY <1>4, <1>6, <1>7, <1>8, <1>9 DEF FvbData

\* The driver makes a call about size cells from offset at.
CallMade(op, at, size, buf) ==
  /\ TransferOK(Fvb)' /\ call'[Fvb].op = op /\ call'[Fvb].size = size
  /\ call'[Fvb].buf = buf /\ At' = at /\ Target' = Offsets(at, size)

LEMMA FvbCallMade ==
  ASSUME FvbInv, NEW op \in {"erase", "read", "write"},
         NEW addr, NEW at \in Nat, addr = VarBase + at, NEW size \in Nat, NEW buf,
         call' = [call EXCEPT ![Fvb] = NewCall(op, addr, size, buf)]
  PROVE  CallMade(op, at, size, buf)
<1>1. DOMAIN call = Client /\ Fvb \in Client /\ VarBase \in Nat
  BY FvbFacts DEF LibTypeOK
<1>2. NewTransfer(Fvb, buf)
  BY <1>1, NewTransferMade
<1>3. call'[Fvb].op = op /\ call'[Fvb].addr = addr /\ call'[Fvb].size = size
  BY <1>1 DEF NewCall
<1>4. At' = at
  BY <1>1, <1>3 DEF At
<1>5. Target' = Offsets(at, size)
  BY <1>3, <1>4 DEF Target, Offsets, Offset
<1> QED BY <1>2, <1>3, <1>4, <1>5 DEF NewTransfer, CallMade

\* The calls of a boot are about the whole store, those of a request start at
\* the offset asked for.
LEMMA BootCallData ==
  ASSUME FvbInv, NEW op \in {"erase", "read", "write"}, NEW buf,
         call' = [call EXCEPT ![Fvb] = NewCall(op, VarBase, VarSize, buf)],
         \/ fvb'.pc = "bootread" /\ op = "read"
         \/ fvb'.pc = "booterase" /\ op = "erase"
         \/ fvb'.pc = "bootwrite" /\ op = "write"
  PROVE  /\ CallData' /\ At' = 0 /\ call'[Fvb].buf = buf
         /\ Target' = Offsets(0, VarSize)
<1>1. VarBase = VarBase + 0 /\ VarSize \in Nat
  BY FvbFacts
<1>2. CallMade(op, 0, VarSize, buf)
  BY <1>1, FvbCallMade
<1> QED BY <1>2 DEF CallMade, CallData, Booting

LEMMA RequestCallData ==
  ASSUME FvbInv, NEW op \in {"erase", "read", "write"},
         NEW at \in Nat, NEW size \in Nat, NEW buf,
         call' = [call EXCEPT ![Fvb] = NewCall(op, VarBase + at, size, buf)],
         fvb'.pc = op, fvb'.at = at, fvb'.len = size, op = "write" => fvb'.data = buf
  PROVE  /\ CallData' /\ At' = at /\ call'[Fvb].buf = buf
         /\ Target' = Offsets(at, size)
<1>1. CallMade(op, at, size, buf)
  BY FvbCallMade
<1> QED BY <1>1 DEF CallMade, CallData, Booting

\* The driver is done, or not yet started.
LEMMA FvbQuietData ==
  ASSUME fvb'.pc \in {"off", "absent", "ready"}, fvb'.pc = "ready" => AgreeOn(Offset)'
  PROVE  FvbData'
  BY DEF FvbData, CallData, FvbServing, Booting

\* An offset that is not suspect after a transfer of len cells from at: the
\* transfer did not fail on it, and it was not suspect before or is repaired.
LEMMA NotBlamed ==
  ASSUME NEW at, NEW len, NEW cleared, Blame(at, len, cleared), NEW i, i \notin suspect'
  PROVE  /\ i \in Offsets(at, len) => call[Fvb].err = 0
         /\ call[Fvb].err = 0 => i \notin suspect \/ i \in cleared
         /\ call[Fvb].err # 0 => i \notin suspect
  BY DEF Blame

\* At boot the call is about the whole store.
LEMMA BootTarget ==
  ASSUME FvbInv, FvbData, fvb.pc \in Booting
  PROVE  /\ At = 0 /\ Target = Offset /\ Offsets(0, VarSize) = Offset
         /\ \A i \in Offset : i - At = i
<1>1. At = 0 /\ call[Fvb].size = VarSize /\ VarSize \in Nat
  BY FvbFacts DEF FvbData, CallData
<1>2. Offsets(0, VarSize) = Offset /\ \A i \in Offset : i - At = i
  BY <1>1 DEF Offsets, Offset
<1> QED BY <1>1, <1>2 DEF Target

LEMMA FvbHeadersFoundData ==
  ASSUME FvbInv, FvbData, FvbHeadersFound
  PROVE  FvbData'
<1>1. /\ fvb.pc = "bootread" /\ Returned(Fvb) /\ mirror' = call[Fvb].buf
      /\ Blame(0, VarSize, Offset) /\ flash' = flash /\ call[Fvb].op = "read"
  BY DEF FvbHeadersFound, FvbInv
<1>2. ASSUME NEW i \in Offset, i \notin suspect'
      PROVE  mirror'[i] = Store'[i]
  <2>1. Target = Offset /\ Offsets(0, VarSize) = Offset /\ i - At = i
    BY <1>1, BootTarget DEF Booting
  <2>2. call[Fvb].err = 0
    BY <1>1, <1>2, <2>1, NotBlamed
  <2>3. call[Fvb].buf[i - At] = Store[i]
    BY <1>1, <2>1, <2>2, TransferDone DEF FvbServing, Booting
  <2> QED BY <1>1, <2>1, <2>3 DEF Store
<1>3. fvb'.pc \in {"ready", "absent"}
  BY DoingFields DEF FvbHeadersFound, Install
<1> QED BY <1>2, <1>3, FvbQuietData DEF AgreeOn

LEMMA FvbEntryData ==
  ASSUME FvbInv, FvbData, FvbEntry \/ FvbEntryFails
  PROVE  FvbData'
<1>1. CASE FvbEntry
  <2>1. /\ call' = [call EXCEPT ![Fvb] = NewCall("read", VarBase, VarSize, mirror)]
        /\ fvb'.pc = "bootread"
    BY <1>1, FvbFacts, DoingFields DEF FvbEntry, Enter
  <2>2. CallData'
    BY <2>1, BootCallData
  <2> QED BY <2>1, <2>2 DEF FvbData
<1>2. CASE FvbEntryFails
  BY <1>2, DoingFields, FvbQuietData DEF FvbEntryFails
<1> QED BY <1>1, <1>2

LEMMA FvbFormatData ==
  ASSUME FvbInv, FvbData, FvbFormat
  PROVE  FvbData'
<1>1. /\ call' = [call EXCEPT ![Fvb] = NewCall("erase", VarBase, VarSize, NoBuf)]
      /\ fvb'.pc = "booterase" /\ mirror' = DefaultStore
  BY FvbFacts, DoingFields DEF FvbFormat, Chain
<1>2. CallData'
  BY <1>1, BootCallData
<1>3. DefaultStore' = DefaultStore
  BY DEF DefaultStore, Offset
<1> QED BY <1>1, <1>2, <1>3 DEF FvbData

\* The store is erased, or all of it is suspect, when the headers are written.
LEMMA FvbFormatErasedData ==
  ASSUME FvbInv, FvbData, FvbFormatErased
  PROVE  /\ FvbData'
         /\ \A i \in Offset \ suspect' : Store'[i] = Erased
<1>1. /\ call' = [call EXCEPT ![Fvb] = NewCall("write", VarBase, VarSize, mirror)]
      /\ fvb'.pc = "bootwrite"
  BY DoingFields DEF FvbFormatErased, Chain
<1>2. /\ fvb.pc = "booterase" /\ fvb'.pc = "bootwrite" /\ mirror' = mirror /\ flash' = flash
      /\ Returned(Fvb) /\ Blame(0, VarSize, {}) /\ call[Fvb].op = "erase"
      /\ mirror = DefaultStore
  BY FvbFacts, DoingFields DEF FvbFormatErased, Chain, FvbData, CallData
<1>3. /\ CallData' /\ At' = 0 /\ call'[Fvb].buf = mirror
      /\ Target' = Offsets(0, VarSize)
  BY <1>1, BootCallData
<1>4. Target = Offset /\ Offsets(0, VarSize) = Offset
  BY <1>2, BootTarget DEF Booting
<1>5. ASSUME NEW i \in Offset, i \notin suspect'
      PROVE  Store'[i] = Erased /\ mirror[i] \subseteq Store'[i]
  <2>1. call[Fvb].err = 0
    BY <1>2, <1>4, <1>5, NotBlamed
  <2>2. Store[i] = Erased
    BY <1>2, <1>4, <2>1, TransferDone DEF FvbServing, Booting
  <2>3. Store' = Store /\ mirror[i] \in Cell
    BY <1>2, FvbFacts DEF Store
  <2> QED BY <2>2, <2>3 DEF Cell, Erased
<1>6. Writable'
  <2>1. \A i \in Offset : i - 0 = i
    BY DEF Offset
  <2> QED BY <1>2, <1>3, <1>4, <1>5, <2>1 DEF Writable
<1>7. DefaultStore' = DefaultStore
  BY DEF DefaultStore, Offset
<1>8. FvbData'
  BY <1>2, <1>3, <1>6, <1>7 DEF FvbData
<1> QED BY <1>5, <1>8

\* A write that returned: where nothing failed, both copies are the data.
LEMMA WriteDone ==
  ASSUME FvbInv, FvbData, fvb.pc \in {"write", "bootwrite"}, Returned(Fvb),
         call[Fvb].err = 0, NEW i \in Target, i \notin suspect
  PROVE  mirror[i] = Store[i] /\ Store[i] = call[Fvb].buf[i - At]
<1>1. mirror[i] = call[Fvb].buf[i - At] /\ mirror[i] \subseteq Store[i]
  BY DEF FvbData, Writable
<1>2. Store[i] \subseteq call[Fvb].buf[i - At]
  BY TransferDone DEF FvbServing, Booting, FvbData, CallData
<1> QED BY <1>1, <1>2

LEMMA FvbFormatWrittenData ==
  ASSUME FvbInv, FvbData, FvbFormatWritten
  PROVE  FvbData'
<1>1. /\ fvb.pc = "bootwrite" /\ Returned(Fvb) /\ mirror' = mirror /\ flash' = flash
      /\ Blame(0, VarSize, {})
  BY DEF FvbFormatWritten
<1>2. Target = Offset /\ Offsets(0, VarSize) = Offset
  BY <1>1, BootTarget DEF Booting
<1>3. ASSUME NEW i \in Offset, i \notin suspect'
      PROVE  mirror'[i] = Store'[i]
  <2>1. call[Fvb].err = 0 /\ i \notin suspect
    BY <1>1, <1>2, <1>3, NotBlamed
  <2>2. mirror[i] = Store[i]
    BY <1>1, <1>2, <2>1, WriteDone
  <2> QED BY <1>1, <2>2 DEF Store
<1>4. fvb'.pc \in {"ready", "absent"}
  BY DoingFields DEF FvbFormatWritten, Install
<1> QED BY <1>3, <1>4, FvbQuietData DEF AgreeOn

\* Cells copied into the mirror: inside their range and outside.
LEMMA OverlayCells ==
  ASSUME FvbInv, NEW at \in Nat, NEW n \in Nat, NEW buf \in Memory(n), NEW i \in Offset
  PROVE  /\ i \in Offsets(at, n) => Overlay(mirror, at, buf)[i] = buf[i - at]
         /\ i \notin Offsets(at, n) => Overlay(mirror, at, buf)[i] = mirror[i]
<1>1. DOMAIN mirror = Offset /\ DOMAIN buf = 0 .. n - 1
  BY FvbFacts DEF Memory
<1>2. i \in Offsets(at, n) <=> i - at \in 0 .. n - 1
  BY DEF Offsets, Offset
<1> QED BY <1>1, <1>2 DEF Overlay

LEMMA FvbReadData ==
  ASSUME FvbInv, FvbData, NEW lba \in Lba, NEW offset \in 0 .. SectorSize - 1, NEW len \in Nat,
         FvbRead(lba, offset, len)
  PROVE  FvbData'
<1> DEFINE at == LocalOffset(lba, offset)
<1>1. at \in Nat
  BY LocalOffsetOK
<1>2. /\ call' = [call EXCEPT ![Fvb] = NewCall("read", VarBase + at, len, Slice(mirror, at, len))]
      /\ fvb'.pc = "read" /\ fvb'.at = at /\ fvb'.len = len
  BY DEF FvbRead, Enter, Doing
<1>3. /\ fvb.pc = "ready" /\ UNCHANGED <<flash, mirror, suspect>> /\ "read" \in FvbServing
  BY DEF FvbRead, FvbServing
<1> HIDE DEF at
<1>4. CallData'
  BY <1>1, <1>2, RequestCallData
<1>5. AgreeOn(Offset)'
  BY <1>3 DEF FvbData, AgreeOn, Store, Offset
<1> QED BY <1>2, <1>4, <1>5 DEF FvbData

\* A cell that Read brought back without an error is what the flash holds.
LEMMA FvbReadDoneData ==
  ASSUME FvbInv, FvbData, FvbReadDone
  PROVE  FvbData'
<1>1. /\ fvb.pc = "read" /\ Returned(Fvb) /\ flash' = flash /\ call[Fvb].op = "read"
      /\ mirror' = Overlay(mirror, fvb.at, call[Fvb].buf)
      /\ Blame(fvb.at, fvb.len, Offsets(fvb.at, fvb.len))
      /\ fvb'.pc = "ready"
  BY DoingFields DEF FvbReadDone, FvbInv
<1>2. /\ Target = Offsets(fvb.at, fvb.len) /\ At = fvb.at /\ call[Fvb].size = fvb.len
      /\ AgreeOn(Offset)
  BY <1>1 DEF FvbData, CallData, Target
<1>3. fvb.at \in Nat /\ fvb.len \in Nat /\ call[Fvb].buf \in Memory(fvb.len)
  BY <1>1, <1>2, FvbFacts
<1>4. ASSUME NEW i \in Offset, i \notin suspect'
      PROVE  mirror'[i] = Store'[i]
  <2>1. CASE i \in Target
    <3>1. call[Fvb].err = 0
      BY <1>1, <1>2, <1>4, <2>1, NotBlamed
    <3>2. call[Fvb].buf[i - At] = Store[i]
      BY <1>1, <2>1, <3>1, TransferDone DEF FvbServing
    <3>3. mirror'[i] = call[Fvb].buf[i - At]
      BY <1>1, <1>2, <1>3, <2>1, OverlayCells
    <3> QED BY <1>1, <3>2, <3>3 DEF Store
  <2>2. CASE i \notin Target
    <3>1. i \notin suspect
      BY <1>1, <1>2, <1>4, <2>2, NotBlamed
    <3>2. mirror'[i] = mirror[i]
      BY <1>1, <1>2, <1>3, <2>2, OverlayCells
    <3> QED BY <1>1, <1>2, <3>1, <3>2 DEF AgreeOn, Store
  <2> QED BY <2>1, <2>2
<1> QED BY <1>1, <1>4, FvbQuietData DEF AgreeOn

\* The sticky write rule: data only clears bits that the mirror shows, so the
\* flash can become what the mirror now says.
LEMMA FvbWriteData ==
  ASSUME FvbInv, FvbData, NEW lba \in Lba, NEW offset \in 0 .. SectorSize - 1, NEW len \in Nat,
         NEW data \in [0 .. len - 1 -> Data],
         \A i \in 0 .. len - 1 : data[i] \subseteq mirror[LocalOffset(lba, offset) + i],
         FvbWrite(lba, offset, len, data)
  PROVE  FvbData'
<1> DEFINE at == LocalOffset(lba, offset)
<1>1. at \in Nat /\ data \in Memory(len)
  BY LocalOffsetOK, FvbAssumption DEF Memory
<1>2. /\ call' = [call EXCEPT ![Fvb] = NewCall("write", VarBase + at, len, data)]
      /\ fvb'.pc = "write" /\ fvb'.at = at /\ fvb'.len = len /\ fvb'.data = data
  BY DEF FvbWrite, Enter, Doing
<1>3. /\ fvb.pc = "ready" /\ UNCHANGED <<flash, suspect>>
      /\ mirror' = Overlay(mirror, at, data)
  BY DEF FvbWrite
<1>4. \A i \in 0 .. len - 1 : data[i] \subseteq mirror[at + i]
  OBVIOUS
<1> HIDE DEF at
<1>5. CallData' /\ At' = at /\ call'[Fvb].buf = data /\ Target' = Offsets(at, len)
  BY <1>1, <1>2, RequestCallData
<1>6. AgreeOn(Offset)
  BY <1>3 DEF FvbData
<1>7. AgreeOn(Offset \ Target)'
  BY <1>1, <1>3, <1>5, <1>6, OverlayCells DEF AgreeOn, Store, Offset
<1>8. ASSUME NEW i \in Offsets(at, len)
      PROVE  /\ mirror'[i] = data[i - at]
             /\ i \in suspect \/ mirror'[i] \subseteq Store[i]
  <2>1. i \in Offset /\ i - at \in 0 .. len - 1 /\ at + (i - at) = i
    BY <1>1 DEF Offsets, Offset
  <2>2. mirror'[i] = data[i - at]
    BY <1>1, <1>3, <2>1, OverlayCells
  <2>3. data[i - at] \subseteq mirror[i]
    BY <1>4, <2>1
  <2> QED BY <1>6, <2>1, <2>2, <2>3 DEF AgreeOn
<1>9. Writable'
  BY <1>3, <1>5, <1>8 DEF Writable, Store
<1> QED BY <1>2, <1>5, <1>7, <1>9 DEF FvbData

LEMMA FvbWriteDoneData ==
  ASSUME FvbInv, FvbData, FvbWriteDone
  PROVE  FvbData'
<1>1. /\ fvb.pc = "write" /\ Returned(Fvb) /\ flash' = flash /\ mirror' = mirror
      /\ Blame(fvb.at, fvb.len, {}) /\ fvb'.pc = "ready"
  BY DoingFields DEF FvbWriteDone
<1>2. Target = Offsets(fvb.at, fvb.len) /\ AgreeOn(Offset \ Target)
  BY <1>1 DEF FvbData, CallData, Target
<1>3. ASSUME NEW i \in Offset, i \notin suspect'
      PROVE  mirror'[i] = Store'[i]
  <2>1. i \notin suspect
    BY <1>1, <1>3, NotBlamed
  <2>2. CASE i \in Target
    <3>1. call[Fvb].err = 0
      BY <1>1, <1>2, <1>3, <2>2, NotBlamed
    <3> QED BY <1>1, <2>1, <2>2, <3>1, WriteDone DEF Store
  <2>3. CASE i \notin Target
    BY <1>1, <1>2, <2>1, <2>3 DEF AgreeOn, Store
  <2> QED BY <2>2, <2>3
<1> QED BY <1>1, <1>3, FvbQuietData DEF AgreeOn

\* Erasing the first tuple of a list, when the copies agree but for suspects.
LEMMA EraseTupleData ==
  ASSUME FvbInv, NEW list \in Seq(Tuple), list # <<>>, EraseTuple(list),
         \A i \in Offset \ suspect' : mirror[i] = Store[i]
  PROVE  FvbData'
<1> DEFINE at   == list[1][1] * SectorSize
           size == list[1][2] * SectorSize
<1>1. at \in Nat /\ size \in Nat
  <2>1. list[1] \in Tuple
    OBVIOUS
  <2>2. list[1][1] \in Nat /\ list[1][2] \in Nat
    BY <2>1 DEF Tuple
  <2> QED BY <2>2, SectorSizeAssumption
<1>2. /\ call' = [call EXCEPT ![Fvb] = NewCall("erase", VarBase + at, size, NoBuf)]
      /\ fvb'.pc = "erase" /\ fvb'.at = at /\ fvb'.len = size
  BY DEF EraseTuple, Doing
<1>3. /\ mirror' = [i \in Offset |-> IF i \in Offsets(at, size) THEN Erased ELSE mirror[i]]
      /\ flash' = flash
  BY DEF EraseTuple
<1> HIDE DEF at, size
<1>4. CallData' /\ Target' = Offsets(at, size)
  BY <1>1, <1>2, RequestCallData
<1>5. AgreeOn(Offset \ Target)'
  BY <1>3, <1>4 DEF AgreeOn, Store, Offset
<1>6. \A i \in Offsets(at, size) : mirror'[i] = Erased
  BY <1>3 DEF Offsets
<1>7. (\A i \in Target : mirror[i] = Erased)'
  BY <1>4, <1>6 DEF Erased
<1> QED BY <1>2, <1>4, <1>5, <1>7 DEF FvbData

LEMMA FvbEraseData ==
  ASSUME FvbInv, FvbData, ListsInVolume, NEW list \in EraseLists, FvbErase(list)
  PROVE  FvbData'
<1>1. /\ fvb.pc = "ready" /\ suspect' = suspect /\ EraseTuple(list) /\ list # <<>>
      /\ list \in Seq(Tuple)
  BY DEF FvbErase, ListsInVolume
<1>2. \A i \in Offset \ suspect' : mirror[i] = Store[i]
  BY <1>1 DEF FvbData, AgreeOn
<1> QED BY <1>1, <1>2, EraseTupleData

\* An erase that returned without an error repairs what was suspect in it.
LEMMA FvbEraseNextData ==
  ASSUME FvbInv, FvbData, FvbEraseNext
  PROVE  FvbData'
<1>1. /\ fvb.pc = "erase" /\ Returned(Fvb) /\ Blame(fvb.at, fvb.len, Offsets(fvb.at, fvb.len))
      /\ call[Fvb].op = "erase" /\ fvb.todo \in Seq(Tuple)
  BY DEF FvbEraseNext, FvbData, CallData, FvbInv
<1>2. /\ Target = Offsets(fvb.at, fvb.len) /\ AgreeOn(Offset \ Target)
      /\ \A i \in Target : mirror[i] = Erased
  BY <1>1 DEF FvbData, CallData, Target
<1>3. ASSUME NEW i \in Offset, i \notin suspect'
      PROVE  mirror[i] = Store[i]
  <2>1. CASE i \in Target
    <3>1. call[Fvb].err = 0
      BY <1>1, <1>2, <1>3, <2>1, NotBlamed
    <3>2. Store[i] = Erased
      BY <1>1, <2>1, <3>1, TransferDone DEF FvbServing
    <3> QED BY <1>2, <2>1, <3>2
  <2>2. CASE i \notin Target
    <3>1. i \notin suspect
      BY <1>1, <1>2, <1>3, <2>2, NotBlamed
    <3> QED BY <1>2, <2>2, <3>1 DEF AgreeOn
  <2> QED BY <2>1, <2>2
<1>4. CASE fvb.todo # <<>> /\ EraseTuple(fvb.todo)
  BY <1>1, <1>3, <1>4, EraseTupleData
<1>5. CASE fvb' = Doing("ready") /\ UNCHANGED <<flash, mirror>>
  <2>1. fvb'.pc = "ready"
    BY <1>5, DoingFields
  <2>2. AgreeOn(Offset)'
    BY <1>3, <1>5 DEF AgreeOn, Store, Offset
  <2> QED BY <2>1, <2>2, FvbQuietData
<1> QED BY <1>4, <1>5 DEF FvbEraseNext

LEMMA FvbStepData ==
  ASSUME FvbInv, FvbData, ListsInVolume, FvbRun \/ FvbRequest
  PROVE  FvbData'
<1>1. CASE FvbRun
  BY <1>1, FvbEntryData, FvbHeadersFoundData, FvbFormatData, FvbFormatErasedData,
     FvbFormatWrittenData, FvbReadDoneData, FvbWriteDoneData, FvbEraseNextData,
     FvbLibStepData DEF FvbRun
<1>2. CASE \E lba \in Lba, offset \in 0 .. SectorSize - 1, len \in 0 .. MaxLen :
             LocalOffset(lba, offset) + len <= VarSize /\ FvbRead(lba, offset, len)
  BY <1>2, FvbReadData, FvbAssumption
<1>3. CASE \E lba \in Lba, offset \in 0 .. SectorSize - 1, len \in 1 .. MaxLen :
             /\ LocalOffset(lba, offset) + len <= VarSize
             /\ \E data \in [0 .. len - 1 -> Data] :
                  /\ \A i \in 0 .. len - 1 :
                       data[i] \subseteq mirror[LocalOffset(lba, offset) + i]
                  /\ FvbWrite(lba, offset, len, data)
  BY <1>3, FvbWriteData, FvbAssumption
<1>4. CASE \E list \in EraseLists : FvbErase(list)
  BY <1>4, FvbEraseData
<1> QED BY <1>1, <1>2, <1>3, <1>4 DEF FvbRequest

LEMMA FvbResetData ==
  ASSUME FvbReset
  PROVE  FvbData'
  BY DoingFields, FvbQuietData DEF FvbReset

\* What the invariant says between requests and while headers are written.
LEMMA FvbCopiesAgree ==
  ASSUME FvbInv, FvbData
  PROVE  CopiesAgree
<1>1. FreshHeaderFreshStore
  <2>1. SUFFICES ASSUME fvb.pc = "bootwrite", NEW i \in Offset, i \notin suspect, i # 0
                 PROVE  Store[i] = Erased
    BY DEF FreshHeaderFreshStore
  <2>2. mirror[i] = Erased
    BY <2>1 DEF FvbData, DefaultStore
  <2>3. mirror[i] \subseteq Store[i]
    BY <2>1, BootTarget DEF FvbData, Writable, Booting
  <2>4. Store[i] \in Cell
    BY <2>1, FvbFacts, TargetCell DEF LibTypeOK, FvbServing, Booting
  <2> QED BY <2>2, <2>3, <2>4 DEF Erased, Cell
<1>2. MirrorMatchesFlash
  BY DEF FvbData, AgreeOn, MirrorMatchesFlash
<1> QED BY <1>1, <1>2 DEF CopiesAgree, FvbInv

\* The contents invariant holds in every state of the driver.
THEOREM FvbDataInvariant ==
  ASSUME ListsInVolume PROVE FvbSpec => [](FvbInv /\ FvbData)
<1>1. FvbInit => FvbData
  BY DoingFields DEF FvbInit, FvbData, CallData, FvbServing, Booting
<1>2. FvbInv /\ FvbData /\ [FvbNext]_<<libVars, fvbVars>> => FvbData'
  <2>1. SUFFICES ASSUME FvbInv, FvbData, [FvbNext]_<<libVars, fvbVars>> PROVE FvbData'
    OBVIOUS
  <2>2. CASE FvbRun \/ FvbRequest
    BY <2>1, <2>2, FvbStepData
  <2>3. CASE FvbPowerLoss
    BY <2>3, FvbResetData DEF FvbPowerLoss
  <2>4. CASE UNCHANGED <<libVars, fvbVars>>
    BY <2>1, <2>4 DEF libVars, fvbVars, FvbData, CallData, AgreeOn, Writable, TransferOK,
       Target, At, Offsets, Offset, Store, DefaultStore
  <2> QED BY <2>1, <2>2, <2>3, <2>4 DEF FvbNext
<1> QED BY <1>1, <1>2, FvbInvariant, PTL DEF FvbSpec

\* Between requests memory and flash agree except where a transfer failed, and
\* no old variable is left behind headers that are being written, whatever
\* TF-A fails and whenever the power is lost (SmcFlashFvbRead,
\* SmcFlashFvbWrite, SmcFlashFvbErase, BaikalFvHeader).
THEOREM FvbKeepsCopiesAgreed ==
  ASSUME ListsInVolume PROVE FvbSpec => []CopiesAgree
<1>1. FvbInv /\ FvbData => CopiesAgree
  BY FvbCopiesAgree
<1> QED BY <1>1, FvbDataInvariant, PTL

\* A store whose headers are valid in the flash is formatted only if the read
\* of it failed: what the driver examines is what the flash holds.
THEOREM FvbWipesOnlyInvalid ==
  ASSUME ListsInVolume PROVE FvbSpec => WipesOnlyInvalidStore
<1>1. ASSUME FvbInv, FvbData, FvbNext, fvb.pc = "bootread", fvb'.pc = "booterase",
             call[Fvb].err = 0
      PROVE  ~ValidHeader(Store)
  <2>1. FvbFormat
    BY <1>1, DoingFields DEF FvbNext, FvbRun, FvbRequest, FvbPowerLoss, FvbReset, FvbEntryFails,
       FvbEntry, FvbHeadersFound, Install, FvbFormatErased, FvbFormatWritten, FvbReadDone,
       FvbWriteDone, FvbEraseNext, FvbRead, FvbWrite, FvbErase, fvbVars
  <2>2. ~ValidHeader(call[Fvb].buf) /\ Returned(Fvb)
    BY <2>1 DEF FvbFormat, Chain
  <2>3. 0 \in Offset /\ 0 - At = 0 /\ Target = Offset /\ call[Fvb].op = "read"
    BY <1>1, BootTarget, FvbAssumption DEF Offset, Booting, FvbInv
  <2>4. call[Fvb].buf[0] = Store[0]
    BY <1>1, <2>2, <2>3, TransferDone DEF FvbServing, Booting
  <2> QED BY <2>2, <2>4 DEF ValidHeader
<1>2. FvbInv /\ FvbData /\ [FvbNext]_<<libVars, fvbVars>> =>
        [fvb.pc = "bootread" /\ fvb'.pc = "booterase" /\ call[Fvb].err = 0
           => ~ValidHeader(Store)]_<<libVars, fvbVars>>
  BY <1>1
<1> QED BY <1>2, FvbDataInvariant, PTL DEF FvbSpec, WipesOnlyInvalidStore

\* A Write whose transfer did not fail has put its data in the flash, but for
\* cells that an earlier failure left unlike what the caller saw.
THEOREM FvbWriteIsStored ==
  ASSUME ListsInVolume PROVE FvbSpec => WriteSuccessIsStored
<1>1. ASSUME FvbInv, FvbData, FvbNext, fvb.pc = "write", fvb'.pc = "ready", call[Fvb].err = 0,
             NEW i \in DOMAIN fvb.data, fvb.at + i \notin suspect
      PROVE  Store[fvb.at + i] = fvb.data[i]
  <2>1. FvbWriteDone
    BY <1>1, DoingFields DEF FvbNext, FvbRun, FvbRequest, FvbPowerLoss, FvbReset, FvbEntryFails,
       FvbEntry, FvbHeadersFound, FvbFormat, FvbFormatErased, FvbFormatWritten, FvbReadDone,
       FvbEraseNext, FvbRead, FvbWrite, FvbErase, fvbVars
  <2>2. /\ fvb.data = call[Fvb].buf /\ At = fvb.at /\ call[Fvb].size = fvb.len
        /\ call[Fvb].op = "write" /\ Returned(Fvb)
    BY <1>1, <2>1 DEF FvbData, CallData, FvbWriteDone
  <2>3. call[Fvb].buf \in Memory(fvb.len) /\ fvb.at \in Nat /\ fvb.len \in Nat
    <3>1. CallOK(call[Fvb]) /\ fvb.at \in Nat /\ fvb.len \in Nat
      BY <1>1, FvbFacts
    <3>2. call[Fvb].buf \in Memory(call[Fvb].size)
      BY <2>2, <3>1 DEF CallOK
    <3> QED BY <2>2, <3>1, <3>2
  <2>4. fvb.at + i \in Target /\ (fvb.at + i) - At = i
    <3>1. i \in 0 .. fvb.len - 1
      BY <2>2, <2>3 DEF Memory
    <3>2. /\ call[Fvb].addr \in Nat /\ call[Fvb].addr + fvb.len <= VarBase + VarSize
          /\ VarBase \in Nat /\ VarSize \in Nat
      BY <1>1, <2>2, FvbFacts DEF FvbInv, InVolume, FvbServing, CallOK
    <3> QED BY <2>2, <2>3, <3>1, <3>2 DEF Target, At, Offsets, Offset
  <2>5. Store[fvb.at + i] = call[Fvb].buf[(fvb.at + i) - At]
    BY <1>1, <2>2, <2>4, WriteDone
  <2> QED BY <2>2, <2>4, <2>5
<1>2. FvbInv /\ FvbData /\ [FvbNext]_<<libVars, fvbVars>> =>
        [fvb.pc = "write" /\ fvb'.pc = "ready" /\ call[Fvb].err = 0
           => \A i \in DOMAIN fvb.data :
                fvb.at + i \notin suspect => Store[fvb.at + i] = fvb.data[i]]_<<libVars, fvbVars>>
  BY <1>1
<1> QED BY <1>2, FvbDataInvariant, PTL DEF FvbSpec, WriteSuccessIsStored

----------------------------------------------------------------------------
(***************************************************************************)
(* The variable store and the block device share the flash, the library    *)
(* and the bounce buffer, and neither changes what is the other's.         *)
(***************************************************************************)
\* Each driver's invariant holds beside the other: both speak of the library
\* and of the driver's own call and variables only.
NvInv == FvbInv /\ BlkInv

LEMMA NvInitInv ==
  ASSUME \E f \in [Addr -> Cell] : LibInit(f), FvbInit, BlkInit
  PROVE  NvInv
  BY FvbInitInv, BlkInitInv DEF NvInv

\* A step that leaves Blk's call and variables alone keeps its invariant.
LEMMA BlkUntouched ==
  ASSUME BlkInv, LibTypeOK', call'[Blk] = call[Blk], UNCHANGED blkVars
  PROVE  BlkInv'
  BY DEF BlkInv, BlkTypeOK, blkVars, Idle, InArea

LEMMA FvbUntouched ==
  ASSUME FvbInv, LibTypeOK', call'[Fvb] = call[Fvb], UNCHANGED fvbVars
  PROVE  FvbInv'
  BY DEF FvbInv, FvbTypeOK, fvbVars, Idle, InVolume

LEMMA NvFvbInv ==
  ASSUME NvInv, ListsInVolume, FvbRun \/ FvbRequest, UNCHANGED blkVars
  PROVE  NvInv'
<1>1. FvbInv'
  BY FvbStepInv DEF NvInv
<1>2. call'[Blk] = call[Blk]
  BY FvbOwnCallOnly, AreasAssumption DEF NvInv
<1>3. BlkInv'
  BY <1>1, <1>2, BlkUntouched DEF NvInv, FvbInv, FvbTypeOK
<1> QED BY <1>1, <1>3 DEF NvInv

LEMMA NvBlkInv ==
  ASSUME NvInv, BlkRun \/ BlkRequest, UNCHANGED fvbVars
  PROVE  NvInv'
<1>1. BlkInv'
  BY BlkStepInv DEF NvInv, BlkNext
<1>2. call'[Fvb] = call[Fvb]
  BY BlkOwnCallOnly, AreasAssumption DEF NvInv
<1>3. FvbInv'
  BY <1>1, <1>2, FvbUntouched DEF NvInv, BlkInv, BlkTypeOK
<1> QED BY <1>1, <1>3 DEF NvInv

LEMMA NvStepInv ==
  ASSUME NvInv, ListsInVolume, [NvNext]_nvVars
  PROVE  NvInv'
<1>1. CASE NvFvbRuns \/ NvFvbRequested
  BY <1>1, NvFvbInv DEF NvFvbRuns, NvFvbRequested
<1>2. CASE NvBlkRuns \/ NvBlkRequested
  BY <1>2, NvBlkInv DEF NvBlkRuns, NvBlkRequested
<1>3. CASE NvPowerLoss
  <2>1. FvbInv'
    BY <1>3, FvbPowerLossInv DEF NvPowerLoss, NvInv
  <2>2. BlkInv'
    BY <1>3, BlkPowerLossInv DEF NvPowerLoss, NvInv, BlkPowerLoss
  <2> QED BY <2>1, <2>2 DEF NvInv
<1>4. CASE UNCHANGED nvVars
  <2>1. LibTypeOK' /\ call' = call /\ UNCHANGED fvbVars /\ UNCHANGED blkVars
    BY <1>4 DEF nvVars, libVars, NvInv, FvbInv, FvbTypeOK, LibTypeOK
  <2> QED BY <2>1, BlkUntouched, FvbUntouched DEF NvInv
<1> QED BY <1>1, <1>2, <1>3, <1>4 DEF NvNext

\* The inductive invariant holds in every state of the two drivers.
THEOREM NvInvariant ==
  ASSUME ListsInVolume PROVE NvSpec => []NvInv
<1>1. (\E f \in [Addr -> Cell] : LibInit(f)) /\ FvbInit /\ BlkInit => NvInv
  BY NvInitInv
<1>2. NvInv /\ [NvNext]_nvVars => NvInv'
  BY NvStepInv
<1> QED BY <1>1, <1>2, PTL DEF NvSpec

\* Only FVB calls change the variable store, only block calls change the
\* block area, and nothing changes the firmware image or the rest of the
\* flash, whoever preempts whom and whenever the power fails.
THEOREM NvKeepsAreasApart ==
  ASSUME ListsInVolume PROVE NvSpec => AreasKeptApart
<1>1. ASSUME NvInv, NvNext, NEW a \in Addr, flash'[a] # flash[a]
      PROVE  \/ a \in VarArea /\ Changing(Fvb)
             \/ a >= MapBlock /\ Changing(Blk)
  <2>1. CASE NvFvbRuns \/ NvFvbRequested
    BY <1>1, <2>1, FvbChanges DEF NvFvbRuns, NvFvbRequested, NvInv
  <2>2. CASE NvBlkRuns \/ NvBlkRequested
    BY <1>1, <2>2, BlkChanges DEF NvBlkRuns, NvBlkRequested, NvInv
  <2>3. CASE NvPowerLoss
    <3>1. PICK c \in Client : a \in Footprint(c) /\ Changing(c)
      BY <1>1, <2>3, LibPowerLossOK DEF NvPowerLoss, NvInv, FvbInv, FvbTypeOK
    <3>2. CASE c = Fvb
      BY <1>1, <3>1, <3>2, FvbFootprint DEF NvInv
    <3>3. CASE c = Blk
      BY <1>1, <3>1, <3>3, BlkFootprint DEF NvInv
    <3> QED BY <3>1, <3>2, <3>3, AreasAssumption
  <2> QED BY <1>1, <2>1, <2>2, <2>3 DEF NvNext
<1>2. NvInv /\ [NvNext]_nvVars =>
        [\A a \in Addr : flash'[a] # flash[a] =>
           \/ a \in VarArea /\ Changing(Fvb)
           \/ a >= MapBlock /\ Changing(Blk)]_nvVars
  BY <1>1, Zenon
<1> QED BY <1>2, NvInvariant, PTL DEF NvSpec, AreasKeptApart

----------------------------------------------------------------------------
(***************************************************************************)
(* The two copies of the variable store agree although the block driver    *)
(* shares the flash: it runs only between FVB requests and changes only    *)
(* cells behind the store.                                                 *)
(***************************************************************************)
LEMMA NvBlkKeepsData ==
  ASSUME NvInv, FvbData, ~FvbBusy, BlkRun \/ BlkRequest, UNCHANGED fvbVars
  PROVE  FvbData'
<1>1. fvb.pc \in {"off", "absent", "ready"} /\ fvb' = fvb /\ mirror' = mirror /\ suspect' = suspect
  BY DEF FvbBusy, fvbVars
<1>2. ASSUME NEW i \in Offset
      PROVE  Store'[i] = Store[i]
  <2>1. /\ VarBase \in Nat /\ VarSize \in Nat /\ MapBlock \in Nat
        /\ VarBase + VarSize <= MapBlock /\ VarBase + VarSize <= FlashSize
    BY FvbAssumption, BlkAssumption, AreasAssumption
  <2>2. VarBase + i \in Addr /\ VarBase + i < MapBlock
    BY <2>1, FlashSizeAssumption DEF Offset, Addr
  <2>3. flash'[VarBase + i] = flash[VarBase + i]
    <3>1. SUFFICES ASSUME flash'[VarBase + i] # flash[VarBase + i] PROVE FALSE
      OBVIOUS
    <3>2. VarBase + i >= MapBlock
      BY <2>2, <3>1, BlkChanges DEF NvInv
    <3> QED BY <2>1, <2>2, <3>2 DEF Addr
  <2> QED BY <2>3 DEF Store
<1>3. fvb.pc = "ready" => AgreeOn(Offset)'
  BY <1>1, <1>2 DEF FvbData, AgreeOn
<1> QED BY <1>1, <1>3, FvbQuietData

\* The driver's data invariant holds beside the block driver, too.
LEMMA NvDataInv ==
  ASSUME NvInv, FvbData, ListsInVolume, [NvNext]_nvVars
  PROVE  FvbData'
<1>1. CASE NvFvbRuns \/ NvFvbRequested
  BY <1>1, FvbStepData DEF NvFvbRuns, NvFvbRequested, NvInv
<1>2. CASE NvBlkRuns \/ NvBlkRequested
  BY <1>2, NvBlkKeepsData DEF NvBlkRuns, NvBlkRequested
<1>3. CASE NvPowerLoss
  BY <1>3, FvbResetData DEF NvPowerLoss
<1>4. CASE UNCHANGED nvVars
  BY <1>4 DEF nvVars, libVars, fvbVars, FvbData, CallData, AgreeOn, Writable, TransferOK,
     Target, At, Offsets, Offset, Store, DefaultStore
<1> QED BY <1>1, <1>2, <1>3, <1>4 DEF NvNext

\* Between FVB requests the published memory and the flash agree, but for the
\* offsets whose transfer TF-A failed, even when a variable is set in the
\* middle of a block request and both use the one bounce buffer.
THEOREM NvCopiesAgree ==
  ASSUME ListsInVolume PROVE NvSpec => []MirrorMatchesFlash
<1>1. FvbInit => FvbData
  BY DoingFields DEF FvbInit, FvbData, CallData, FvbServing, Booting
<1>2. NvInv /\ FvbData /\ [NvNext]_nvVars => FvbData'
  BY NvDataInv
<1>3. NvInv /\ FvbData => MirrorMatchesFlash
  BY DEF FvbData, AgreeOn, MirrorMatchesFlash
<1> QED BY <1>1, <1>2, <1>3, NvInvariant, PTL DEF NvSpec
=============================================================================
