--------------------------- MODULE SmcFlashFvbDxe ---------------------------
(***************************************************************************)
(* The firmware volume block driver of the variable store                  *)
(* (Platform/Baikal/Drivers/SmcFlashFvbDxe).                               *)
(*                                                                         *)
(* The store lives twice: in a RAM mirror that the driver publishes as     *)
(* memory mapped, and in the flash from VarBase on.  The entry point reads *)
(* the flash into the mirror and, if the headers do not validate, formats  *)
(* the store.  The protocol's Read refreshes the mirror from the flash,    *)
(* Write changes the mirror and then the flash, EraseBlocks walks a list.  *)
(* Every result of SmcFlashLib is ignored and every call returns           *)
(* EFI_SUCCESS.                                                            *)
(*                                                                         *)
(* One caller at a time: the variable driver holds its lock around every   *)
(* use of the protocol.                                                    *)
(***************************************************************************)
EXTENDS SmcFlashLib, Sequences

CONSTANTS
  Fvb,         \* this driver, as a client of SmcFlashLib
  VarBase,     \* FLASH_MAP_VAR
  VarSize,     \* mNvStorageSize
  Header,      \* the cell that holds valid headers
  MaxLen,      \* bound: the longest Read or Write, in cells
  Data,        \* bound: the cells a caller writes
  EraseLists   \* bound: the lists of <<Lba, Cnt>> given to EraseBlocks

ASSUME FvbAssumption ==
  /\ Fvb \in Client
  /\ VarBase \in Nat /\ VarSize \in Nat \ {0}
  /\ VarBase + VarSize <= FlashSize
  /\ VarBase % SectorSize = 0 /\ VarSize % SectorSize = 0
  /\ Header \in Cell /\ Data \subseteq Cell /\ Header # Erased
  /\ MaxLen \in Nat

VARIABLES
  mirror,      \* [Offset -> Cell], the RAM at mNvStorageBase
  fvb,         \* what the driver is doing
  suspect      \* history: offsets whose last transfer TF-A failed

fvbVars == <<mirror, fvb, suspect>>

Offset  == 0 .. VarSize - 1
VarArea == VarBase .. VarBase + VarSize - 1
Store   == [i \in Offset |-> flash[VarBase + i]]
Offsets(at, n) == Offset \cap (at .. at + n - 1)

DefaultStore   == [i \in Offset |-> IF i = 0 THEN Header ELSE Erased]
ValidHeader(m) == m[0] = Header

Booting == {"bootread", "booterase", "bootwrite"}
Doing(pc) == [pc |-> pc, at |-> 0, len |-> 0, data |-> NoBuf, todo |-> <<>>]

\* Mutant: flash addresses recorded in place of offsets.
BlameAddresses(at, len, cleared) ==
  suspect' = IF call[Fvb].err # 0 THEN suspect \cup (VarBase + at .. VarBase + at + len)
                              ELSE suspect \ cleared

\* A transfer of len cells from at has returned: it failed, or it repairs the offsets cleared.
Blame(at, len, cleared) ==
  suspect' = IF call[Fvb].err # 0 THEN suspect \cup Offsets(at, len)
                              ELSE suspect \ cleared

----------------------------------------------------------------------------
(* The entry point: SmcFlashFvbDxeInitialize and BaikalFvHeader.           *)

\* The pages at the fixed address, or the pool for mFlashInfo, are refused.
FvbEntryFails ==
  /\ fvb.pc = "off"
  /\ fvb' = Doing("absent")
  /\ UNCHANGED <<libVars, mirror, suspect>>

FvbEntry ==
  /\ fvb.pc = "off"
  /\ Enter(Fvb, "read", VarBase, VarSize, mirror)
  /\ fvb' = Doing("bootread")
  /\ UNCHANGED <<flash, bounce, position, mirror, suspect>>

\* CreateEventEx and InstallMultipleProtocolInterfaces, which may fail.
Install == \E pc \in {"ready", "absent"} : fvb' = Doing(pc)

\* Mutant: the headers are taken without validating them.
FvbHeadersUnchecked ==
  /\ fvb.pc = "bootread"
  /\ Returned(Fvb)
  /\ mirror' = call[Fvb].buf
  /\ Blame(0, VarSize, Offset)
  /\ Leave(Fvb)
  /\ Install
  /\ UNCHANGED <<flash, bounce, position>>

FvbHeadersFound ==
  /\ fvb.pc = "bootread"
  /\ Returned(Fvb)
  /\ ValidHeader(call[Fvb].buf)
  /\ mirror' = call[Fvb].buf
  /\ Blame(0, VarSize, Offset)
  /\ Leave(Fvb)
  /\ Install
  /\ UNCHANGED <<flash, bounce, position>>

\* Mutants: every boot formats; the headers are written and nothing erased.
FvbFormatAlways ==
  /\ fvb.pc = "bootread"
  /\ Chain(Fvb, "erase", VarBase, VarSize, NoBuf)
  /\ mirror' = DefaultStore
  /\ suspect' = {}
  /\ fvb' = Doing("booterase")
  /\ UNCHANGED <<flash, bounce, position>>

FvbFormatNoErase ==
  /\ fvb.pc = "bootread"
  /\ ~ValidHeader(call[Fvb].buf)
  /\ Chain(Fvb, "write", VarBase, VarSize, DefaultStore)
  /\ mirror' = DefaultStore
  /\ suspect' = {}
  /\ fvb' = Doing("bootwrite")
  /\ UNCHANGED <<flash, bounce, position>>

\* InitializeFvAndVariableStoreHeaders in the mirror, then erase the flash
FvbFormat ==
  /\ fvb.pc = "bootread"
  /\ ~ValidHeader(call[Fvb].buf)
  /\ Chain(Fvb, "erase", VarBase, VarSize, NoBuf)
  /\ mirror' = DefaultStore
  /\ suspect' = {}
  /\ fvb' = Doing("booterase")
  /\ UNCHANGED <<flash, bounce, position>>

FvbFormatErased ==
  /\ fvb.pc = "booterase"
  /\ Chain(Fvb, "write", VarBase, VarSize, mirror)
  /\ Blame(0, VarSize, {})
  /\ fvb' = Doing("bootwrite")
  /\ UNCHANGED <<flash, bounce, position, mirror>>

FvbFormatWritten ==
  /\ fvb.pc = "bootwrite"
  /\ Returned(Fvb)
  /\ Blame(0, VarSize, {})
  /\ Leave(Fvb)
  /\ Install
  /\ UNCHANGED <<flash, bounce, position, mirror>>

----------------------------------------------------------------------------
(* The protocol.  A caller passes an Lba, an offset into it and a length;  *)
(* the driver adds them up and checks none of the three.                   *)

LocalOffset(lba, offset) == lba * SectorSize + offset
Lba == 0 .. (VarSize \div SectorSize) - 1

FvbRead(lba, offset, len) ==
  LET at == LocalOffset(lba, offset) IN
  /\ fvb.pc = "ready"
  /\ Enter(Fvb, "read", VarBase + at, len, Slice(mirror, at, len))
  /\ fvb' = [Doing("read") EXCEPT !.at = at, !.len = len]
  /\ UNCHANGED <<flash, bounce, position, mirror, suspect>>

\* Mutant: the mirror is refreshed from its start.
FvbReadDoneAtStart ==
  /\ fvb.pc = "read"
  /\ Returned(Fvb)
  /\ mirror' = Overlay(mirror, 0, call[Fvb].buf)
  /\ Blame(fvb.at, fvb.len, Offsets(fvb.at, fvb.len))
  /\ Leave(Fvb)
  /\ fvb' = Doing("ready")
  /\ UNCHANGED <<flash, bounce, position>>

FvbReadDone ==
  /\ fvb.pc = "read"
  /\ Returned(Fvb)
  /\ mirror' = Overlay(mirror, fvb.at, call[Fvb].buf)
  /\ Blame(fvb.at, fvb.len, Offsets(fvb.at, fvb.len))
  /\ Leave(Fvb)
  /\ fvb' = Doing("ready")
  /\ UNCHANGED <<flash, bounce, position>>

\* Mutant: the flash is written, the published memory is not.
FvbWriteNoMirror(lba, offset, len, data) ==
  LET at == LocalOffset(lba, offset) IN
  /\ fvb.pc = "ready"
  /\ Enter(Fvb, "write", VarBase + at, len, data)
  /\ fvb' = [Doing("write") EXCEPT !.at = at, !.len = len, !.data = data]
  /\ UNCHANGED <<flash, bounce, position, mirror, suspect>>

FvbWrite(lba, offset, len, data) ==
  LET at == LocalOffset(lba, offset) IN
  /\ fvb.pc = "ready"
  /\ mirror' = Overlay(mirror, at, data)
  /\ Enter(Fvb, "write", VarBase + at, len, data)
  /\ fvb' = [Doing("write") EXCEPT !.at = at, !.len = len, !.data = data]
  /\ UNCHANGED <<flash, bounce, position, suspect>>

FvbWriteDone ==
  /\ fvb.pc = "write"
  /\ Returned(Fvb)
  /\ Blame(fvb.at, fvb.len, {})
  /\ Leave(Fvb)
  /\ fvb' = Doing("ready")
  /\ UNCHANGED <<flash, bounce, position, mirror>>

\* Mutant: one block more than asked for.
EraseTupleAndNext(list) ==
  LET at   == list[1][1] * SectorSize
      size == (list[1][2] + 1) * SectorSize
  IN
  /\ mirror' = [i \in Offset |-> IF i \in Offsets(at, size) THEN Erased
                                                            ELSE mirror[i]]
  /\ call' = [call EXCEPT ![Fvb] = NewCall("erase", VarBase + at, size, NoBuf)]
  /\ fvb' = [Doing("erase") EXCEPT !.at = at, !.len = size, !.todo = Tail(list)]
  /\ UNCHANGED <<flash, bounce, position>>

\* One <<Lba, Cnt>> of the list: fill the mirror, erase the flash.  The
\* mirror is what the driver's pages hold; memory past them is not modelled.
EraseTuple(list) ==
  LET at   == list[1][1] * SectorSize
      size == list[1][2] * SectorSize
  IN
  /\ mirror' = [i \in Offset |-> IF i \in Offsets(at, size) THEN Erased
                                                          ELSE mirror[i]]
  /\ call' = [call EXCEPT ![Fvb] = NewCall("erase", VarBase + at, size, NoBuf)]
  /\ fvb' = [Doing("erase") EXCEPT !.at = at, !.len = size, !.todo = Tail(list)]
  /\ UNCHANGED <<flash, bounce, position>>

FvbErase(list) ==
  /\ fvb.pc = "ready"
  /\ Idle(Fvb)
  /\ list # <<>>
  /\ EraseTuple(list)
  /\ UNCHANGED suspect

FvbEraseNext ==
  /\ fvb.pc = "erase"
  /\ Returned(Fvb)
  /\ Blame(fvb.at, fvb.len, Offsets(fvb.at, fvb.len))
  /\ \/ /\ fvb.todo # <<>>
        /\ EraseTuple(fvb.todo)
     \/ /\ fvb.todo = <<>>
        /\ Leave(Fvb)
        /\ fvb' = Doing("ready")
        /\ UNCHANGED <<flash, bounce, position, mirror>>

\* What callers ask for.  Lengths stay inside the store, and a write only
\* clears bits that a caller sees set: the sticky write rule callers obey.
FvbRequest ==
  \/ \E lba \in Lba, offset \in 0 .. SectorSize - 1, len \in 0 .. MaxLen :
       /\ LocalOffset(lba, offset) + len <= VarSize
       /\ FvbRead(lba, offset, len)
  \/ \E lba \in Lba, offset \in 0 .. SectorSize - 1, len \in 1 .. MaxLen :
       /\ LocalOffset(lba, offset) + len <= VarSize
       /\ \E data \in [0 .. len - 1 -> Data] :
            /\ \A i \in 0 .. len - 1 :
                 data[i] \subseteq mirror[LocalOffset(lba, offset) + i]
            /\ FvbWrite(lba, offset, len, data)
  \/ \E list \in EraseLists : FvbErase(list)

\* The driver's own code, which runs whenever it may.
FvbRun ==
  \/ FvbEntryFails \/ FvbEntry \/ FvbHeadersFound \/ FvbFormat \/ FvbFormatErased
  \/ FvbFormatWritten \/ FvbReadDone \/ FvbWriteDone \/ FvbEraseNext
  \/ LibStep(Fvb) /\ UNCHANGED fvbVars

\* RAM survives a warm reset and is lost in a cold one.
FvbReset ==
  /\ fvb' = Doing("off")
  /\ suspect' = {}
  /\ mirror' \in {mirror, [i \in Offset |-> {}]}

\* The board comes with an unformatted store, a formatted one, or junk.
FvbInit ==
  /\ mirror = [i \in Offset |-> {}]
  /\ fvb = Doing("off")
  /\ suspect = {}

FvbPowerLoss == LibPowerLoss /\ FvbReset

FvbNext == FvbRun \/ FvbRequest \/ FvbPowerLoss

\* The driver alone on the flash, whatever the flash holds at first.
FvbSpec ==
  /\ \E f \in [Addr -> Cell] : LibInit(f)
  /\ FvbInit
  /\ [][FvbNext]_<<libVars, fvbVars>>

----------------------------------------------------------------------------
FvbTypeOK ==
  /\ LibTypeOK
  /\ mirror \in [Offset -> Cell]
  /\ fvb.pc \in {"off", "absent", "ready", "read", "write", "erase"} \cup Booting
  /\ fvb.at \in Nat /\ fvb.len \in Nat
  /\ suspect \subseteq Offset

\* Between two requests the published memory and the flash agree, except
\* where TF-A failed a transfer and the driver went on regardless: only a
\* successful Read or EraseBlocks of those cells repairs them
\* (SmcFlashFvbRead, SmcFlashFvbWrite, SmcFlashFvbErase, BaikalFvHeader).
MirrorMatchesFlash ==
  fvb.pc = "ready" => \A i \in Offset \ suspect : mirror[i] = Store[i]

\* While BaikalFvHeader writes the default headers, nothing of the old store
\* is left under them: if the power fails now, the next boot accepts the
\* headers and must not find stale variables behind them.
FreshHeaderFreshStore ==
  fvb.pc = "bootwrite" => \A i \in Offset \ (suspect \cup {0}) : Store[i] = Erased

\* The driver's two copies of the store, in memory and in the flash, are well
\* formed and agree wherever the code lets a later reader rely on it, between
\* requests and in the middle of a format (SmcFlashFvbRead, SmcFlashFvbWrite,
\* SmcFlashFvbErase, BaikalFvHeader).
CopiesAgree == FvbTypeOK /\ MirrorMatchesFlash /\ FreshHeaderFreshStore

\* BaikalFvHeader never formats a store whose headers are valid in the flash,
\* unless TF-A failed the read: its error is ignored like every other.
WipesOnlyInvalidStore ==
  [][fvb.pc = "bootread" /\ fvb'.pc = "booterase" /\ call[Fvb].err = 0
       => ~ValidHeader(Store)]_<<libVars, fvbVars>>

\* Nothing outside the volume is changed on behalf of its callers: the cells
\* after it hold the firmware image (SmcFlashFvbErase, SmcFlashFvbWrite).
VolumeConfined ==
  [][\A a \in Addr \ VarArea : flash'[a] = flash[a]]_flash

\* When Write returns EFI_SUCCESS the flash holds the data, unless TF-A failed
\* this transfer or an earlier one of the same cells (SmcFlashFvbWrite).
WriteSuccessIsStored ==
  [][fvb.pc = "write" /\ fvb'.pc = "ready" /\ call[Fvb].err = 0
       => \A i \in DOMAIN fvb.data :
            fvb.at + i \notin suspect => Store[fvb.at + i] = fvb.data[i]]_<<libVars, fvbVars>>

\* Whatever power losses interrupted the formatting, a boot ends, and with a
\* store the variable driver accepts, unless the driver could not install.
BootEndsWithStore ==
  fvb.pc = "off" ~> \/ fvb.pc = "absent"
                    \/ fvb.pc = "ready" /\ ValidHeader(Store)
=============================================================================
