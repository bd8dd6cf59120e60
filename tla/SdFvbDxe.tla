------------------------------ MODULE SdFvbDxe ------------------------------
(***************************************************************************)
(* The variable store on an SD card (Platform/Baikal/Drivers/SdFvbDxe),    *)
(* with the block driver of the same card (Platform/Baikal/Drivers/        *)
(* SdBlockDxe) beside it.                                                  *)
(*                                                                         *)
(* The firmware volume driver reads and writes bytes through SdRead and    *)
(* SdWrite, block by block through one static buffer, and ignores their    *)
(* status: each of its calls returns EFI_SUCCESS.  It is called by the     *)
(* variable driver at TPL_NOTIFY and runs to its end; it may interrupt a   *)
(* block request at any point.  A command of the block driver is therefore *)
(* taken apart: the wait for the lines, each of its writes to registers,   *)
(* the data and the end are steps.                                         *)
(***************************************************************************)
EXTENDS SdLib

CONSTANTS
  Fvb, Blk,    \* the two drivers
  VarBlock,    \* SD_VAR_ADR, in blocks
  VarSize,     \* mNvStorageSize, in cells
  Header,      \* the cell that holds valid headers
  Erased,      \* the cell SetMem64 leaves
  Data,        \* bound: cells that callers write
  Ranges,      \* bound: the <<offset, size>> of Read and Write
  EraseLists,  \* bound: the lists of <<Lba, Cnt>> given to EraseBlocks
  BlkRequests  \* bound: the <<operation, Lba, blocks>> of block requests

ASSUME SdFvbAssumption ==
  /\ Driver = {Fvb, Blk} /\ Fvb # Blk
  /\ VarBlock \in Nat /\ VarBlock * BlockSize + VarSize <= Blocks * BlockSize
  /\ VarSize \in Nat \ {0} /\ VarSize % BlockSize = 0
  /\ {Header, Erased} \cup Data \subseteq Val /\ Header # Erased

\* Neither driver checks where its callers read and write: requests to the volume lie within
\* it, and the partitions on the card leave it alone.
ASSUME CallerAssumption ==
  /\ \A r \in Ranges : r[1] \in Nat /\ r[2] \in Nat /\ r[1] + r[2] <= VarSize
  /\ \A l \in EraseLists : l \in Seq({t \in Nat \X Nat : (t[1] + t[2]) * BlockSize <= VarSize})
  /\ \A r \in BlkRequests : /\ r[1] \in {"read", "write"} /\ r[2] \in Nat /\ r[3] \in Nat \ {0}
                              /\ \/ r[2] + r[3] <= VarBlock
                                 \/ VarBlock * BlockSize + VarSize <= r[2] * BlockSize

VARIABLES
  fvb,      \* [pc, at, left, todo]
  mirror,   \* [Offset -> Val], the RAM at mNvStorageBase
  buffer,   \* the static buffer of SdLib: the block read last
  suspect,  \* history: offsets that a failed transfer did not bring to the card, or that
            \* block data has hit
  blk,      \* [pc, op, lba, left, val]
  regs      \* BLK_CNT, TRANSFER_MODE and ARGUMENT, while a block command needs them

fvbVars == <<fvb, mirror, buffer, suspect>>
blkVars == <<blk, regs>>
vars    == <<sdVars, fvbVars, blkVars>>

Offset  == 0 .. VarSize - 1
VarBase == VarBlock * BlockSize
ValidHeader(m) == m[0] = Header
DefaultStore   == [o \in Offset |-> IF o = 0 THEN Header ELSE Erased]

Quiet(pc) == [pc |-> pc, at |-> 0, left |-> 0, todo |-> <<>>]
Transfer(pc, at, n) == [pc |-> pc, at |-> at, left |-> n, todo |-> <<>>]

----------------------------------------------------------------------------
(* SdRead and SdWrite, one command a step.  part cells from fvb.at lie in  *)
(* the block at hand.                                                      *)

MinOf(a, b) == IF a < b THEN a ELSE b
AtBlock == BlockOf(VarBase + fvb.at)
\* Mutant: always up to the end of the block.
PartToBlockEnd == BlockSize - (fvb.at % BlockSize)
Part    == MinOf(fvb.left, BlockSize - (fvb.at % BlockSize))
PartOffsets == Offset \cap (fvb.at .. fvb.at + Part - 1)
RestOffsets == Offset \cap (fvb.at .. fvb.at + fvb.left - 1)
BlockNow == [i \in 0 .. BlockSize - 1 |-> media[AtBlock * BlockSize + i]]
Advance == [fvb EXCEPT !.at = @ + Part, !.left = @ - Part]

\* The registers after a command for one block.  Their values are followed only while the
\* block driver is between its first register and the end of its command.
Command(op, b) == IF blk.pc \in {"mode", "arg", "command", "end"}
                  THEN [count |-> 1, mode |-> <<op, FALSE>>, arg |-> b] ELSE regs
\* A command that cannot have the lines writes none.
Registers(op) == IF host.stuck \/ host.busy THEN {regs} ELSE {regs, Command(op, AtBlock)}

\* Mutant: the copy starts at the beginning of the buffer.
ReadStepNoOffset ==
  /\ fvb.left > 0
  /\ DataWorks
  /\ buffer' = BlockNow
  /\ mirror' = [o \in Offset |-> IF o \in PartOffsets THEN BlockNow[o - fvb.at] ELSE mirror[o]]
  /\ suspect' = suspect \ PartOffsets
  /\ fvb' = Advance
  /\ regs' = Command("read", AtBlock)
  /\ UNCHANGED <<hwVars, total, ident, outcome, faults>>

\* A block into the buffer, and from there its part into the mirror.
ReadStep ==
  /\ fvb.left > 0
  /\ DataWorks
  /\ buffer' = BlockNow
  /\ mirror' = [o \in Offset |-> IF o \in PartOffsets THEN media[VarBase + o] ELSE mirror[o]]
  /\ suspect' = suspect \ PartOffsets
  /\ fvb' = Advance
  /\ regs' = Command("read", AtBlock)
  /\ UNCHANGED <<hwVars, total, ident, outcome, faults>>

\* Mutant: the block is not read first.
WriteFetchNoRead ==
  /\ fvb.left > 0
  /\ DataWorks
  /\ buffer' = [i \in 0 .. BlockSize - 1 |->
                  LET o == (AtBlock * BlockSize + i) - VarBase
                  IN  IF o \in PartOffsets THEN mirror[o] ELSE buffer[i]]
  /\ regs' = Command("read", AtBlock)
  /\ UNCHANGED <<sdVars, mirror, suspect>>

\* SdWrite reads the block and puts its part of the mirror over it.
WriteFetch ==
  /\ fvb.left > 0
  /\ DataWorks
  /\ buffer' = [i \in 0 .. BlockSize - 1 |->
                  LET o == (AtBlock * BlockSize + i) - VarBase
                  IN  IF o \in PartOffsets THEN mirror[o] ELSE BlockNow[i]]
  /\ regs' = Command("read", AtBlock)
  /\ UNCHANGED <<sdVars, mirror, suspect>>

WriteStore ==
  /\ DataWorks
  /\ media' = [a \in Cell |-> IF BlockOf(a) = AtBlock THEN buffer[a % BlockSize] ELSE media[a]]
  /\ suspect' = suspect \ PartOffsets
  /\ regs' = Command("write", AtBlock)
  /\ UNCHANGED <<card, host, total, ident, outcome, faults, mirror, buffer>>

\* A read that fails leaves the mirror as it is from here on.
ReadFails ==
  /\ DataFails
  /\ regs' \in Registers("read")
  /\ UNCHANGED <<card, media, total, ident, outcome, mirror, buffer, suspect>>

\* A write that fails leaves the rest unwritten; the block at hand is old or new.
WriteFails ==
  /\ DataFails
  /\ media' \in {media, [a \in Cell |-> IF BlockOf(a) = AtBlock /\ DataWorks
                                          THEN buffer[a % BlockSize] ELSE media[a]]}
  /\ suspect' = suspect \cup RestOffsets
  /\ regs' \in Registers("write")
  /\ UNCHANGED <<card, total, ident, outcome, mirror, buffer>>

\* The block could not be read: nothing from here on is written.
FetchFails ==
  /\ DataFails
  /\ suspect' = suspect \cup RestOffsets
  /\ regs' \in Registers("read")
  /\ UNCHANGED <<card, media, total, ident, outcome, mirror, buffer>>

----------------------------------------------------------------------------
(* The entry point: SdFvbInitialize and SdFvbBaikalFvHeader.               *)

FvbEntry ==
  /\ fvb.pc = "off"
  /\ IdentStart(Fvb)
  /\ fvb' = Quiet("ident")
  /\ UNCHANGED <<mirror, buffer, suspect, blkVars>>

FvbNoCard ==
  /\ fvb.pc = "ident" /\ IdentSeen(Fvb, "failed")
  /\ ident' = NoIdent
  /\ fvb' = Quiet("absent")
  /\ UNCHANGED <<hwVars, total, outcome, faults, mirror, buffer, suspect, blkVars>>

\* The pages may be taken already, by the volume in the flash.
FvbAllocate ==
  /\ fvb.pc = "ident" /\ IdentSeen(Fvb, "done")
  /\ ident' = NoIdent
  /\ fvb' \in {Quiet("absent"), Transfer("bootread", 0, VarSize)}
  /\ UNCHANGED <<hwVars, total, outcome, faults, mirror, buffer, suspect, blkVars>>

FvbBootRead ==
  /\ fvb.pc = "bootread" /\ fvb.left > 0
  /\ \/ ReadStep
     \/ ReadFails /\ fvb' = [fvb EXCEPT !.left = 0]
  /\ UNCHANGED blk

FvbHeadersFound ==
  /\ fvb.pc = "bootread" /\ fvb.left = 0
  /\ ValidHeader(mirror)
  /\ fvb' \in {Quiet("ready"), Quiet("absent")}
  /\ UNCHANGED <<sdVars, mirror, buffer, suspect, blkVars>>

\* Default headers in the mirror, then the mirror to the card.
FvbFormat ==
  /\ fvb.pc = "bootread" /\ fvb.left = 0
  /\ ~ValidHeader(mirror)
  /\ mirror' = DefaultStore
  /\ suspect' = Offset
  /\ fvb' = [Transfer("fetch", 0, VarSize) EXCEPT !.todo = <<"install">>]
  /\ UNCHANGED <<sdVars, buffer, blkVars>>

----------------------------------------------------------------------------
(* The protocol.  Lba, offset and size are added up and not checked.       *)

FvbRead ==
  \E r \in Ranges :
    /\ fvb.pc = "ready"
    /\ fvb' = Transfer("read", r[1], r[2])
    /\ UNCHANGED <<sdVars, mirror, buffer, suspect, blkVars>>

FvbReading ==
  /\ fvb.pc = "read" /\ fvb.left > 0
  /\ \/ ReadStep
     \/ ReadFails /\ fvb' = Quiet("ready")
  /\ UNCHANGED blk

FvbReadDone ==
  /\ fvb.pc = "read" /\ fvb.left = 0
  /\ fvb' = Quiet("ready")
  /\ UNCHANGED <<sdVars, mirror, buffer, suspect, blkVars>>

FvbWrite ==
  \E r \in Ranges, d \in Data :
    /\ fvb.pc = "ready"
    /\ mirror' = [o \in Offset |-> IF o \in r[1] .. r[1] + r[2] - 1 THEN d ELSE mirror[o]]
    /\ suspect' = suspect \cup (Offset \cap (r[1] .. r[1] + r[2] - 1))
    /\ fvb' = Transfer("fetch", r[1], r[2])
    /\ UNCHANGED <<sdVars, buffer, blkVars>>

\* The list of EraseBlocks: each tuple is a SetMem64 and a write of its own.
FvbErase ==
  \E l \in EraseLists :
    /\ fvb.pc = "ready"
    /\ fvb' = [Quiet("next") EXCEPT !.todo = l]
    /\ UNCHANGED <<sdVars, mirror, buffer, suspect, blkVars>>

EraseTuple ==
  /\ fvb.pc = "next" /\ fvb.todo # <<>>
  /\ LET t == Head(fvb.todo)
         range == t[1] * BlockSize .. (t[1] + t[2]) * BlockSize - 1
     IN  /\ mirror' = [o \in Offset |-> IF o \in range THEN Erased ELSE mirror[o]]
         /\ suspect' = suspect \cup (Offset \cap range)
         /\ fvb' = [pc |-> "fetch", at |-> t[1] * BlockSize, left |-> t[2] * BlockSize,
                    todo |-> Tail(fvb.todo)]
  /\ UNCHANGED <<sdVars, buffer, blkVars>>

EraseEnds ==
  /\ fvb.pc = "next" /\ fvb.todo = <<>>
  /\ fvb' = Quiet("ready")
  /\ UNCHANGED <<sdVars, mirror, buffer, suspect, blkVars>>

\* What follows a write, whether it went well or not.
AfterWrite(f) ==
  IF f.todo = <<"install">> THEN {Quiet("ready"), Quiet("absent")}
  ELSE {[Quiet("next") EXCEPT !.todo = f.todo]}

FvbFetch ==
  /\ fvb.pc = "fetch" /\ fvb.left > 0
  /\ \/ WriteFetch /\ fvb' = [fvb EXCEPT !.pc = "store"]
     \/ FetchFails /\ fvb' \in AfterWrite(fvb)
  /\ UNCHANGED blk

FvbStore ==
  /\ fvb.pc = "store"
  /\ \/ WriteStore /\ fvb' = [Advance EXCEPT !.pc = "fetch"]
     \/ WriteFails /\ fvb' \in AfterWrite(fvb)
  /\ UNCHANGED blk

FvbWritten ==
  /\ fvb.pc = "fetch" /\ fvb.left = 0
  /\ fvb' \in AfterWrite(fvb)
  /\ UNCHANGED <<sdVars, mirror, buffer, suspect, blkVars>>

FvbRun == FvbNoCard \/ FvbAllocate \/ FvbBootRead \/ FvbHeadersFound \/ FvbFormat \/ FvbReading
            \/ FvbReadDone \/ EraseTuple \/ EraseEnds \/ FvbFetch \/ FvbStore \/ FvbWritten

FvbIdle == fvb.pc \in {"off", "ready", "absent"}

----------------------------------------------------------------------------
(* The block driver: SdBlockEntryPoint, SdReadBlocks and SdWriteBlocks.    *)

NoCommand == [count |-> 0, mode |-> <<"none", FALSE>>, arg |-> 0]
NoBlk(pc) == [pc |-> pc, op |-> "none", lba |-> 0, left |-> 0, val |-> Erased]

BlkEntry ==
  /\ blk.pc = "off" /\ FvbIdle
  /\ IdentStart(Blk)
  /\ blk' = NoBlk("ident")
  /\ UNCHANGED <<fvbVars, regs>>

\* No card, or a card without a size.
BlkNoCard ==
  /\ blk.pc = "ident"
  /\ IdentSeen(Blk, "failed") \/ (IdentSeen(Blk, "done") /\ ~total[Blk])
  /\ ident' = NoIdent
  /\ blk' = NoBlk("absent")
  /\ UNCHANGED <<hwVars, total, outcome, faults, fvbVars, regs>>

BlkInstall ==
  /\ blk.pc = "ident" /\ IdentSeen(Blk, "done") /\ total[Blk]
  /\ ident' = NoIdent
  /\ blk' \in {NoBlk("ready"), NoBlk("absent")}
  /\ UNCHANGED <<hwVars, total, outcome, faults, fvbVars, regs>>

BlkRequest ==
  \E r \in BlkRequests, v \in Data :
    /\ blk.pc = "ready" /\ ident = NoIdent /\ fvb.pc # "ident"
    /\ blk' = [pc |-> "issue", op |-> r[1], lba |-> r[2], left |-> r[3], val |-> v]
    /\ UNCHANGED <<sdVars, fvbVars, regs>>

BlkPart == MinOf(blk.left, PartBlocks)

BlkReady == blk' = NoBlk("ready") /\ regs' = NoCommand

\* SdCmdExec waits until the lines are free, and then writes one register after the other.
BlkIssue ==
  /\ blk.pc = "issue"
  /\ \/ ~host.stuck /\ blk' = [blk EXCEPT !.pc = "count"] /\ UNCHANGED <<host, faults>>
     \/ DataFails /\ blk' = NoBlk("ready")
  /\ UNCHANGED <<card, media, total, ident, outcome, fvbVars, regs>>

BlkRegisters == [count |-> BlkPart, mode |-> <<blk.op, BlkPart > 1>>, arg |-> blk.lba]
Following == [count |-> "mode", mode |-> "arg", arg |-> "command"]

BlkRegister ==
  \E r \in DOMAIN Following :
    /\ blk.pc = r
    /\ regs' = [regs EXCEPT ![r] = BlkRegisters[r]]
    /\ blk' = [blk EXCEPT !.pc = Following[r]]
    /\ UNCHANGED <<sdVars, fvbVars>>

\* The command is out, with whatever the registers hold, its data still to come.
BlkCommand ==
  /\ blk.pc = "command"
  /\ \/ /\ DataWorks
        /\ host' = [host EXCEPT !.busy = TRUE, !.cut = FALSE]
        /\ blk' = [blk EXCEPT !.pc = "data"]
        /\ UNCHANGED <<faults, regs>>
     \/ DataFails /\ BlkReady
  /\ UNCHANGED <<card, media, total, ident, outcome, fvbVars>>

\* The first n blocks of a write arrive, at the block that ARGUMENT named: a request to the
\* volume may have replaced it.
Hit(n) == IF blk.op = "write" THEN CellsOf(regs.arg, n) ELSE {}
Redirected == regs.arg # blk.lba
Arrive(n) ==
  /\ media' = [a \in Cell |-> IF a \in Hit(n) THEN blk.val ELSE media[a]]
  /\ suspect' = IF Redirected THEN suspect \cup {o \in Offset : VarBase + o \in Hit(n)} ELSE suspect

\* Count and direction are those of this command, whoever wrote them last.
AsIssued == regs.count = BlkPart /\ regs.mode = BlkRegisters.mode

BlkData ==
  /\ blk.pc = "data" /\ AsIssued
  /\ host' = [host EXCEPT !.busy = FALSE]
  /\ Arrive(BlkPart)
  /\ blk' = [blk EXCEPT !.pc = "end"]
  /\ UNCHANGED <<card, total, ident, outcome, faults, fvb, mirror, buffer, regs>>

\* What can arrive before a transfer fails: the controller moves one block, if any, with the
\* registers of a command for one block.
Arriving ==
  IF AsIssued THEN 0 .. BlkPart ELSE IF regs.mode[1] = "write" THEN {0, 1} ELSE {0}

\* A fault, status bits that another command has cleared, or its count or direction.
BlkDataFails ==
  /\ blk.pc = "data"
  /\ IF host.cut \/ ~AsIssued THEN UNCHANGED faults ELSE Fault
  /\ \E s \in BOOLEAN : host' = [host EXCEPT !.busy = FALSE, !.cut = FALSE, !.stuck = s]
  /\ \E n \in Arriving : Arrive(n)
  /\ BlkReady
  /\ UNCHANGED <<card, total, ident, outcome, fvb, mirror, buffer>>

\* DATA_END is read, and the next part follows; a command that came before it has cleared it.
BlkEnd ==
  /\ blk.pc = "end"
  /\ \/ blk.left = BlkPart /\ BlkReady
     \/ /\ blk.left # BlkPart
        /\ blk' = [blk EXCEPT !.pc = "issue", !.lba = @ + BlkPart, !.left = @ - BlkPart]
        /\ regs' = NoCommand
  /\ UNCHANGED <<sdVars, fvbVars>>

BlkEndFails ==
  /\ blk.pc = "end"
  /\ IF host.cut \/ Redirected THEN UNCHANGED faults ELSE Fault
  /\ BlkReady
  /\ UNCHANGED <<hwVars, total, ident, outcome, fvbVars>>

\* The firmware volume driver runs to its end before anything else.
BlkTransfer == BlkIssue \/ BlkRegister \/ BlkCommand \/ BlkData \/ BlkDataFails \/ BlkEnd \/ BlkEndFails
BlkRun == FvbIdle /\ (BlkNoCard \/ BlkInstall \/ BlkTransfer)

----------------------------------------------------------------------------
FvbInit ==
  /\ fvb = Quiet("off")
  /\ mirror \in {[o \in Offset |-> Erased]}
  /\ buffer = [i \in 0 .. BlockSize - 1 |-> Erased]
  /\ suspect = Offset
  /\ blk = NoBlk("off")
  /\ regs = NoCommand

\* Entry points run one after the other, and no request is made meanwhile.
Dispatch == FvbIdle /\ blk.pc \in {"off", "ready", "absent"} /\ (FvbEntry \/ BlkEntry)

Request == FvbIdle /\ ident = NoIdent /\ (FvbRead \/ FvbWrite \/ FvbErase \/ BlkRequest)

\* The RAM may keep its contents (a reset) or not; the driver starts again.
PowerLoss ==
  /\ SdPowerLoss
  /\ fvb' = Quiet("off")
  /\ mirror' \in {mirror, [o \in Offset |-> Erased]}
  /\ buffer' = [i \in 0 .. BlockSize - 1 |-> Erased]
  /\ suspect' = Offset
  /\ blk' = NoBlk("off")
  /\ regs' = NoCommand
  /\ UNCHANGED <<media, faults>>

Run == (Identify /\ UNCHANGED <<fvbVars, blkVars>>) \/ FvbRun \/ BlkRun

SdFvbInit == (\E c \in Card : SdInit(c)) /\ FvbInit
SdFvbNext == Run \/ Dispatch \/ Request \/ PowerLoss
SdFvbSpec == SdFvbInit /\ [][SdFvbNext]_vars

----------------------------------------------------------------------------
SdTypeOK ==
  /\ card.kind \in {"sd", "mmc", "none"} /\ card.width \in {1, 4, 8}
  /\ host.width \in {1, 4, 8} /\ host.clk \in {"off", "init", "default"}
  /\ media \in [Cell -> Val] /\ mirror \in [Offset -> Val]
  /\ total \in [Driver -> BOOLEAN] /\ suspect \subseteq Offset
  /\ fvb.at + fvb.left \in 0 .. VarSize

\* What callers see in memory is what the card holds, at every offset but those that a
\* failed transfer left behind, or that a block request has hit whose ARGUMENT a request to
\* the volume had replaced (SdFvbRead refreshes the mirror, SdFvbWrite and SdFvbErase write
\* through it).
MirrorMatchesCard ==
  fvb.pc = "ready" => \A o \in Offset \ suspect : mirror[o] = media[VarBase + o]
CardMirrored == SdTypeOK /\ MirrorMatchesCard

\* A byte write changes no byte outside its range, although it rewrites whole blocks, and
\* whatever block requests it interrupts.  A block request changes none outside its own,
\* unless a request to the volume came between its ARGUMENT and its COMMAND: then it may
\* change the one block of the volume that this request transferred last, and nothing else.
Requested == {VarBase + o : o \in RestOffsets}
Volume    == {VarBase + o : o \in Offset}
WriteConfined ==
  media' # media =>
    \A a \in Cell : media'[a] # media[a] =>
      IF ~FvbIdle THEN a \in Requested
      ELSE IF Redirected THEN a \in CellsOf(regs.arg, 1) \cap Volume
      ELSE a \in CellsOf(blk.lba, blk.left)
WritesConfined == [][WriteConfined]_vars
=============================================================================
