------------------------- MODULE SmcFlashBlockIoDxe -------------------------
(***************************************************************************)
(* The block device on the upper part of the SPI flash                     *)
(* (Platform/Baikal/Drivers/SmcFlashBlockIoDxe).                           *)
(*                                                                         *)
(* Blocks are smaller than erase sectors, so WriteBlocks reads the whole   *)
(* sectors around the blocks, copies the data in, erases the sectors and   *)
(* writes them back.  Results of SmcFlashLib are ignored.                  *)
(***************************************************************************)
EXTENDS SmcFlashLib

CONSTANTS
  Blk,         \* this driver, as a client of SmcFlashLib
  SectorCount, \* sectors of the flash (SmcFlashInfo)
  BlockSize,   \* cells of a block (FAT_BLOCK_SIZE)
  MapBlock,    \* FLASH_MAP_BLOCK
  Uint32,      \* 2^32, the modulus of the driver's UINT32 sizes
  MaxBuffer,   \* bound: the largest BufferSize, in cells
  BlkData,     \* bound: the cells a caller writes
  Junk         \* what a buffer may hold before it is filled

ASSUME BlkAssumption ==
  /\ Blk \in Client
  /\ SectorCount \in Nat \ {0}
  /\ FlashSize = SectorSize * SectorCount
  /\ BlockSize \in Nat \ {0} /\ SectorSize % BlockSize = 0
  /\ MapBlock \in Nat /\ MapBlock % SectorSize = 0 /\ MapBlock < FlashSize
  /\ Uint32 \in Nat /\ FlashSize < Uint32
  /\ MaxBuffer \in Nat
  /\ BlkData \subseteq Cell /\ Junk \subseteq Cell

VARIABLES
  blk,         \* the request being served; err: history, how a call of it failed
  blkStatus,   \* the status of the last request
  blkData      \* the buffer of the last ReadBlocks

blkVars == <<blk, blkStatus, blkData>>

BlkQuiet(pc) == [pc |-> pc, lba |-> 0, size |-> 0, data |-> NoBuf, adr |-> 0, buf |-> NoBuf,
                 err |-> 0]

Rewriting == {"rmwread", "rmwerase", "rmwwrite"}

\* The error of the calls the request has made, 0 if there was none.
BlkError == IF call[Blk].err # 0 THEN call[Blk].err ELSE blk.err

\* SmcFlashInstallBlock: the size of the device and its last block
DeviceSize == (SectorSize * SectorCount - MapBlock) % Uint32
\* Mutant: the number of blocks in place of the last one.
LastBlockCount == (DeviceSize + BlockSize - 1) \div BlockSize
LastBlock  == (DeviceSize + BlockSize - 1) \div BlockSize - 1

Block == 0 .. LastBlock
\* Mutant: the block area is taken to start at 0.
FlashOffsetUnmapped(lba) == lba * BlockSize
FlashOffset(lba) == lba * BlockSize + MapBlock

\* The whole sectors around size cells from block lba on.
RmwAddr(lba) == (FlashOffset(lba) \div SectorSize) * SectorSize
RmwOffset(lba) == FlashOffset(lba) - RmwAddr(lba)
RmwSize(lba, size) ==
  ((RmwOffset(lba) + size + SectorSize - 1) \div SectorSize) * SectorSize

(***************************************************************************)
(* The parameter checks, in the order of the code.                         *)
(***************************************************************************)
Refusal(null, media, lba, size) ==
  CASE null                                     -> "INVALID_PARAMETER"
    [] ~null /\ size = 0                        -> "BAD_BUFFER_SIZE"
    [] ~null /\ size # 0 /\ ~media              -> "MEDIA_CHANGED"
    [] ~null /\ size # 0 /\ media /\ size % BlockSize # 0 -> "BAD_BUFFER_SIZE"
    [] OTHER -> IF lba > LastBlock \/ lba + size \div BlockSize - 1 > LastBlock
                  THEN "INVALID_PARAMETER" ELSE "SUCCESS"

BlkRefuse(null, media, lba, size) ==
  /\ blk.pc = "ready"
  /\ Refusal(null, media, lba, size) # "SUCCESS"
  /\ blkStatus' = Refusal(null, media, lba, size)
  /\ UNCHANGED <<libVars, blk, blkData>>

----------------------------------------------------------------------------
BlkEntry ==
  /\ blk.pc = "off"
  /\ \E ok \in BOOLEAN :   \* InstallMultipleProtocolInterfaces may fail
       blk' = BlkQuiet(IF ok /\ DeviceSize >= BlockSize /\ LastBlock >= 1
                         THEN "ready" ELSE "absent")
  /\ UNCHANGED <<libVars, blkStatus, blkData>>

\* SmcFlashBlockIoReadBlocks; the caller's buffer holds junk before it
BlkRead(lba, size, junk) ==
  /\ blk.pc = "ready"
  /\ Refusal(FALSE, TRUE, lba, size) = "SUCCESS"
  /\ Enter(Blk, "read", FlashOffset(lba), size, [i \in 0 .. size - 1 |-> junk])
  /\ blk' = [BlkQuiet("read") EXCEPT !.lba = lba]
  /\ UNCHANGED <<flash, bounce, position, blkStatus, blkData>>

BlkReadDone ==
  /\ blk.pc = "read"
  /\ Returned(Blk)
  /\ blkStatus' = "SUCCESS"
  /\ blkData' = call[Blk].buf
  /\ Leave(Blk)
  /\ blk' = BlkQuiet("ready")
  /\ UNCHANGED <<flash, bounce, position>>

\* SmcFlashBlockIoWriteBlocks; the pool buffer holds junk before it
BlkWrite(lba, size, data, junk) ==
  LET total == RmwSize(lba, size) IN
  /\ blk.pc = "ready"
  /\ Refusal(FALSE, TRUE, lba, size) = "SUCCESS"
  /\ Enter(Blk, "read", RmwAddr(lba), total, [i \in 0 .. total - 1 |-> junk])
  /\ blk' = [BlkQuiet("rmwread") EXCEPT !.lba = lba, !.size = size,
                                        !.data = data, !.adr = RmwAddr(lba)]
  /\ UNCHANGED <<flash, bounce, position, blkStatus, blkData>>

BlkNoMemory(lba, size) ==
  /\ blk.pc = "ready"
  /\ Refusal(FALSE, TRUE, lba, size) = "SUCCESS"
  /\ blkStatus' = "OUT_OF_RESOURCES"
  /\ UNCHANGED <<libVars, blk, blkData>>

\* Mutant: the data is merged at the start of the sectors.
BlkSectorsReadAtStart ==
  LET merged == Overlay(call[Blk].buf, 0, blk.data) IN
  /\ blk.pc = "rmwread"
  /\ Chain(Blk, "erase", blk.adr, call[Blk].size, NoBuf)
  /\ blk' = [blk EXCEPT !.pc = "rmwerase", !.buf = merged, !.err = BlkError]
  /\ UNCHANGED <<flash, bounce, position, blkStatus, blkData>>

\* Mutant: the data alone is written back in place of the merged sectors.
BlkSectorsReadUnmerged ==
  /\ blk.pc = "rmwread"
  /\ Chain(Blk, "erase", blk.adr, call[Blk].size, NoBuf)
  /\ blk' = [blk EXCEPT !.pc = "rmwerase", !.buf = blk.data, !.err = BlkError]
  /\ UNCHANGED <<flash, bounce, position, blkStatus, blkData>>

BlkSectorsRead ==
  LET merged == Overlay(call[Blk].buf, RmwOffset(blk.lba), blk.data) IN
  /\ blk.pc = "rmwread"
  /\ Chain(Blk, "erase", blk.adr, call[Blk].size, NoBuf)
  /\ blk' = [blk EXCEPT !.pc = "rmwerase", !.buf = merged, !.err = BlkError]
  /\ UNCHANGED <<flash, bounce, position, blkStatus, blkData>>

BlkSectorsErased ==
  /\ blk.pc = "rmwerase"
  /\ Chain(Blk, "write", blk.adr, call[Blk].size, blk.buf)
  /\ blk' = [blk EXCEPT !.pc = "rmwwrite", !.err = BlkError]
  /\ UNCHANGED <<flash, bounce, position, blkStatus, blkData>>

BlkSectorsWritten ==
  /\ blk.pc = "rmwwrite"
  /\ Returned(Blk)
  /\ blkStatus' = "SUCCESS"
  /\ Leave(Blk)
  /\ blk' = BlkQuiet("ready")
  /\ UNCHANGED <<flash, bounce, position, blkData>>

BlkRequest ==
  \/ \E null, media \in BOOLEAN, lba \in 0 .. LastBlock + 1, size \in 0 .. MaxBuffer :
       BlkRefuse(null, media, lba, size)
  \/ \E lba \in Block, size \in 1 .. MaxBuffer, junk \in Junk :
       BlkRead(lba, size, junk)
  \/ \E lba \in Block, size \in 1 .. MaxBuffer, junk \in Junk :
       \E data \in [0 .. size - 1 -> BlkData] : BlkWrite(lba, size, data, junk)
  \/ \E lba \in Block, size \in 1 .. MaxBuffer : BlkNoMemory(lba, size)

BlkRun ==
  \/ BlkEntry \/ BlkReadDone \/ BlkSectorsRead \/ BlkSectorsErased
  \/ BlkSectorsWritten
  \/ LibStep(Blk) /\ UNCHANGED blkVars

BlkReset ==
  /\ blk' = BlkQuiet("off")
  /\ blkStatus' = "none"
  /\ blkData' = NoBuf

BlkInit ==
  /\ blk = BlkQuiet("off")
  /\ blkStatus = "none"
  /\ blkData = NoBuf

BlkPowerLoss == LibPowerLoss /\ BlkReset

BlkNext == BlkRun \/ BlkRequest \/ BlkPowerLoss

\* The driver alone on the flash, whatever the flash holds at first.
BlkSpec ==
  /\ \E f \in [Addr -> Cell] : LibInit(f)
  /\ BlkInit
  /\ [][BlkNext]_<<libVars, blkVars>>

----------------------------------------------------------------------------
BlkTypeOK ==
  /\ LibTypeOK
  /\ blk.pc \in {"off", "absent", "ready", "read"} \cup Rewriting
  /\ blk.lba \in Nat /\ blk.size \in Nat /\ blk.adr \in Nat
  /\ blk.data \in Memory(blk.size) /\ blk.err \in Int
  /\ blk.pc \in {"rmwerase", "rmwwrite"} => blk.buf \in Memory(call[Blk].size)
  /\ blkStatus \in {"none", "SUCCESS", "INVALID_PARAMETER", "BAD_BUFFER_SIZE",
                    "MEDIA_CHANGED", "OUT_OF_RESOURCES"}

\* Erasing whole sectors never reaches below the block area, where the
\* variable store and the firmware image are, nor beyond the end of the flash
\* (SmcFlashBlockIoWriteBlocks).
RmwStaysInBlockArea ==
  blk.pc \in Rewriting =>
    /\ call[Blk].addr >= MapBlock
    /\ call[Blk].addr + call[Blk].size <= FlashSize

\* The cells below the block area are never changed by this driver.
BelowBlockAreaKept ==
  [][\A a \in Addr : a < MapBlock => flash'[a] = flash[a]]_flash

\* When ReadBlocks returns EFI_SUCCESS the buffer holds what the device does
\* (SmcFlashBlockIoReadBlocks).
BlkReadSuccessIsData ==
  [][blk.pc = "read" /\ blk'.pc = "ready" =>
       \A i \in DOMAIN blkData' :
         blkData'[i] = flash[FlashOffset(blk.lba) + i]]_<<flash, blk>>
----------------------------------------------------------------------------
(***************************************************************************)
(* Refinement of BlockDevice.  A write takes effect when the driver starts *)
(* to erase: from then on the sectors are, abstractly, what its buffer     *)
(* says, although the flash is still being erased and written.             *)
(***************************************************************************)
AbstractCell(a) ==
  IF /\ blk.pc \in {"rmwerase", "rmwwrite"}
     /\ a - blk.adr \in DOMAIN blk.buf
  THEN blk.buf[a - blk.adr] ELSE flash[a]

AbstractDisk ==
  [b \in Block |-> [i \in 0 .. BlockSize - 1 |-> AbstractCell(FlashOffset(b) + i)]]

BlocksOf(buf) == [k \in 0 .. (Cardinality(DOMAIN buf) \div BlockSize) - 1 |->
                    Slice(buf, k * BlockSize, BlockSize)]

AbstractRequest ==
  CASE blk.pc = "read" ->
         [op |-> "read", lba |-> blk.lba,
          len |-> call[Blk].size \div BlockSize, data |-> <<>>]
    [] blk.pc = "rmwread" ->
         [op |-> "write", lba |-> blk.lba,
          len |-> blk.size \div BlockSize,
          data |-> BlocksOf(blk.data)]
    [] blk.pc \in {"rmwerase", "rmwwrite"} ->
         [op |-> "written", lba |-> blk.lba,
          len |-> blk.size \div BlockSize, data |-> <<>>]
    [] OTHER -> [op |-> "none", lba |-> 0, len |-> 0, data |-> <<>>]

Device == INSTANCE BlockDevice WITH
  disk <- AbstractDisk, request <- AbstractRequest, answer <- BlocksOf(blkData),
  Value <- [0 .. BlockSize - 1 -> Cell],
  GroupSize <- SectorSize \div BlockSize, failed <- BlkError # 0

DeviceSpec == Device!Spec
=============================================================================
