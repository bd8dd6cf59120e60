----------------------------- MODULE EspiFlash -----------------------------
(***************************************************************************)
(* A SPI flash behind the eSPI master (Silicon/Baikal/Library/EspiLib) and *)
(* its block driver (Platform/Baikal/Drivers/EspiFlashBlockIoDxe).         *)
(*                                                                         *)
(* A command is one EspiExec: chip select down, opcode, address and data   *)
(* through the FIFO, chip select up; the flash acts when the select goes   *)
(* up.  When a transfer fails, EspiTransfer returns with the select still  *)
(* down: the flash takes the bytes of the next command for more bytes of   *)
(* the one that failed.  If the transfer timed out, bytes of it may also   *)
(* be left in the FIFOs, which only EspiInit flushes: every later command  *)
(* is then shifted, what it sends as well as what it reads.  The driver    *)
(* ignores the result of every call and returns EFI_SUCCESS.  The flash is *)
(* external.                                                               *)
(***************************************************************************)
EXTENDS Naturals, Sequences

CONSTANTS
  Sectors,     \* SectorCount
  SectorSize,  \* SPI_SUBSECTOR, in pages of SPI_MAX_WRITE; a block is a page
  MaxBlocks,         \* bound: blocks in a request
  PageData,          \* bound: the pages that callers write
  ErasedPage, Junk,  \* an erased page; a page of which nothing is known
  FirstPages,        \* bound: what the pages hold at first
  MaxTransferFaults  \* bound: transfers that fail

ASSUME EspiAssumption == Sectors \in Nat \ {0} /\ SectorSize \in Nat \ {0} /\ MaxBlocks \in Nat
                           /\ FirstPages \subseteq PageData \cup {ErasedPage, Junk}

VARIABLES
  flash,     \* external: [Page -> Content]
  chip,      \* external: [open, wel]: the command in progress, the write enable latch
  stale,     \* a transfer has timed out: bytes of it are still in the FIFOs, or missing in an
             \* address the flash waits for
  drv,       \* the request being served
  buf,       \* Buf of WriteBlocks
  adrMode,   \* AdrMode
  want,      \* history: what the flash would hold had every request worked
  spoiled,   \* history: pages that a disturbed request may have changed
  failures   \* bound

espiVars == <<flash, chip, stale, drv, buf, adrMode, want, spoiled, failures>>

Page     == 0 .. Sectors * SectorSize - 1
Content  == PageData \cup {ErasedPage, Junk}
SectorOf(p) == p \div SectorSize
Touched(r) == {p \in Page : \E q \in r.lba .. r.lba + r.n - 1 : SectorOf(p) = SectorOf(q)}

None == [op |-> "none", at |-> 0, val |-> ErasedPage]

\* Programming clears bits only.
Programmed(old, new) == IF old = ErasedPage THEN new ELSE IF new \in {ErasedPage, old} THEN old ELSE Junk

----------------------------------------------------------------------------
(* EspiTransfer and EspiExec.                                              *)

Cmd(op, at, val) == [op |-> op, at |-> at, val |-> val]

\* What the flash holds after the select goes up on command c, and its write enable latch.
Chip(open, wel) == [open |-> open, wel |-> wel]
Acted(c) ==
  CASE c.op = "WREN" -> [flash |-> flash, chip |-> Chip(None, TRUE)]
    [] c.op = "PP" /\ chip.wel ->
         [flash |-> [flash EXCEPT ![c.at] = Programmed(@, c.val)], chip |-> Chip(None, FALSE)]
    [] c.op = "SSE" /\ chip.wel ->
         [flash |-> [p \in Page |-> IF SectorOf(p) = SectorOf(c.at) THEN ErasedPage ELSE flash[p]],
          chip  |-> Chip(None, FALSE)]
    [] OTHER -> [flash |-> flash, chip |-> Chip(None, chip.wel)]

\* Commands with an address need AdrMode, which a failed EspiMode3 leaves at 0.
Addressed == {"READ", "PP", "SSE"}
Refused(c) == c.op \in Addressed /\ adrMode = 0

\* EspiTransfer to its end.  A command left open by an earlier failure swallows this one:
\* more data for PP, which spoils its page; too many bytes for the others.
Sent(c) ==
  IF chip.open = None THEN Acted(c)
  ELSE IF chip.open.op = "PP" THEN Acted([chip.open EXCEPT !.val = Junk])
  ELSE [flash |-> flash, chip |-> Chip(None, chip.wel)]

Swallowed == chip.open # None

\* What reaches the flash is not the command any more: an address is completed by the bytes
\* that follow, data by opcodes, and the select goes up at the wrong byte.
Garbled ==
  /\ stale
  /\ flash' = [p \in Page |-> Junk]
  /\ \E w \in BOOLEAN : chip' = Chip(None, w)
  /\ UNCHANGED <<stale, failures>>

Good(c) ==
  /\ ~Refused(c)
  /\ \/ Garbled
     \/ /\ ~stale
        /\ flash' = Sent(c).flash /\ chip' = Sent(c).chip
        /\ UNCHANGED <<stale, failures>>

OneFault == ~stale /\ failures < MaxTransferFaults /\ failures' = failures + 1

\* EspiTxRx reports an error after the last byte, or times out before it, in the command or in
\* the data: the select stays down, and in the second case the FIFOs may keep bytes and the
\* address may be incomplete.
TransferFails(c) ==
  /\ ~Refused(c) /\ OneFault
  /\ chip' = [chip EXCEPT !.open = IF @ = None THEN c
                                   ELSE IF @.op = "PP" THEN [@ EXCEPT !.val = Junk] ELSE @]
  /\ stale' \in BOOLEAN
  /\ UNCHANGED flash

\* The command works and the status read behind it (EspiWren, EspiWait) fails.
StatusFails(c) ==
  /\ ~Refused(c) /\ OneFault
  /\ flash' = Sent(c).flash
  /\ chip' = Chip(Cmd("RDSR", 0, ErasedPage), Sent(c).chip.wel)
  /\ stale' \in BOOLEAN

Bad(c) ==
  \/ Refused(c) /\ UNCHANGED <<chip, flash, stale, failures>>
  \/ ~Refused(c) /\ Garbled
  \/ TransferFails(c)
BadWithStatus(c) == Bad(c) \/ StatusFails(c)

\* A request has been disturbed: whatever shares a sector with it may be wrong.
Disturbed == spoiled' = spoiled \cup Touched(drv)
\* That holds for the whole request once it meets an open command.
Undisturbed == IF Swallowed THEN Disturbed ELSE UNCHANGED spoiled

----------------------------------------------------------------------------
(* EspiFlashBlockIoDxeInitialize: EspiInit, EspiDetect, and EspiInfo with  *)
(* EspiMode3, whose result it ignores.                                     *)

NoRequest(pc) == [pc |-> pc, lba |-> 0, n |-> 0, at |-> 0, val |-> ErasedPage]
Serve(pc, lba, n, v) == [pc |-> pc, lba |-> lba, n |-> n, at |-> lba, val |-> v]

Detect ==
  /\ drv.pc = "off"
  /\ \/ Good(Cmd("RDID", 0, ErasedPage)) /\ drv' \in {NoRequest("mode"), NoRequest("absent")}
     \/ Bad(Cmd("RDID", 0, ErasedPage)) /\ drv' = NoRequest("absent")
  /\ UNCHANGED <<buf, adrMode, want, spoiled>>

\* EspiWren and the command that ends 4-byte addressing.
Mode3 ==
  /\ drv.pc = "mode"
  /\ drv' \in {NoRequest("ready"), NoRequest("absent")}
  /\ \/ Good(Cmd("EX4B", 0, ErasedPage)) /\ adrMode' = IF Swallowed THEN adrMode ELSE 3
     \/ BadWithStatus(Cmd("EX4B", 0, ErasedPage)) /\ UNCHANGED adrMode
  /\ UNCHANGED <<buf, want, spoiled>>

----------------------------------------------------------------------------
(* The protocol.  ReadBlocks and WriteBlocks check MediaId, size and range *)
(* first; requests that fail these checks change nothing.                  *)

InRange(lba, n) == n > 0 /\ lba + n <= Sectors * SectorSize

ReadBlocks ==
  \E lba \in Page, n \in 1 .. MaxBlocks :
    /\ drv.pc = "ready" /\ InRange(lba, n)
    /\ drv' = Serve("read", lba, n, ErasedPage)
    /\ UNCHANGED <<flash, chip, stale, buf, adrMode, want, spoiled, failures>>

\* One EspiExec for up to SPI_MAX_READ bytes.
ReadDone ==
  /\ drv.pc = "read"
  /\ drv' = NoRequest("ready")
  /\ \/ Good(Cmd("READ", drv.at, ErasedPage)) /\ Undisturbed
     \/ Bad(Cmd("READ", drv.at, ErasedPage)) /\ Disturbed
  /\ UNCHANGED <<buf, adrMode, want>>

WriteBlocks ==
  \E lba \in Page, n \in 1 .. MaxBlocks, v \in PageData :
    /\ drv.pc = "ready" /\ InRange(lba, n)
    /\ want' = [p \in Page |-> IF p \in lba .. lba + n - 1 THEN v ELSE want[p]]
    /\ drv' = Serve("fetch", lba, n, v)
    /\ UNCHANGED <<flash, chip, stale, buf, adrMode, spoiled, failures>>

Adr == SectorOf(drv.lba) * SectorSize

\* Mutant: the sectors are counted from the number of blocks alone.
LastUnaligned == Adr + ((drv.n + SectorSize - 1) \div SectorSize) * SectorSize

Last == (SectorOf(drv.lba + drv.n - 1) + 1) * SectorSize

Merge(b) == [p \in Page |-> IF p \in drv.lba .. drv.lba + drv.n - 1 THEN drv.val ELSE b[p]]

\* The sectors into the pool buffer, which holds junk; the caller's blocks over them.
Fetch ==
  /\ drv.pc = "fetch"
  /\ drv' = [drv EXCEPT !.pc = "wren", !.at = Adr]
  /\ \/ /\ Good(Cmd("READ", Adr, ErasedPage))
        /\ buf' = Merge(IF Swallowed \/ stale THEN [p \in Page |-> Junk] ELSE flash)
        /\ Undisturbed
     \/ /\ Bad(Cmd("READ", Adr, ErasedPage))
        /\ buf' = Merge([p \in Page |-> Junk])
        /\ Disturbed
  /\ UNCHANGED <<adrMode, want>>

\* EspiErase and EspiWrite each end at their first error.
SkipErase == drv' = [drv EXCEPT !.pc = "wren2", !.at = Adr]
EndWrite  == drv' = NoRequest("ready")

\* EspiWren reads the latch back, and it is clear when WREN was swallowed.
Wren(pc, next, skip) ==
  /\ drv.pc = pc
  /\ \/ /\ Good(Cmd("WREN", 0, ErasedPage)) /\ Undisturbed
        /\ IF chip'.wel THEN drv' = [drv EXCEPT !.pc = next] ELSE skip
     \/ BadWithStatus(Cmd("WREN", 0, ErasedPage)) /\ Disturbed /\ skip
  /\ UNCHANGED <<buf, adrMode, want>>

EraseWren == Wren("wren", "sse", SkipErase)

\* EspiExec and EspiWait, sector by sector.
EraseSector ==
  /\ drv.pc = "sse"
  /\ \/ /\ Good(Cmd("SSE", drv.at, ErasedPage)) /\ Undisturbed
        /\ IF drv.at + SectorSize < Last
           THEN drv' = [drv EXCEPT !.pc = "wren", !.at = @ + SectorSize]
           ELSE SkipErase
     \/ BadWithStatus(Cmd("SSE", drv.at, ErasedPage)) /\ Disturbed /\ SkipErase
  /\ UNCHANGED <<buf, adrMode, want>>

WriteWren == Wren("wren2", "pp", EndWrite)

\* Page by page.
WritePage ==
  /\ drv.pc = "pp"
  /\ \/ /\ Good(Cmd("PP", drv.at, buf[drv.at])) /\ Undisturbed
        /\ IF drv.at + 1 < Last
           THEN drv' = [drv EXCEPT !.pc = "wren2", !.at = @ + 1]
           ELSE EndWrite
     \/ BadWithStatus(Cmd("PP", drv.at, buf[drv.at])) /\ Disturbed /\ EndWrite
  /\ UNCHANGED <<buf, adrMode, want>>

EspiFlashInit ==
  /\ flash \in [Page -> FirstPages]
  /\ chip = [open |-> None, wel |-> FALSE]
  /\ stale = FALSE
  /\ drv = NoRequest("off")
  /\ buf = [p \in Page |-> Junk]
  /\ adrMode = 0
  /\ want = flash
  /\ spoiled = {}
  /\ failures = 0

EspiFlashNext == Detect \/ Mode3 \/ ReadBlocks \/ ReadDone \/ WriteBlocks \/ Fetch
          \/ EraseWren \/ EraseSector \/ WriteWren \/ WritePage

\* A request runs to its end: its loops are bounded and every wait has a timeout.
EspiFlashSpec == EspiFlashInit /\ [][EspiFlashNext]_espiVars

----------------------------------------------------------------------------
\* As long as no transfer has left bytes in the FIFOs or an address incomplete, one that fails
\* does no harm outside the sectors of the request it belongs to and of the requests that meet
\* the flash with its select down: everything else is as if all requests had worked
\* (WriteBlocks rewrites whole sectors through a pool buffer).
DamageConfined ==
  drv.pc = "ready" /\ ~stale => \A p \in Page \ spoiled : flash[p] = want[p]
=============================================================================
