# Verification of the Baikal EDK II platform code

TLA+ models, TLC runs and TLAPS proofs for the UEFI drivers and libraries of the
Baikal-M (BM1000) and Baikal-S (BS1000) boards. The specifications are translated
from the C sources; comments in the modules name the functions they model.

## 1. The system and its parts

The repository holds UEFI drivers (`Platform/Baikal/Drivers`), board drivers
(`BM1000Rdb`, `BS1000Rdb`), SoC libraries (`Silicon/Baikal`) and two shell
applications. UEFI runs on one processor; "concurrency" means that a timer or event
at a higher task priority level (TPL) interrupts code at a lower one at any
instruction, that TF-A (the secure monitor) executes requests with state of its own,
that DMA devices work beside the processor, and that power fails at any moment.

| Part | State | Operations | What makes it hard |
|---|---|---|---|
| `SmcFlashLib` | TF-A's single bounce buffer and its position | Erase, Read, Write, Lock | one buffer for all callers; transfers in parts; each monitor call may fail |
| `SmcFlashFvbDxe` | RAM mirror of the variable store, the store in flash | boot/format, Read, Write, EraseBlocks | mirror and flash updated one after the other; power loss; ignored results |
| `SmcFlashBlockIoDxe` | none between requests | ReadBlocks, WriteBlocks (read-modify-erase-write) | sectors larger than blocks; preemption; power loss |
| `EspiFlashBlockIoDxe`, `EspiLib` | SPI master registers and FIFOs, the address mode, the chip select | the same block device over eSPI | a transfer that fails leaves the chip selected and bytes in the FIFOs; ignored results |
| `SdFvbDxe`, `SdBlockDxe`, `SdLib` | the mirror, one block buffer, the card and the controller, a copy of the card's size in each driver | identification, block and byte transfers, variable store on a card | two drivers on one controller, one interrupts the other between two register writes of a command; ignored results |
| `SpiFlash` application | lock state of the flash | unlock, erase, write, verify, lock | a dialogue with the user |
| `Ps2MultDxe` | input ring, scan code queue, two key queues, notify list, LEDs, modifiers, the ports of the line | timers, ReadKeyStroke, Reset, SetState, notify registration, driver start and stop | three TPLs; bounded queues; multiplexing by escape bytes |
| `GmacDxe` | descriptor rings, indices, SNP mode | Start, Initialize, Transmit, Receive, GetStatus, Shutdown, Stop | DMA ownership, ring wrap, recycling |
| `BaikalRtcLib`, `DwI2cLib` | RTC chip registers, time zone variables; two queues of the I2C controller | LibGetTime, LibSetTime; I2cTxRx | two kinds of chip, BCD, 12-hour mode; polling beside a controller that goes on |
| `FruClientDxe` | a copy of the board's EEPROM | getters, SetBoardPowerPolicy | a chain of records rewritten page by page |
| `FdtClientDxe`, `ConfigDxe`, `EuiClientDxe`, `XGmacDxe`, `Gmac.c` | the device tree of this boot, the set-up variables | lookups and edits; addresses for the ports; the user's choices | nodes held by offset move; several drivers write one tree; choices kept twice |
| `PciHostBridgeLib`, `PciSegmentLib` | link state, address windows | constructors, link training and retraining, configuration access | links that stall and drop between two register accesses; windows inside 256 buses |
| `PlatformBootManagerLib` | boot options, hot keys, console and policy variables | before and after the console, unable to boot | many variables written one after the other, resets, power cuts |
| `BaikalVduLib` | the table of modes, two display controllers, the HDMI transmitter | modes from device tree and EDID, SetMode | one frame buffer for two displays; modes changed while in use |
| Memory map libraries | page tables, HOBs, GCD map, SRAT, SMBIOS type 19 | filled once per boot, one after the other | lists of the same memory written by different code |
| SMBIOS, ACPI, menus, UART, GPIO, small clients | mostly none after boot | fill tables, program registers | little control; see `PROJECT.json` |

Interaction: the variable driver (external) calls the FVB protocol of
`SmcFlashFvbDxe`; file systems call `SmcFlashBlockIoDxe`; both call `SmcFlashLib`,
which calls TF-A. The keyboard driver is driven by two timers and by console readers.
The network stack calls `GmacDxe`, which shares its rings with the DMA engine. The device
tree passes from PEI through `FdtClientDxe` to the FRU client, the network drivers and
`ConfigDxe`, which all edit it, to the operating system. The clock and the FRU are reached
over `DwI2cLib`.

`PROJECT.json` lists every part, modelled or not, and under `hazards` the places in
the code where something can go wrong that a test would hardly reach.

## 2. Modules and the code they model

### Flash storage

* `SmcFlashLib` – `Platform/Baikal/Library/SmcFlashLib/SmcFlashLib.c`. Variables
  `flash`, `bounce`, `position` (TF-A's) and `call`, the library call each client is
  in. **One action is one monitor call** (`SmcErase`, `SmcReadBuf`, `SmcPosition`,
  `SmcPull`, `SmcPush`, `SmcWriteBuf`), because a higher TPL can run between any two.
  A cell stands for the 32 bytes one PULL or PUSH moves and is the set of its bits
  that are 1: erasing sets all, programming intersects. `Outcome` is TF-A's answer:
  complete, or (when `SmcMayFail`) an error after any number of cells.
  `LibPowerLoss` may cut an erase or a program in progress after any cell.
* `SmcFlashFvbDxe` – the FVB driver: entry point with header validation and
  formatting (`FvbEntry` … `FvbFormatWritten`), `FvbRead`, `FvbWrite`, the list of
  `EraseBlocks` (`FvbErase`, `FvbEraseNext`), power loss. Every result of the library
  is dropped, as in the code. `suspect` is a history variable: the offsets whose last
  transfer TF-A failed.
* `SmcFlashBlockIoDxe` – the block device: entry point with the 32-bit size
  computation, parameter checks in the code's order, ReadBlocks, WriteBlocks as three
  library calls with the merge in between.
* `BlockDevice` – what a block device promises: a write takes effect at once, reads
  return what the device holds, and only a power loss or an error of the medium under
  a request does harm: to the blocks that read returns, or to the groups of blocks
  that write touches. `SmcFlashBlockIoDxe!DeviceSpec` is the refinement: a write takes
  effect when the driver starts to erase, and while it rewrites, the abstract disk
  shows the driver's buffer. `failed` maps to the errors of the request's calls, which
  the code drops and the history field `err` keeps.
* `NvFlash` – both drivers on one flash, one library, one bounce buffer. While the
  FVB driver serves a request nothing else runs (the variable driver raises the TPL);
  the block driver raises nothing, so a variable may be set between any two of its
  monitor calls.
* `SdLib` and `SdFvbDxe` – the variable store on an SD or eMMC card (`SdFvbDxe.c`) and
  the block device on the rest of the card (`SdBlockDxe.c`), each with its own copy of
  `SdLib.c` (`total`, mTotalSize), on one host controller and one card. A command of
  the block driver is taken apart: the wait for the lines, each register write of
  `SdCmdExec` (`BlkRegister`, the registers are `regs`), the command, the transfer of each
  block and the end are steps of their own. The FVB driver, called at TPL_NOTIFY, may come in
  between any two of them; its own commands, which nothing interrupts, are one step, or one
  for each block. `Redirected` says that the ARGUMENT register holds another address than
  the block driver wrote. `ident`
  and the `Ident…` actions are the identification with its loops; any command may fail
  (`MaxFaults`). A card knows a command only in the states the comments of the library
  rely on.
* `EspiFlash` – `EspiFlashBlockIoDxe.c` on `EspiLib.c`: one action is one `EspiExec`. A
  transfer that fails returns with the chip select asserted (`chip.open`), and the next
  command is data of the one that failed. A time-out or an overrun may also leave bytes in the
  FIFOs or an address incomplete (`stale`). No one flushes the FIFOs but EspiInit at the next
  boot, so from then on every command is `Garbled` and nothing is known of the flash. `want` and
  `spoiled` are history: the contents had nothing failed, and the pages a disturbed request
  may have changed.
* `MC…` modules bound the power losses and give initial contents.

### Keyboard

* `Ps2Queue` – the ring buffers of `Ps2MultDxe` (`INPUT_DATA_QUEUE`,
  `SCAN_CODE_QUEUE`, `EFI_KEY_QUEUE`): an array, `Head` and `Tail` that wrap, one
  slot always free. The code tests for a full ring in two ways, by the count of
  elements and by the index after the tail; both are there (`FullByCount`,
  `FullByIndices`).
* `LossyQueue` – what a ring promises: a sequence of at most `Max` elements whose
  oldest is forgotten when one more is pushed. `Ps2Queue!QueueSpec` is the refinement.
* `Ps2Keyboard` – the way of a key stroke. `wire` holds the bytes that arrived in the
  UART, `inq`, `scanq` and `keyq` are the driver's queues (as sequences, which the
  refinement justifies), `mods`, `locks` and `enabled` are fields of `PS2MULT_DEV`,
  `down` and `leds` belong to the keyboard. `pc` says where each of two contexts is:
  `app`, a caller of ReadKeyStroke or SetState at TPL_APPLICATION, and `timer`, the
  timer event at TPL_CALLBACK. Each access to a queue is one step; between two of
  them the timer may preempt the application where the code runs below TPL_CALLBACK
  (`Interruptible`; KeyGetchar and UpdateStatusLights raise the TPL). `Fill` moves any
  number of the arrived bytes, because the code reads whatever has arrived when
  PS2MULT_RX_DELAY is over. `LightsSetup` … `AckTimeout` are UpdateStatusLights with
  its two commands, the purge in front of each and the wait behind it, whose result
  is dropped. History variables: `awaited` (key strokes the user made), `phantom`
  (one was returned that nobody made), `lost` (the driver dropped something).

  Five keys stand for the kinds of scan code: plain, with prefix E0, modifier, lock,
  and PAUSE, the one key with prefix E1 and without a release. Left out: the races
  inside a single queue access, the numeric keypad under Num Lock, Ctrl-Alt-Del, partial
  key strokes, the translation of a key by the HII layout.
* `Ps2Driver` – the driver binding with every step failing (`Start`, `Stop`), `Reset` with
  `InitKeyboard` and the answer of a keyboard that is there or not, and key notification:
  the queue filled at one task priority and emptied at another, functions registered and
  removed in between.
* `Ps2MultLink` – the line between the driver and the external multiplexer: selectors, the
  escape byte and block sync in both directions, a fill that may end behind an escape, and
  the session started by every check for the keyboard. `Decoded` is the loop of
  `Ps2MultFillDataQueue`; the multiplexer is taken to decode as the driver does.

### Network

* `GmacSnp` – `GmacSnp.c`: the states of the Simple Network Protocol, GetStatus,
  Receive, Transmit, StationAddress, and the two descriptor rings. The DMA engine is
  external (`DmaReceive`, `DmaRxSuspend`, `DmaTransmit`, `DmaTxSuspend`): it takes
  descriptors it owns in order, suspends at the first one it does not own, and runs on
  when a poll demand comes; reading a descriptor and suspending is one step. Calls run
  at TPL_CALLBACK, one at a time, but the engine runs between their accesses: Receive
  is one step per descriptor and one per look at DMA_STATUS_RU, GetStatus reads the
  interrupts in one step and clears them in the next, Transmit fills its descriptor in
  one step and sends the poll demand in the next. A frame in the transmit ring goes by
  the buffer it was copied from, because TxBufs and TxBufPtrs are written together.
  Every reading of the link bit is a free choice. History variables: `arrived` (frames
  in the receive ring), `accepted` (frames not yet on the wire), `out` (buffers the
  caller has not got back), `unreported` (a frame no GetStatus has reported).

  Assumed of the caller (`SendsAllowed`): it does not reuse a buffer before it has it
  back and has at most `MaxOut` of them under way. Left out: ReceiveFilters,
  Statistics, MCastIpToMac (no ring state), PHY and clock set-up, task priorities
  (Initialize leaves TPL_CALLBACK set when the reset times out).

### Board and boot

* `DeviceTree` – the answers and edits of `FdtClientDxe.c` as operators over a tree, the
  sequence of its nodes. Nodes are named by offset (`Starts`), as in the code, so that an
  offset goes stale when a node in front of it is changed or deleted; a tree that outgrows
  the padding refuses the edit.
* `PlatformSetup` – the drivers that edit the tree in one boot: `FruMacs`, the two network
  drivers with the addresses from tree, FRU, registers and chip id (`PortMac`), `ConfigDxe`
  with its defaults, its hook (`FixupFdt`, one edit per switch that is off) and the power
  policy written to the FRU. One iteration of a driver's loop is one action; the drivers
  start in any order; requests to the surrounding firmware may fail. Several boots, because
  variables and FRU stay. A choice resets the machine but for the two questions without
  RESET_REQUIRED (`WithoutReset`: power policy, coherence of the GPU), behind which the user
  may go on to the operating system; `Reboot` may come at any stage. `before` and `heeded`
  are history: the settings when the boot began and when the hook ran.
* `MemoryMap` – the page tables of both chips, the HOBs of `BaikalMemoryInitPeiLib`, the
  loop of `HighMemDxe` over memory nodes with refused requests, and the ranges for SRAT
  and SMBIOS type 19. The tables of type 19 are installed bank by bank: at an error the ones
  made so far stay (`type19`). An address is a chip and a page on it.
* `PciHostBridge` – the constructors of both chips, register access by register access
  where a link can change in between (training, Polling.Compliance, the silent PHY,
  each read of the capability walk, retraining), the translation windows, `PciSegmentLib`'s route of a configuration address
  and the splitting of buffers. Links may drop `MaxDrops` times; `time` counts the polls.
  `blind` is history: the ports whose device's speed was read as ones, from a link that had
  dropped behind the search for the capability.
  `TreeAssumption` says what the constructors take for granted of a device tree, and each
  chip of its own kind: on the BM1000 that enabled nodes name different root ports, on the
  BS1000 that they are no more than root ports and that their regions are aligned.
* `PlatformBootManager` – `PlatformBootManager.c` over boots, resets and power cuts. The
  boot manager library (options, hot keys, refresh) is external and kept as abstract as
  this code sees it: a sort promises an order of priorities, no more, and a refresh gives
  new devices, in any order, the lowest numbers that are free.
* `DwI2c` – the polling loop of `I2cTxRx` and, beside it, the controller with its queues
  and a memory as target. One look at a register is one step.
* `BaikalRtc` – LibGetTime and LibSetTime for both kinds of chip as whole operations on a
  register image in BCD, with the two variables that keep what the chip does not.
* `FruClient` – the record chain of the FRU, every getter, and `SetBoardPowerPolicy`, page
  by page with cuts and refusals. Buffers are functions from offsets to bytes, so that
  checksums, offsets and the end bit are those of the code. `WellFormed` says what a factory
  image is: no records, or a chain of them that ends with nothing written behind it. `factory`
  and `wasEnded` (the chain had its end when the last call began) are history.
* `BaikalVdu` – the table of modes with what device tree and EDID do to it, the choice of a
  mode, the two controllers, and the transmitter with refused I2C writes.

### Modules for TLC

`MCPlatform`, `MCDevices`, `MCPs2Keyboard` and `MCSmcFlashFvb` each join several
components, or several settings of one component, that share no state. A behaviour is
that of the one component its variable `mode` names; the variables of the others keep one
value. Most properties are stated under the mode of their component, so they are as strong
as in a run of that component alone. Those with a proof (section 4) are listed under the name
under which they are proved, and say nothing of the mode: in the modes of other components,
`GmacSnp`, `EspiFlash` and `SdFvbDxe` stay in their first state, `DwI2c` has no transfer,
`BaikalRtc` no time set or read and `BaikalVdu` no display on, `PlatformBootManager` is not
in use and makes no reset, `FruClient` has a blank EEPROM and sets no policy, `PciHostBridge`
is at its end with no bridge found, and the modes of `MCSmcFlashFvb` are settings of the FVB driver, for all of which its properties hold.
`MCFruImages` and `MCTrees` hold the images and trees.

## 3. Runs

| Run | Question | Bounds |
|---|---|---|
| `fvb` | Mode plain, power losses at any monitor call: do mirror and flash agree between requests, is formatting safe to interrupt, is a valid store never wiped, is written data stored, does every boot end with a store? Mode fault, failing calls: do both copies still agree outside the failed transfers, and does damage stay in the volume? | 8 cells, sectors of 2, store of 2 sectors, buffer of 2; plain: 2 losses, requests of up to 2 cells; fault: requests of 1 cell |
| `blockio` | With failing calls and power losses: does the driver implement `BlockDevice`, and keep to its area? | 3 sectors of 2 blocks, requests up to 2 blocks, 1 loss |
| `nvflash` | Both drivers, a variable being set at any moment of a block request: the store stays right and the areas stay apart. | 2 sectors, 1 loss |
| `devices` | sd: is a card that is offered fully identified, do mirror and card agree but for failed and redirected transfers, does no driver write outside its request unless its address was replaced, and then only one block? espi: does a transfer that fails damage only the sectors of the disturbed requests, as long as it leaves nothing in the FIFOs? pci: does every register access reach its register once, does the port learn the speed of its device, or its own limit if the link dropped before the speed was read, does the constructor end? | sd: SD, eMMC or no card of 5 blocks, a write of 3 blocks in parts of 2, 1 failing command, 1 power loss; espi: 3 sectors of 2 pages, 1 failing transfer; pci: 3 device trees, 4 kinds of slot, 2 drops |
| `ps2_queue` | Do the rings implement `LossyQueue`, and do the two tests for a full ring agree? | ring of 4, 2 values |
| `ps2` | keys: does the application get the strokes as they were made, in order, with their modifiers, however the bytes are cut into packets, and does every one arrive? lights: do the lights end up showing the locks, with the timer preempting SetState and late or missing answers? driver: is a function called once per stroke of its key? link: does each side get exactly the bytes meant for it? | keys: 4 keys, 3 presses and releases; lights: 2 and one SetState; driver: two keys for one function, queue of 2; link: 2 bytes per direction, one that looks like a selector |
| `platform` | net: do both rings keep their order, does the engine never stay suspended with work to do, does every buffer come back, is every arrival reported? boot: do automatic resets end, does the hot key open the shell? bus: is what a transfer reports what happened? rtc: is the time set the time read? fru: is a policy set on a whole chain read back, and does a cut rewrite keep the board's identity? vdu: is the picture the one reported? setup: are the ports' addresses distinct and the user's choices in force? memory: do the lists of memory agree? | net: rings of 2 and 3, 2 buffers; boot: one disk, net card and display, 2 changes; bus: queues of 2, 2 calls; rtc: years 2000 to 2100, days, hours and minutes at the edges; fru: 80 bytes in pages of 16, 8 images; vdu: 10 trees; setup: 24 boards, 2 boots; memory: 48 trees |
| `fvb_far_erase` | refuted: "the entire parameter list of blocks must be verified before erasing" | |
| `nvflash_read` | refuted: "the data was read correctly" for a preempted block read | |
| `gmac_lost` | refuted: "store the Buf address in order to release it later" for a caller with as many buffers under way as there are descriptors | 3 under way |
| `ps2_keys_preempt` | refuted: ReadKeyStroke returns "the key that was pressed", when the timer preempts it between taking a byte and storing it | |
| `rtc_year` | refuted: a year that LibSetTime accepts is read back, for the years 2080 to 2085 on the Abeoz9, whose year LibGetTime masks with seven bits (0x7F) | |

The bounds are enough for the cases that matter: a transfer needs more than one part
(size above `BounceSize`), a rewrite needs a sector with a block that is not
addressed and a request across two sectors, a list needs two tuples, a format can be
cut in its erase, its write and again on the next boot. Offsets, sizes and addresses
are otherwise uniform: no code depends on their magnitude except the checks, whose
boundary values are all in range. In `blockio` the flash starts programmed and
callers write erased cells, so that a write that does not erase is seen.

The keys and lights of `ps2` use queues that a burst can overflow. The user stops after the
driver has dropped something (`UserActs`), because the properties speak of
behaviours without such a loss; three presses and releases are enough for a modifier
before, around and after a prefixed key and for PAUSE between two halves of another.

In `platform` (net) the receive ring fills up and empties completely, the transmit ring is one
longer than the number of buffers under way; with as many buffers as descriptors the
code loses them (`gmac_lost`). All buffers lie below `Word` (4 GiB): GetStatus stores
only the low 32 bits of their addresses (`Recycled`), so a buffer above is not
recognised. Frames are told apart by being whole or not, which shows a wrong order.

WriteBlocks and the FVB driver's Write return EFI_SUCCESS whatever TF-A answers;
`BlockDevice` and `suspect` allow for that, and `blockio` and `fvb` (fault) show how far
the damage of such an error reaches.

In `devices` the fault may hit any command of the identification or of any transfer, and
the power loss any point after or before it, so that the second driver identifies a card
that the first one left in any state. The formatted store is on the SD card, eMMC and an empty
slot begin without one, and after the power loss only the volume is used: block requests take
no notice of either. A block request has two parts, so that a request to the volume can come
between the registers of the first and of the last. The trees of pci hold a region that starts and one
that ends inside its 256 buses, a segment given twice, and disabled nodes in front of and
behind enabled ones. The trees of setup have one power policy per preset of the addresses, as
nothing relates the two; those of memory have nodes without a reg, with an empty one and with half
a bank, in front of good ones. The clock's values are those where a digit carries, the 12-hour mode
turns, or a leap day is or is not; `Junk` are register contents after power-on.

Deadlock is checked for `ps2_queue`. The other components may stop for good: a driver
whose installation failed, the network driver after ExitBootServices, a boot that has
reached the operating system with no change left, a card that is not there.

**Fairness.** `MCSpec` of `fvb` and `nvflash` assumes weak fairness of the drivers' own
code only (`Runs`, `NvFvbRuns`, `NvBlkRuns`): the processor executes the next statement of
a driver it is in. Callers and power owe nothing; the number of power losses is finite.
`MCSpec` of `devices` assumes it of the constructor of `PciHostBridge`, which nothing
preempts for ever. `MCLiveSpec` of the keyboard (mode keys): code that runs goes on (weak
fairness of `Packet` and `ReadKey`), the keyboard answers, the timer leaves the application
time to read again and again (strong fairness of `ReadKeyStroke`), and the UART is read
once PS2MULT_RX_DELAY is over although the queue may be found empty before (strong fairness
of `TakeFill`). Nothing obliges the user.

## 4. Proofs

`SmcFlashBlockIo_proofs` begins with lemmas about one monitor call for every flash, buffer,
part size and set of clients: calls stay well formed (`CallOK`), the other clients'
calls are untouched (`Advances`), and the flash changes only in the range of a call
that is erasing or programming (`LibStepOK`, `LibPowerLossOK`). A second part is about
contents: `TransferOK` says of a call at any of its monitor calls which cells have been
pulled into its memory, erased or programmed so far and what the bounce buffer holds for
it, and `LibStepTransfer` that every monitor call keeps this as long as nobody else uses
the buffer, and changes the flash only by erasing or by clearing bits (`FlashEffect`).

It goes on to prove about `BlkSpec`, for every geometry that satisfies
`BlkAssumption` (sectors a multiple of blocks, the block area on a sector boundary
inside the flash, sizes below 2^32) and for any initial flash:

* `BlkTypeCorrect` – `BlkTypeOK` always holds;
* `BlkEraseConfined` – the sectors `WriteBlocks` erases lie in the block area;
* `BlkKeepsFirmware` – no cell below the block area ever changes.

The argument: `RoundDown`, `RoundUp` and `DeviceGeometry` show that a request that
passes the parameter checks, and the whole sectors around it, lie between
`FLASH_MAP_BLOCK` and the end of the flash (`RequestInArea`, `SectorsInArea`).
`RmwStaysInBlockArea` is not inductive: the erase and write calls reuse the address
and size of the read call, so the invariant `BlkInv` adds that the call in progress
lies in the area, that its address is the one the request remembers, and that the driver
is in the library exactly while it serves a request.
`BlkKeepsFirmware` then follows from the lemma that only the range of a changing call
changes. Failing calls and power losses are part of `BlkSpec`.

The second half of the module proves `BlkImplementsDevice`: `BlkSpec => DeviceSpec`, the
refinement of `BlockDevice`, for every geometry (TLC checks it with blocks of one cell).
Three things carry it. (1) Arithmetic: a sector is a whole number of blocks and
`FLASH_MAP_BLOCK` a whole number of sectors, so the sectors that `RmwAddr` and `RmwSize`
round to are exactly the groups of blocks that the request touches (`GroupFacts`,
`SectorOfCell`, `CellInSectors`). (2) The invariant `BlkContents`: a request keeps the range
it began with, its calls do what `TransferOK` says, an error is remembered, and after an
erase without an error no bit is needed that the flash no longer has. (3) The mapping, one
lemma per step: submitting, returning, taking effect (when `WriteBlocks` begins to erase,
the abstract disk changes while the flash does not), failing, and losing power map to the
action of that name; every other step, and an erase or programming under a rewrite, is one
the device does not see (`BlkStepMapped`).

`NvFlash_proofs` proves about `FvbSpec`, the FVB driver alone, for every store on sector boundaries inside
the flash (`FvbAssumption`), any initial flash, failing calls and power losses included:

* `FvbTypeCorrect` – `FvbTypeOK` always holds;
* `FvbKeepsFirmware` – no cell outside the volume ever changes (`VolumeConfined`);
* `FvbKeepsCopiesAgreed` – mirror and flash agree between requests but for the cells of
  transfers that failed (`CopiesAgree`);
* `FvbWipesOnlyInvalid` – a boot formats only a store with invalid headers, or one whose
  headers could not be read (`WipesOnlyInvalidStore`);
* `FvbWriteIsStored` – a Write of which no call failed has its data in the flash
  (`WriteSuccessIsStored`).

All assume `ListsInVolume`: the lists callers give to EraseBlocks stay in the volume. The
driver does not check them, and `fvb_far_erase` shows what happens otherwise. The invariant
`FvbInv` says that the call in progress lies in the volume and so does every tuple that is
left of a list, and that the calls whose result becomes the mirror are reads, at boot one
of the whole store; without the latter the mirror's type would not be inductive.

For the contents `FvbInv` is not enough: in the middle of a request the copies differ.
`FvbData` says how. Outside the offsets of the call in progress (`Target`) they agree but
for suspects. Inside, while a write runs, the mirror holds the new data already and no bit
of it is missing in the flash (`Writable`: a caller only clears bits, and a boot writes
behind an erase); while an erase runs, the mirror is erased. When the call returns without
an error, `TransferOK` closes the gap; with one, the offsets are suspects from then on.

Its second part proves `NvKeepsAreasApart`: `NvSpec => AreasKeptApart`, with both drivers
on one library and one bounce buffer. `FvbInv` and `BlkInv` each speak of the library, the
driver's own call and the driver's own variables, and a driver moves no call but its own
(`FvbOwnCallOnly`, `BlkOwnCallOnly`), so that each invariant survives the steps of the other
driver, whatever the interleaving; the clauses that a driver is alone on the flash
(`FvbAlone`, `BlkAlone`) are separate and only used for the drivers by themselves. The proof
uses no priority of one driver over the other: the areas stay apart even without the
discipline that the contents (`MirrorMatchesFlash`) depend on. `NvCopiesAgree` proves
those too: the block driver runs only between two requests of the FVB driver and changes
only cells behind the store (`NvBlkKeepsData`), so `FvbData` survives its steps although it
uses TF-A's buffer in between.

`Ps2Mult_proofs` proves about the rings, for every number of slots and every set of
elements:

* `RingTypeCorrect` – `RingTypeOK` always holds;
* `FullTestsSame` – both tests for a full ring agree in every reachable state;
* `RingIsLossyQueue` – `Spec => QueueSpec`, the refinement of `LossyQueue`.

The argument is arithmetic modulo the number of slots, done once: `Wrap` says what
`%` is below twice the modulus, `SlotArithmetic` and `CountFacts` relate head, tail
and count. `HeldPush`, `HeldPushFull` and `HeldPop` then say what the operations do
to the sequence of held elements. They speak of an array and two indices, not of the
variables, so that they apply to a state and to its successor alike. The type
invariant is inductive as it stands.

and about the line to the multiplexer, for all bytes and any number of them on the line:

* `CommandsReachKeyboard` – the keyboard obeys a prefix of what the host sent it, whatever
  bytes that were and whenever sessions start;
* `PortsStayApart` – `PortsKeptApart`, that and the same for the keyboard's bytes on their
  way up, if no session starts while bytes of the mouse are on the line (`~Restart`; section
  5 says what happens otherwise);

about the way of a key stroke, for all keys, sizes of the queues and bounds:

* `KeyboardTypes` – `KbdTypeOK`, with or without preemption;
* `LightsAreLocks` – `LightsFollowLocks`, with or without preemption: with no update under way
  and nothing on its way to the keyboard, its lights are its locks;
* `StrokesReturnedAsMade` – `~Preempt /\ Spec => []StrokesAsMade`: the application is given the
  strokes the user made, in order, each with the modifiers that were down, unless something
  was dropped. `~Preempt` is needed: the run `ps2_keys_preempt` shows the other case;

and about the functions for a key, for any set of registrations and length of the queue:

* `FunctionsCalledOnce` – `OneFunctionPerKey /\ KbdSpec => []NotifiedOncePerKey`. The hypothesis
  is that no key has two functions; section 5 says what happens to one that has.

What is on the line only makes sense to a decoder in the right state, so `LinkInv` says that
there is a run of it (`Leads`): ports, escapes and positions in the text, one for each byte
on the line, from where the receiver stands to where the sender stands. `Framed` extends the
run by what `Frame` sends and `Taken` shortens it by the byte that `Decoded` takes. The
attempt found that the branches of `Decoded` overlapped, a control behind an escape matching
two of them, which TLC resolves in favour of the first; they are now apart.

For the strokes, a byte may be on the wire, in `inq`, in the hand of a reader or in `scanq`;
`Stream` puts these together in the order in which they will be decoded. `KeysInv` says that
`Stream`, decoded from the modifiers the driver knows, yields the strokes that the user made
and that are not yet in `keyq`, and ends in what is held now, and that `keyq` holds the ones before
them. The decoder is a relation, `DecodesTo`: a run of states, one for each byte, from those of
the driver to those of the keyboard; a key pressed extends it at one end, a scan code taken
shortens it at the other. Acknowledgments may lie between the bytes of a code; that any number of
them in a row change nothing (`PathAcks`), and that strokes are only counted upwards
(`PathCounts`), would be inductions, and are proved by the first place where they fail: every
set of numbers has a least element (`NatMin`). For the lights, `LightsInv` says that while no
context is about to send the locks, the last command for the lights on its way carries them or,
if there is none, the lights show them; between the two parts of an update, or while the timer
changes a lock in the middle of the application's one, it says nothing, and the later of the
two to end sends what is the case then.

For the functions, `NotifyInv` says that no registration is listed twice and that a key is in
the queue at most as often as its function still may be called. A key that is pressed is queued
once for each that matches, at most one, and counted if it is registered (`PressedCounts`); a
key that is taken out is one less in the queue, whether its function is still there or not
(`PlacesTail`, `HandledCounts`).

`Platform_proofs` proves about the network interface (`GmacSnp`), for rings of any size,
any frames, buffers and addresses:

* `NetRingsInOrder` – `RingsInOrder`: the slots the driver will read hold the frames that
  arrived, those the engine will read the frames Transmit took, in order, none twice;
* `NetEngineGoesOn` – `EngineGoesOn`: no suspended engine with work to do, and the station
  address is the one that Mode tells;
* `NetArrivalsReported` – `ArrivalsReported`: no interrupt is lost between the read and the
  clearing of the status;
* `NetBuffersKept` – `BuffersKept`, for a caller with fewer buffers under way than
  descriptors, all below 4 GiB. `gmac_lost` shows that the first condition is needed; the
  second is because of the 32 bits GetStatus stores.

Its first part is about any ring (`Holds`: the slots from one index up to another hold a
sequence; `Owns`: a set of slots is that of the first n): `RingPush`, `RingPop`,
`RingFirst`, `RingEnds`. `RingList` and `RingCount` turn this into what the properties read
off the descriptors. The properties themselves are not inductive, since the number of
slots that are owned says nothing about where they lie; `NetInv` says that both rings, cut
at the driver's and the engine's index, hold the history, that a call with several steps
runs on an initialized interface with its engine on, and that an arrival not yet reported
is pending in the status or has been read and not yet been cleared. The ring of buffers to
give back (`OutRing`) is the same idea at `txRelease` and `txWrite`. TLC has checked
`NetInv` and `OutRing` on the instance of `platform`.

`EspiFlash_proofs` proves `EspiDamageConfined` – `DamageConfined`, for every size of the
flash, its sectors and pages, and any number of failing transfers: between requests, outside
the sectors of the requests that a failure disturbed, the flash holds what it would hold had
nothing failed. It holds until a time-out leaves bytes in the FIFOs or an address incomplete
(`stale`); from then on the code promises nothing (section 5). That says nothing of the middle of a request, so `EspiInv` follows a write
page by page (`Rewritten`): which pages of its sectors are erased, which are programmed, and
that its buffer holds what they are to hold, up to the sector or page at hand. It also says
that the page of a PP command a failure left open (`chip.open`) has been given up: the next
command is data for it.

`SdFvb_proofs` proves about `SdFvbSpec`, for every size of card, volume, blocks and parts,
any contents, any number of failing commands, and power losses:

* `SdReadyAfterIdent` – `ReadyAfterIdent`: after an identification that succeeded, by
  whichever driver, the card is selected and both ends of the bus agree;
* `SdCardMirrored` – `CardMirrored`: mirror and card agree between requests but for the
  offsets of failed transfers and those that the data of a redirected block write has hit;
* `SdWritesConfined` – `WritesConfined`: a byte write changes no byte outside its range; a block
  request none outside its own, unless a request to the volume replaced its ARGUMENT before
  its COMMAND. Then it changes at most the one block of the volume that ARGUMENT names.

The first is by a table of progress: `MmcProgress` and `SdProgress` say before which step of
the two sequences the card is selected, has its width, and the controller its own and its
clock, and `CardInv` that no transfer disturbs what they have achieved. For the others `StoreInv` follows the block at
hand: between SdWrite's read and its write, the static buffer is the block on the card with
the mirror's cells over it (`BlockReady`), although the block driver is stopped in the
middle of a request of its own; what is left of that request lies outside the volume
(`Served`). `RegInv` says where the registers of a block command that is about to start may
point: at what is left of its request, or at a single block of the volume. The arithmetic says that a part of a request never crosses the block that is
fetched for it (`BlockAtHand`). Neither driver checks where its callers read and write, so
`CallerAssumption` says it: requests to the volume lie within it and partitions leave it
alone. Without the second, block requests may change the volume behind the mirror.

`PciHostBridge_proofs` proves about `PciSpec`, for every geometry of functions, buses and
regions (`PciAssumption`), every device tree (`TreeAssumption`), all devices and everything
links can do:

* `PciRegistersReached` – `RegistersReached`: a configuration address of a bus of a bridge
  lies in exactly one window, of the type its bus asks for, and names the function it was
  computed for; and the accesses a buffer is split into are aligned, apart from each other
  and cover it (`SplitCovers`, for every start and size);
* `PciSpeedReachesPort` – `SpeedReachesPort`: a port whose PHY answers retrains with the
  speed its device and its limit allow, or its limit if the link dropped between finding
  the capability of the device and reading its speed.

The windows are set from the entry of a bridge long after the tree was read, and on the
BM1000 a node that is refused leaves parts of itself in an entry. `TreeInv` says why that
does no harm: an entry that is listed in `mPcieIdxs` is not reached by another node
(`BmFresh`, `BsFresh`), so it still fits the address translation (`ListedFit`) and the
windows that are set are its windows (`WindowsOf`). `Routed` is the arithmetic: bus 1 with
device 0 is the one granule of the first window, later buses are the second, and an address
in an aligned region gives back its offset (`ModOffset`). `PortInv` adds that DBI2 is open
only where the PHY did not answer.

The other parts of `Platform_proofs` prove about `I2cSpec`, for every memory, depth of the queues and length of a
request (`BusAssumption` only says that there are queues and cells), about `RtcSpec`, about
`VduSpec` for every device tree and every EDID (`VduAssumption` gives the types of their
entries), about `BootSpec` for every set of devices and every set of option numbers
with one for each option the firmware can make (`BootAssumption`; a real list has 65536),
about `SetupSpec` for every board and device tree, and about `MemorySpec` for every device tree
whose nodes start at places of their own and whose memory nodes list banks (`Proper`):

* `I2cTransfersHonest` – `TransferHonest`: a call that returns the number of bytes it was
  asked for delivers the consecutive bytes of the memory and, on a controller that holds the
  bus, wrote all of its own; a call without a fault returns that number;
* `TimeReadsBack` – `ReadsBackWhatWasSet`, or the chip is an Abeoz9 set to a year from 2080
  on, the case that `rtc_year` refutes. There is one more exception, in the property: the hour of
  a Pcf212x that was left in 12-hour mode (`HourUnsure`). No other is left;
* `PictureIsAsReported` – `PictureAsReported`: a display that is on shows the resolution its
  mode reports, from memory the driver owns, with clock and syncs of one source, and a panel
  whose resolution is in the table gets its own timing on both;
* `RebootsComeToAnEnd` – `RebootsEnd`: between two changes from outside the firmware resets
  itself at most three times;
* `HotKeyOpensTheShell` – `HotKeyOpensShell`: whenever a boot is tried or offered, the key S
  is bound to a listed shell. Its hypothesis is that power is not cut between the shell
  option and its key (`CutAtKey`); section 5 says what such a cut does;
* `PolicyFollows` – `PolicyFollowsChoice`, which `platform` checks in `SetupApplied`: when the console is reached
  without a refused request, the board switches on by itself exactly if the user had chosen so
  when the boot began, whatever was chosen and refused in earlier boots. A choice made
  behind the hook counts from the next boot on (section 5). Its hypothesis is that every board has a
  power policy;
* `SecureMemoryStays` – `SecureApart` and `HandedOutIsMapped` of `MapsAgree`, which `platform`
  checks in `MemoryAgrees`, and `MappedOnce`: no page of the secure memory is mapped or handed
  out, what is handed out is mapped write-back unless its attributes were refused, and no
  memory is mapped twice. The banks of the tree may be wrong, overlap or come up again.

The driver looks at a status word and acts on it later. `Looked` says what is still so by
then: a byte that was there is there, and a bus seen idle with an empty queue stays idle, because only the
driver fills the queue and the word does not hide a byte that came with it. `Running` says
that the commands of a request are, in their order, done, on their way or queued (`Queued`),
what the memory makes of the next byte (`OnBus`, an address or data), which cell holds what
after so many commands (`Stored`), and that bytes received and queued are the expected ones
unless one was lost, in which case their number never reaches what was asked for
(`Delivered`). TLC has checked `BusInv` with requests of up to three bytes. For the clock,
`Digits` shows that two digits survive BCD and leave the bits free that the masks cut off,
and `ImageRead` that an image gives back its time. For the display, `VduInv` says that the table
keeps its resolutions whatever EDID does to it, one source for the timing and the clock of a
mode (`DetailedTypes`, `ActivateTypes`), that nothing is shown before the driver is ready,
and that a panel of the table leaves its mode the only active one. `ActiveFound` is why SetMode
shows what was reported: the search for the n-th active mode ends at one if there are more
than n, by the least of the active modes above. TLC has checked it with the trees and EDIDs of
`platform`.

For the boot manager, `ListOK` says that the boot order names an option once and that no
option has two numbers, so a number is always free (`FreeNumber`). `ResetInv` counts: the
resets made, and one for each reason there still is for another (one on its way, a capsule, a
changed policy not obeyed yet, options that do not match the devices plugged in) are never more
than three. A step that starts a reset must take away the reason for it; for the options
that is `RefreshedKeeps`, as a refresh leaves an option for each device present and
none for another. The bound alone is not inductive, as it does not say why the next reset is
the last. `KeyInv` follows the number of the shell option from the step that gives it to
the step that binds the key, and through refreshes, sorts and changes by the user. TLC has
checked `BootInv` with the bounds of `platform`.

For the settings, `PolicyInv` says that once ConfigDxe has run, the policy it saved is the
board's until its hook has run, and that the hook was asked for, or a request failed. The drivers
that edit the tree beside it leave all of that alone (`PolicyUntouched`).

For the memory, `MemoryInv` says why a wrong device tree does no harm: what PEI reported, the
secure memory as a reserved piece of it, is in the boot memory map for good; the pieces of that map
lie apart, as a bank is added only where nothing is (`BankStep`); and what is mapped as memory is a
piece that may be handed out. That no region of the boards' own tables touches the secure memory
is `MapSpared`, by the list of all of them. TLC has checked `MemoryInv` on the trees of `platform`.

`FruClient_proofs` proves about `FruSpec`, for every size of the EEPROM and of its pages, every
manufacturer and every set of factory images (`FruAssumption`), with power cuts and refused
pages between any two pages and any number of rewrites:

* `PolicyIsRead` – `PolicyReadBack`: after a call that returned success copy and EEPROM agree,
  and the policy read is the one set, if the chain of records had its end when the call began
  (`wasEnded`). A cut between pages may have left it without one; section 5 says what then;
* `IdentityStays` – `IdentityKept`: the MAC addresses, the fields of the board and its date are
  found in copy and EEPROM as the factory stored them, for images whose header to change lies
  in one page.

The checksums, the chain of records and the places of the fields are recursive functions of
positions. What is needed of them is not what they compute but what they depend on: they are
unrolled once (`SumsExist`, `WalksExist`, `FieldsExist`), and two buffers that agree where they
look agree in the result, by the first place where they would not (`SumSame`, `ChainWithin`,
`FieldsSame`). A buffer is `Framed` if it differs from the factory's image only in the bytes of a
rewrite: data and checksums of the first policy, or the end bit and checksum of the last record
and the record behind it, of which a beginning may be there (`Appended`). If its header to change
adds up it is `Good`, and the walk finds the records of the factory and at most the new one
(`WalkGood`); if not it is `Broken`, and the walk stops in front of that header (`WalkBroken`).
`Kept` relates copy and EEPROM: both framed, the copy at least as far as the EEPROM (`Ahead`) and
good or equal to it, or both broken with the same header. A rewrite keeps this (`RewriteKept`), a
page written makes the EEPROM a mixture of both (`MixedKept`), and a mixture is good if no page
ends in the header (`MixedGood`). While pages are written, the ones in front of `page` are those of
the copy (`FruCalls`). TLC has checked `FruInv` on the images of `platform`; without
`HeaderInOnePage`, `IdentityKept` is false for the last of them (section 5).

TLC has checked `EspiInv`, `CardInv`, `StoreInv`, `RegInv` and `PciInv` on instances like those of
`devices`.

All liveness (`BootEnds`, `StrokesArrive`, `ConstructorEnds`) is model-checked only, as
fairness is out of the provers' reach. So are `PortsDistinct` and `SetupApplied` of
`PlatformSetup` and the rest of `MemoryAgrees` of `MemoryMap`: they say what the edits of all drivers
make of a device tree whose nodes move, or a fold over all banks of a table, and that is an
induction over data, which the provers cannot do; that the page tables have no overlap at all
depends on the banks of the tree.

## 5. What the code does not promise

Some expectations one may have of the code are false for it. Five are refuted by runs
(section 3). The others are not checked by a run:

* `ResetNeedsNoKeyboard` (`Ps2Driver`): InitKeyboard succeeds without a keyboard. The loop
  that empties the input leaves the status of the read that found nothing, and Reset hands
  it on as a device error.
* `EventsHaveDevice` (`Ps2Driver`): no event keeps a pointer to a freed device. DriverStop
  skips the deinitialisation of a disabled keyboard, or goes on although the protocols
  could not be uninstalled, and frees the device.
* `HotKeyOpensShell` holds because power is not cut between the shell option and its hot
  key (`CutAtKey`); after such a cut the key is never bound, as only the boot that adds the
  option binds it.
* `SdFvbDxe` writes its default store from the header on, so a cut leaves a valid header in
  front of an old store; the driver on the flash erases first (`FreshHeaderFreshStore`).
* `SomeMode` (`BaikalVdu`): "If video mode was not discovered, set 800x600 as the only active
  mode" (BaikalVduPlatform.c:666). A panel whose resolution is not in the table leaves no
  mode at all; `PanelDriven` speaks of the others.
* `IdentityKept` of `FruClient` speaks of images whose header to change lies in one page
  (`HeaderInOnePage`). The EEPROM is written a page at a time, and the header of a record is
  taken by its checksum: a cut or a refused page between the end bit of the last record and
  that checksum, if they lie in two pages, loses the record, and with it an address, for good.
* The same cut leaves a chain without its end. SetBoardPowerPolicy then appends its record
  where the walk stopped (FruInternals.c:532) and returns EFI_SUCCESS, but no reader gets past the broken
  header: the policy is not found (`wasEnded` in `PolicyReadBack`).
* `WritesConfined` and `CardMirrored` except a block command of which a request to the volume has
  replaced the ARGUMENT before COMMAND was written (SdLib.c:506-510): the data of the partition goes
  to the variable store, and the mirror does not know it.
* `DamageConfined` ends with the first time-out or overrun that leaves bytes in the FIFOs
  (EspiLib.c:222-238) or an address incomplete: ISR is cleared, the FIFOs are not, and any later
  command may be taken for another, anywhere in the flash.
* `SpeedReachesPort`: a link that drops behind the search for the capability gives ones for
  the speed of its device, 7, so that the port retrains with its own limit.
* `PolicyFollowsChoice`, `SetupApplied`: the questions for PowerPolicy and MaliCoherent
  (ConfigDxeHii.vfr:108-122) do not require a reset, so a choice made after the hook has run is
  not obeyed by the boot that follows it without one.
* `BanksReachEveryMap` asks for all tables of type 19 only if their driver ends well. An empty reg,
  which FdtClientDxe lets through, ends it at that node: the tables of the banks in front of it
  stay, those behind it are never made.
* `ReadsBackWhatWasSet`: LibSetTime does not clear the mode bit of a Pcf212x that other software
  left in 12-hour mode, so the hour read may not be the one set.
* `PortsKeptApart` of `Ps2MultLink` lets a session start only while no byte of the mouse is
  on the line (`Restart`): what is on the line then is taken for the keyboard's.
* `NotifiedOncePerKey` holds for keys with one function each. With two functions for the same key
  KeyGetchar queues the key once per matching registration (Ps2KbdCtrller.c:855), and
  KeyNotifyProcessHandler calls every matching function for each copy: both are called twice
  for a stroke.

## 6. Not modelled

`SmcFlashLock` and the runtime address conversion of the FVB drivers; `GetBlockSize` and
`GetAttributes` (no state); what section 2 lists as left out. The `SpiFlash` application is
a dialogue around calls of `SmcFlashLib`. `PciCpuIo2Dxe` is range checks in front of loops
over memory-mapped accesses. `RamMenu` and `DdrSettings` show registers of the memory
controller. SMBIOS and ACPI drivers fill tables from constants; only what they say of the
memory is in `MemoryMap`. UART, GPIO, the SMBus of the debug board, the logo and the device
stubs have no protocol of their own. `PROJECT.json` gives a reason for each.

## 7. Plan

The models cover the parts of the system with control worth checking. What is left:

1. `GmacSnp`: ReceiveFilters and the task priorities.
2. The refinement of `BlockDevice` by `EspiFlash`, for a flash that does not fail.
3. `Ps2Keyboard` with the keypad and partial key strokes.
