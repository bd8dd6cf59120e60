------------------------------ MODULE GmacSnp ------------------------------
(***************************************************************************)
(* The network interface of GmacDxe: the states of the Simple Network      *)
(* Protocol and the two descriptor rings, which the driver shares with the *)
(* DMA engine of the Ethernet controller.                                  *)
(*                                                                         *)
(* Calls of the protocol run at TPL_CALLBACK, one at a time.  The engine   *)
(* runs beside them, also between two accesses of one call to descriptors  *)
(* and status bits, which are steps of their own here.                     *)
(***************************************************************************)
EXTENDS Naturals, FiniteSets, Sequences

CONSTANTS
  RxNum, TxNum,   \* RX_DESC_NUM, TX_DESC_NUM
  Word,           \* 2^32
  Buf,            \* addresses of the buffers a caller transmits
  MaxOut,         \* buffers a caller has in transmission at a time
  Data,           \* contents of frames that arrive
  Mac             \* station addresses

ASSUME GmacAssumption ==
  /\ RxNum \in Nat \ {0} /\ TxNum \in Nat \ {0}
  /\ Word \in Nat \ {0} /\ Buf \subseteq Nat
  /\ MaxOut \in Nat
  /\ "none" \notin Mac

VARIABLES
  state,       \* Mode->State, and "exited" behind ExitBootServices
  media,       \* Mode->MediaPresent
  current,     \* Mode->CurrentAddress
  station,     \* MacAddr0Hi and MacAddr0Lo
  rx,          \* receive descriptors: whose? and the frame they point to
  tx,          \* transmit descriptors: are they the engine's? (TDES0_OWN)
  rxRead,      \* RxDescReadIdx
  txWrite,     \* TxDescWriteIdx
  txRelease,   \* TxDescReleaseIdx
  txBufPtrs,   \* TxBufPtrs, and TxBufs: a frame goes by the buffer it came from
  dma,         \* the engine: does it run, where, has it suspended?
  intr,        \* DmaStatus: has the receive interrupt been raised?
  op,          \* the call in progress
  arrived,     \* history: frames in the receive ring, oldest first
  accepted,    \* history: frames Transmit took that are not on the wire
  out,         \* history: buffers the caller has not got back, oldest first
  unreported   \* history: has a frame arrived that GetStatus did not report?

modeVars == <<state, media, current, station>>
rxVars   == <<rx, rxRead, arrived, unreported>>
txVars   == <<tx, txWrite, accepted>>
relVars  == <<txRelease, txBufPtrs, out>>
vars == <<modeVars, rxVars, txVars, relVars, dma, intr, op>>

NoMac   == "none"
NoFrame == [whole |-> FALSE, data |-> "none"]
Frame   == [whole : BOOLEAN, data : Data]

RxSlot == 0 .. RxNum - 1
TxSlot == 0 .. TxNum - 1
RxNext(i) == (i + 1) % RxNum
TxNext(i) == (i + 1) % TxNum

Idle == [pc |-> "idle"]

\* Resetting the controller stops the engine and clears its registers.
StoppedDma == [on |-> FALSE, rx |-> 0, tx |-> 0, rxSusp |-> FALSE, txSusp |-> FALSE]

----------------------------------------------------------------------------
(***************************************************************************)
(* The DMA engine, which reads a descriptor and acts on it in one step.    *)
(***************************************************************************)
DmaReceive(frame) ==
  /\ dma.on /\ ~dma.rxSusp
  /\ rx[dma.rx].own
  /\ rx' = [rx EXCEPT ![dma.rx] = [own |-> FALSE, frame |-> frame]]
  /\ arrived' = Append(arrived, frame)
  /\ dma' = [dma EXCEPT !.rx = RxNext(dma.rx)]
  /\ intr' = TRUE
  /\ unreported' = TRUE
  /\ UNCHANGED <<modeVars, rxRead, txVars, relVars, op>>

\* The next descriptor is the driver's: DMA_STATUS_RU, until a poll demand.
DmaRxSuspend ==
  /\ dma.on /\ ~dma.rxSusp
  /\ ~rx[dma.rx].own
  /\ dma' = [dma EXCEPT !.rxSusp = TRUE]
  /\ UNCHANGED <<modeVars, rxVars, txVars, relVars, intr, op>>

DmaTransmit ==
  /\ dma.on /\ ~dma.txSusp
  /\ tx[dma.tx]
  /\ tx' = [tx EXCEPT ![dma.tx] = FALSE]
  /\ accepted' = Tail(accepted)
  /\ dma' = [dma EXCEPT !.tx = (dma.tx + 1) % TxNum]
  /\ UNCHANGED <<modeVars, rxVars, txWrite, relVars, intr, op>>

DmaTxSuspend ==
  /\ dma.on /\ ~dma.txSusp
  /\ ~tx[dma.tx]
  /\ dma' = [dma EXCEPT !.txSusp = TRUE]
  /\ UNCHANGED <<modeVars, rxVars, txVars, relVars, intr, op>>

----------------------------------------------------------------------------
(***************************************************************************)
(* The states of the protocol.  A call in another state returns an error   *)
(* and changes nothing.                                                    *)
(***************************************************************************)
Calls(s) == op.pc = "idle" /\ state \in s

Start ==
  /\ Calls({"Stopped"})
  /\ state' = "Started"
  /\ UNCHANGED <<media, current, station, rxVars, txVars, relVars, dma, intr, op>>

\* Shutdown and Stop leave the engine alone; the caller takes its buffers back.
Shutdown ==
  /\ Calls({"Started", "Initialized"})
  /\ state' = "Started"
  /\ out' = <<>>
  /\ UNCHANGED <<media, current, station, rxVars, txVars, txRelease, txBufPtrs, dma, intr, op>>

Stop ==
  /\ Calls({"Started", "Initialized"})
  /\ state' = "Stopped"
  /\ out' = <<>>
  /\ UNCHANGED <<media, current, station, rxVars, txVars, txRelease, txBufPtrs, dma, intr, op>>

\* The reset does not end in three seconds.  (The call returns without
\* RestoreTPL; priorities are not modelled.)
InitializeTimesOut ==
  /\ Calls({"Started"})
  /\ dma' = StoppedDma
  /\ station' = NoMac
  /\ intr' = FALSE
  /\ UNCHANGED <<state, media, current, rxVars, txVars, relVars, op>>

\* Mutant: the engine starts over at its first descriptor, the driver does not.
InitializeKeepsRead ==
  /\ Calls({"Started"})
  /\ dma' = [StoppedDma EXCEPT !.on = TRUE]
  /\ station' = current
  /\ intr' = FALSE
  /\ rx' = [i \in RxSlot |-> [own |-> TRUE, frame |-> NoFrame]]
  /\ tx' = [i \in TxSlot |-> FALSE]
  /\ txWrite' = 0 /\ txRelease' = 0
  /\ arrived' = <<>> /\ accepted' = <<>> /\ unreported' = FALSE
  /\ media' \in {FALSE, media}
  /\ state' = "Initialized"
  /\ UNCHANGED <<current, rxRead, txBufPtrs, out, op>>

\* Mutant: the station address is not written again after the reset.
InitializeLosesStation ==
  /\ Calls({"Started"})
  /\ dma' = [StoppedDma EXCEPT !.on = TRUE]
  /\ station' = NoMac
  /\ intr' = FALSE
  /\ rx' = [i \in RxSlot |-> [own |-> TRUE, frame |-> NoFrame]]
  /\ tx' = [i \in TxSlot |-> FALSE]
  /\ rxRead' = 0 /\ txWrite' = 0 /\ txRelease' = 0
  /\ arrived' = <<>> /\ accepted' = <<>> /\ unreported' = FALSE
  /\ media' \in {FALSE, media}
  /\ state' = "Initialized"
  /\ UNCHANGED <<current, txBufPtrs, out, op>>

\* If Mode told of a link, Initialize waits four seconds for it to come back.
Initialize ==
  /\ Calls({"Started"})
  /\ dma' = [StoppedDma EXCEPT !.on = TRUE]
  /\ station' = current
  /\ intr' = FALSE
  /\ rx' = [i \in RxSlot |-> [own |-> TRUE, frame |-> NoFrame]]
  /\ tx' = [i \in TxSlot |-> FALSE]
  /\ rxRead' = 0 /\ txWrite' = 0 /\ txRelease' = 0
  /\ arrived' = <<>> /\ accepted' = <<>> /\ unreported' = FALSE
  /\ media' \in {FALSE, media}
  /\ state' = "Initialized"
  /\ UNCHANGED <<current, txBufPtrs, out, op>>

StationAddress(mac) ==
  /\ Calls({"Initialized"})
  /\ current' = mac
  /\ station' = mac
  /\ UNCHANGED <<state, media, rxVars, txVars, relVars, dma, intr, op>>

ExitBootServices ==
  /\ Calls({"Stopped", "Started", "Initialized"})
  /\ dma' = StoppedDma
  /\ station' = NoMac
  /\ intr' = FALSE
  /\ media' = FALSE
  /\ state' = "exited"
  /\ UNCHANGED <<current, rxVars, txVars, relVars, op>>

----------------------------------------------------------------------------
(***************************************************************************)
(* GetStatus: the link, one buffer to give back, and the interrupts, which *)
(* are read in one access and cleared in another.                          *)
(***************************************************************************)
\* The address of a buffer as the caller gets it: its low 32 bits.
Recycled(b) == b % Word

\* Mutant: a buffer is given back whenever its descriptor is free.
RecycleOne ==
  IF ~tx[txRelease]
    THEN /\ txRelease' = TxNext(txRelease)
         /\ out' = IF out # <<>> /\ Recycled(txBufPtrs[txRelease]) = Head(out) THEN Tail(out) ELSE out
    ELSE UNCHANGED <<txRelease, out>>

Recycle ==
  IF txRelease # txWrite
    THEN /\ txRelease' = TxNext(txRelease)
         /\ out' = IF out # <<>> /\ Recycled(txBufPtrs[txRelease]) = Head(out)
                   THEN Tail(out) ELSE out
    ELSE UNCHANGED <<txRelease, out>>

GetStatus(recycle, interrupts) ==
  /\ Calls({"Initialized"})
  /\ media' \in BOOLEAN
  /\ IF recycle THEN Recycle ELSE UNCHANGED <<txRelease, out>>
  /\ op' = IF interrupts THEN [pc |-> "clear", status |-> intr] ELSE op
  /\ UNCHANGED <<state, current, station, rxVars, txVars, txBufPtrs, dma, intr>>

\* Mutant: all interrupts are cleared, reported or not.
GetStatusClearAll ==
  /\ op.pc = "clear"
  /\ intr' = FALSE
  /\ unreported' = (unreported /\ ~op.status)
  /\ op' = Idle
  /\ UNCHANGED <<modeVars, rx, rxRead, arrived, txVars, relVars, dma>>

GetStatusClear ==
  /\ op.pc = "clear"
  /\ intr' = (intr /\ ~op.status)
  /\ unreported' = (unreported /\ ~op.status)
  /\ op' = Idle
  /\ UNCHANGED <<modeVars, rx, rxRead, arrived, txVars, relVars, dma>>

----------------------------------------------------------------------------
(***************************************************************************)
(* Receive: descriptors are given back until one held a whole frame, which *)
(* is delivered or, if the caller's buffer is too small, dropped.          *)
(***************************************************************************)
Receive ==
  /\ Calls({"Initialized"})
  /\ op' = [pc |-> "rx", done |-> FALSE]
  /\ UNCHANGED <<modeVars, rxVars, txVars, relVars, dma, intr>>

ReceiveDescriptor ==
  LET frame == rx[rxRead].frame IN
  /\ op.pc = "rx" /\ ~op.done
  /\ ~rx[rxRead].own
  /\ rx' = [rx EXCEPT ![rxRead] = [own |-> TRUE, frame |-> NoFrame]]
  /\ rxRead' = RxNext(rxRead)
  /\ arrived' = Tail(arrived)
  /\ op' = [op EXCEPT !.pc = "resume", !.done = frame.whole]
  /\ UNCHANGED <<modeVars, unreported, txVars, relVars, dma, intr>>

\* Mutant: no poll demand after a frame was found.
ReceiveResumeInLoop ==
  /\ op.pc = "resume"
  /\ dma' = [dma EXCEPT !.rxSusp = @ /\ op.done]
  /\ op' = [op EXCEPT !.pc = "rx"]
  /\ UNCHANGED <<modeVars, rxVars, txVars, relVars, intr>>

\* If the engine has suspended, it gets a poll demand.
ReceiveResume ==
  /\ op.pc = "resume"
  /\ dma' = [dma EXCEPT !.rxSusp = FALSE]
  /\ op' = [op EXCEPT !.pc = "rx"]
  /\ UNCHANGED <<modeVars, rxVars, txVars, relVars, intr>>

ReceiveReturn ==
  /\ op.pc = "rx" /\ (op.done \/ rx[rxRead].own)
  /\ op' = Idle
  /\ UNCHANGED <<modeVars, rxVars, txVars, relVars, dma, intr>>

----------------------------------------------------------------------------
(***************************************************************************)
(* Transmit, with parameters that pass its checks.                         *)
(***************************************************************************)
\* Mutant: a descriptor the engine has not sent yet is used again.
TransmitOverOwned(b) ==
  /\ Calls({"Initialized"}) /\ media
  /\ tx' = [tx EXCEPT ![txWrite] = TRUE]
  /\ txBufPtrs' = [txBufPtrs EXCEPT ![txWrite] = b]
  /\ txWrite' = TxNext(txWrite)
  /\ accepted' = Append(accepted, b)
  /\ out' = Append(out, b)
  /\ op' = [pc |-> "poll"]
  /\ UNCHANGED <<modeVars, rxVars, txRelease, dma, intr>>

\* The second half of the code's test for room compares the write index with
\* its own successor.
Transmit(b) ==
  /\ Calls({"Initialized"}) /\ media
  /\ IF ~tx[txWrite] /\ TxNext(txWrite) # txWrite
       THEN /\ tx' = [tx EXCEPT ![txWrite] = TRUE]
            /\ txBufPtrs' = [txBufPtrs EXCEPT ![txWrite] = b]
            /\ txWrite' = TxNext(txWrite)
            /\ accepted' = Append(accepted, b)
            /\ out' = Append(out, b)
       ELSE UNCHANGED <<txVars, txBufPtrs, out>>
  /\ op' = [pc |-> "poll"]
  /\ UNCHANGED <<modeVars, rxVars, txRelease, dma, intr>>

\* Mutant: the poll demand is sent only while the engine has not suspended.
TransmitPollIgnored ==
  /\ op.pc = "poll"
  /\ op' = Idle
  /\ UNCHANGED <<modeVars, rxVars, txVars, relVars, dma, intr>>

TransmitPoll ==
  /\ op.pc = "poll"
  /\ dma' = [dma EXCEPT !.txSusp = FALSE]
  /\ op' = Idle
  /\ UNCHANGED <<modeVars, rxVars, txVars, relVars, intr>>

----------------------------------------------------------------------------
Init ==
  /\ state = "Stopped" /\ media = FALSE
  /\ current \in Mac /\ station = NoMac
  /\ rx = [i \in RxSlot |-> [own |-> TRUE, frame |-> NoFrame]]
  /\ tx = [i \in TxSlot |-> FALSE]
  /\ rxRead = 0 /\ txWrite = 0 /\ txRelease = 0
  /\ txBufPtrs \in [TxSlot -> {0}]
  /\ dma = StoppedDma /\ intr = FALSE /\ op = Idle
  /\ arrived = <<>> /\ accepted = <<>> /\ out = <<>> /\ unreported = FALSE

Engine ==
  \/ \E frame \in Frame : DmaReceive(frame)
  \/ DmaRxSuspend \/ DmaTransmit \/ DmaTxSuspend

\* A caller does not reuse a buffer before it has it back, and has no more
\* than MaxOut of them in transmission.
SendsAllowed(b) ==
  /\ Len(out) < MaxOut
  /\ \A i \in DOMAIN out : out[i] # b

Protocol ==
  \/ Start \/ Stop \/ Shutdown \/ Initialize \/ InitializeTimesOut
  \/ \E mac \in Mac : StationAddress(mac)
  \/ \E recycle, interrupts \in BOOLEAN : GetStatus(recycle, interrupts)
  \/ GetStatusClear
  \/ Receive
  \/ ReceiveDescriptor \/ ReceiveResume \/ ReceiveReturn
  \/ \E b \in Buf : SendsAllowed(b) /\ Transmit(b)
  \/ TransmitPoll
  \/ ExitBootServices

Next == Engine \/ Protocol

Spec == Init /\ [][Next]_vars

----------------------------------------------------------------------------
(***************************************************************************)
(* Properties.                                                             *)
(***************************************************************************)
GmacTypeOK ==
  /\ state \in {"Stopped", "Started", "Initialized", "exited"}
  /\ media \in BOOLEAN
  /\ current \in Mac /\ station \in Mac \cup {NoMac}
  /\ rx \in [RxSlot -> [own : BOOLEAN, frame : Frame \cup {NoFrame}]]
  /\ tx \in [TxSlot -> BOOLEAN]
  /\ rxRead \in RxSlot /\ txWrite \in TxSlot /\ txRelease \in TxSlot
  /\ txBufPtrs \in [TxSlot -> Buf \cup {0}]
  /\ dma \in [on : BOOLEAN, rx : RxSlot, tx : TxSlot, rxSusp : BOOLEAN, txSusp : BOOLEAN]
  /\ intr \in BOOLEAN
  /\ op.pc \in {"idle", "clear", "rx", "resume", "poll"}

\* What the driver will find in the receive ring, and the engine in the other.
InRxRing == [k \in 1 .. Cardinality({i \in RxSlot : ~rx[i].own}) |->
               rx[(rxRead + k - 1) % RxNum].frame]
InTxRing == [k \in 1 .. Cardinality({i \in TxSlot : tx[i]}) |->
               txBufPtrs[(dma.tx + k - 1) % TxNum]]

\* Receive finds the frames that arrived in their order, each once, and none
\* is left behind in the ring, however calls and engine interleave.
RxRingInOrder == dma.on => InRxRing = arrived

\* The engine never stays suspended while there is a free descriptor: Receive
\* sees DMA_STATUS_RU and sends a poll demand whenever it is needed.
RxNeverStarves == dma.rxSusp /\ op.pc # "resume" => ~rx[dma.rx].own

\* The engine sends what Transmit accepted, in order, each frame once and
\* with the contents it had then.
TxRingInOrder == dma.on => InTxRing = accepted

\* The engine never stays suspended while a frame waits for it.
TxNeverStalls == dma.txSusp /\ op.pc # "poll" => accepted = <<>>

\* The driver and the engine agree on the order of both rings.
RingsInOrder == GmacTypeOK /\ RxRingInOrder /\ TxRingInOrder

\* Every buffer that was transmitted can still be given back, in order:
\* "Store the Buf address in order to release it later" (GmacSnpTransmit).
BuffersKept ==
  state = "Initialized" =>
    out = [k \in 1 .. (txWrite + TxNum - txRelease) % TxNum |->
             txBufPtrs[(txRelease + k - 1) % TxNum]]

\* A frame that arrives is reported as a receive interrupt by a GetStatus that
\* returns later, also if it arrives while another is being reported.
ArrivalsReported == dma.on /\ unreported => intr \/ op.pc = "clear"

\* While the interface is initialized, the controller filters by the address
\* that Mode tells: the reset in Initialize clears the registers.
AddressInForce == state = "Initialized" => station = current

\* The engine never waits for good with work to do, and takes frames for the
\* address in force.
EngineGoesOn == RxNeverStarves /\ TxNeverStalls /\ AddressInForce
=============================================================================
