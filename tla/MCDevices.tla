------------------------------ MODULE MCDevices ------------------------------
(* The drivers of devices, for TLC: a behaviour is that of the one its mode names.  "sd" is a card of    *)
(* five blocks of two cells with the volume in the first two; "espi" a flash of three sectors of two     *)
(* pages; "pci" the device trees and slots below.                                                        *)
EXTENDS SdFvbDxe, EspiFlash, PciHostBridge, TLC

CONSTANTS
  Modes,
  MaxLosses  \* bound: power losses and resets of the machine with the card

VARIABLES
  mode, losses

MCCard       == {[kind |-> "sd", csd |-> 1], [kind |-> "mmc", csd |-> 3], [kind |-> "none", csd |-> 0]}
MCRanges     == {<<1, 2>>}
MCEraseLists == {<<<<1, 1>>, <<0, 1>>>>}
\* A write in two parts, of two blocks and of one.
MCBlkRequests == {<<"write", 2, 3>>, <<"read", 2, 1>>}
\* A formatted store, on the SD card, and a card without one.
MCMedia == {[a \in Cell |-> IF a = VarBase THEN h ELSE "v"] : h \in {Header, Erased}}

Region == Buses * Bus
Node(seg, ok, base, size, max) == [seg |-> seg, ok |-> ok, base |-> base, size |-> size, max |-> max]
\* Regions that start or end inside their 256 buses, one segment given twice, and every order of status.
MCTrees ==
  {[soc |-> "BM1000", nodes |-> <<Node(1, TRUE, Region + Bus, 3 * Bus, 1), Node(0, TRUE, 3 * Region, Region, 2)>>]}
    \cup {[soc |-> "BM1000", nodes |-> <<Node(0, FALSE, Region, Region, 3), Node(2, TRUE, Region + 2 * Bus, 4 * Bus, 3),
                                          Node(0, TRUE, 2 * Region, 3 * Bus, 3)>>]}
    \cup {[soc |-> "BS1000", nodes |-> <<Node(0, FALSE, 0, Region, 3), Node(0, TRUE, Region, 4 * Bus, 3),
                                          Node(0, TRUE, 2 * Region, Region, 2)>>]}
Slot(v, k) == [speed |-> v, kind |-> k]
MCSlots == {Slot(0, "mute"), Slot(3, "mute"), Slot(2, "filters"), Slot(3, "plain")}

cardVars == <<vars, losses>>
mcVars == <<mode, cardVars, espiVars, pciVars>>

----------------------------------------------------------------------------
\* Two of the three slots hold the same.
MCPciInit == PciInit /\ dev[2] = dev[0]

\* In another mode the constructor is at its end, with no bridge found.
Unused == 0
NoPci == /\ pc = "done" /\ win = [s \in Segs |-> {}] /\ soc = Unused /\ nodes = Unused /\ bridge = Unused /\ idxs = Unused
         /\ port = Unused /\ link = Unused /\ speed = Unused /\ dev = Unused /\ cur = Unused /\ todo = Unused
         /\ exists = Unused /\ time = Unused /\ noPhy = Unused /\ asked = Unused /\ blind = Unused
         /\ drops = Unused

\* Another mode has one card and one content for it.  After a power loss only the volume is used.
CardInit ==
  /\ media \in IF mode = "sd" THEN MCMedia ELSE {[a \in Cell |-> "v"]}
  /\ \E c \in IF mode = "sd" THEN Card ELSE {[kind |-> "none", csd |-> 0]} : SdInit(c)
  /\ mode = "sd" => (card.kind = "sd") = (media[VarBase] = Header)
  /\ FvbInit

MCInit ==
  /\ mode \in Modes /\ losses = 0
  /\ CardInit
  /\ EspiFlashInit
  /\ IF mode = "pci" THEN MCPciInit ELSE NoPci

CardNext == \/ (Run \/ Dispatch \/ Request) /\ (losses > 0 => blk'.pc # "issue") /\ UNCHANGED losses
            \/ losses < MaxLosses /\ PowerLoss /\ losses' = losses + 1

MCNext ==
  \/ mode = "sd" /\ CardNext /\ UNCHANGED <<mode, espiVars, pciVars>>
  \/ mode = "espi" /\ EspiFlashNext /\ UNCHANGED <<mode, cardVars, pciVars>>
  \/ mode = "pci" /\ PciNext /\ UNCHANGED <<mode, cardVars, espiVars>>

\* The constructor of PciHostBridge runs to its end.
MCSpec == MCInit /\ [][MCNext]_mcVars
            /\ WF_mcVars(mode = "pci" /\ Constructor /\ UNCHANGED <<mode, cardVars, espiVars>>)

\* The properties of the components hold in every mode: the others leave them in their first
\* state, or PciHostBridge at its end.
=============================================================================
