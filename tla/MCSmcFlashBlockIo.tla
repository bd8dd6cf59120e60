------------------------- MODULE MCSmcFlashBlockIo -------------------------
(***************************************************************************)
(* SmcFlashBlockIoDxe for TLC: one sector below the block area and two in  *)
(* it.  The flash starts programmed, so that every write has to erase.     *)
(* MaxLosses bounds the power losses.                                      *)
(***************************************************************************)
EXTENDS SmcFlashBlockIoDxe, TLC

CONSTANTS MaxLosses, b1, blk1

VARIABLE losses

mcVars == <<libVars, blkVars, losses>>

MCBit  == {b1}
MCData == {{b1}}
MCJunk == {{}}

MCInit ==
  /\ \E f \in [Addr -> {{}}] : LibInit(f)
  /\ BlkInit
  /\ losses = 0

MCNext ==
  \/ (BlkRun \/ BlkRequest) /\ UNCHANGED losses
  \/ losses < MaxLosses /\ BlkPowerLoss /\ losses' = losses + 1

MCSpec == MCInit /\ [][MCNext]_mcVars
=============================================================================
