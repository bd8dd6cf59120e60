----------------------------- MODULE MCNvFlash -----------------------------
(***************************************************************************)
(* NvFlash for TLC: a variable store of one sector and a block device of   *)
(* one.  MaxLosses bounds the power losses.                                *)
(***************************************************************************)
EXTENDS NvFlash, TLC

CONSTANTS MaxLosses, b1, fvb1, blk1

VARIABLE losses

mcVars == <<nvVars, losses>>

MCBit        == {b1}
MCHeader     == {}
MCData       == {{}}
MCEraseLists == {<<<<0, 1>>>>}
MCBlkData    == {{}, {b1}}
MCJunk       == {{}}

\* A formatted store, or one that is not, and an erased block device.
MCFlashes == {[a \in Addr |-> IF a = VarBase THEN hdr ELSE Erased] : hdr \in {MCHeader, Erased}}

MCInit ==
  /\ \E f \in MCFlashes : LibInit(f)
  /\ FvbInit /\ BlkInit
  /\ losses = 0

MCNext ==
  \/ (NvFvbRuns \/ NvFvbRequested \/ NvBlkRuns \/ NvBlkRequested) /\ UNCHANGED losses
  \/ losses < MaxLosses /\ NvPowerLoss /\ losses' = losses + 1

\* The drivers' code runs to its end; callers and power owe nothing.
MCSpec ==
  /\ MCInit /\ [][MCNext]_mcVars
  /\ WF_mcVars(NvFvbRuns /\ UNCHANGED losses)
  /\ WF_mcVars(NvBlkRuns /\ UNCHANGED losses)
=============================================================================
