------------------------------ MODULE NvFlash ------------------------------
(***************************************************************************)
(* The variable store and the block device on one flash, one library and   *)
(* one TF-A bounce buffer.                                                 *)
(*                                                                         *)
(* There is one processor.  The variable driver raises the task priority   *)
(* around its use of SmcFlashFvbDxe, so nothing else runs during an FVB    *)
(* request; SmcFlashBlockIoDxe raises nothing, so an event at a higher     *)
(* priority may set a variable between two of its monitor calls.           *)
(***************************************************************************)
EXTENDS SmcFlashFvbDxe, SmcFlashBlockIoDxe

ASSUME AreasAssumption ==
  /\ Fvb # Blk /\ Client = {Fvb, Blk}
  /\ VarBase + VarSize <= MapBlock

nvVars == <<libVars, fvbVars, blkVars>>

FvbBusy == fvb.pc \notin {"off", "absent", "ready"}
BlkBusy == blk.pc \notin {"off", "absent", "ready"}

\* Entry points run one after the other, and while no request is served.
NvFvbRuns ==
  /\ fvb.pc = "off" => ~BlkBusy
  /\ FvbRun
  /\ UNCHANGED blkVars

NvFvbRequested ==
  /\ ~FvbBusy
  /\ FvbRequest
  /\ UNCHANGED blkVars

\* Mutant: the lower priority runs while the higher one is in a request.
NvBlkRunsAnytime ==
  /\ BlkRun
  /\ UNCHANGED fvbVars

NvBlkRuns ==
  /\ ~FvbBusy
  /\ BlkRun
  /\ UNCHANGED fvbVars

NvBlkRequested ==
  /\ ~FvbBusy
  /\ BlkRequest
  /\ UNCHANGED fvbVars

NvPowerLoss == LibPowerLoss /\ FvbReset /\ BlkReset

NvNext ==
  NvFvbRuns \/ NvFvbRequested \/ NvBlkRuns \/ NvBlkRequested \/ NvPowerLoss

NvSpec ==
  /\ \E f \in [Addr -> Cell] : LibInit(f)
  /\ FvbInit /\ BlkInit
  /\ [][NvNext]_nvVars

----------------------------------------------------------------------------
\* Only the FVB driver's calls change the variable store, only the block
\* driver's calls change the block area, and nothing changes the rest of the
\* flash, whoever preempts whom and whenever the power fails.
AreasKeptApart ==
  [][\A a \in Addr : flash'[a] # flash[a] =>
       \/ a \in VarArea /\ Changing(Fvb)
       \/ a >= MapBlock /\ Changing(Blk)]_nvVars
=============================================================================
