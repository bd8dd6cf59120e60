--------------------------- MODULE MCSmcFlashFvb ---------------------------
(* SmcFlashFvbDxe on a flash of eight cells for TLC: one sector below the store, a store of two, one     *)
(* sector after it (the FIP in FlashMap.h).  In mode "plain" TF-A obeys and MaxLosses bounds the power   *)
(* losses; in mode "fault" its calls may also fail, with smaller requests and no power loss.             *)
EXTENDS SmcFlashFvbDxe, TLC

CONSTANTS Modes, MaxLosses, b1, b2, fvb1

VARIABLES mode, losses

MCBit        == {b1, b2}
MCHeader     == {b1}
MCData       == {{b2}, {}}
MCEraseLists == {<<<<0, 1>>>>, <<<<1, 1>>, <<0, 1>>>>, <<<<0, 2>>>>}
MCFarLists   == {<<<<0, 1>>, <<2, 1>>>>}

F == INSTANCE SmcFlashFvbDxe WITH SmcMayFail <- TRUE, MaxLen <- 1, Data <- {{b2}}, EraseLists <- {<<<<1, 1>>, <<0, 1>>>>}

mcVars == <<libVars, fvbVars, mode, losses>>

\* A formatted store with a variable in it, an unformatted one, and one whose formatting was cut short.
MCFlashes ==
  {[a \in Addr |-> IF a = VarBase THEN hdr ELSE IF a = VarBase + 1 THEN dat ELSE {b2}]
     : hdr \in {MCHeader, Erased, {}}, dat \in {Erased, {b2}}}

MCInit ==
  /\ \E f \in MCFlashes : LibInit(f)
  /\ FvbInit
  /\ mode \in Modes /\ losses = 0

Runs == mode = "plain" /\ FvbRun /\ UNCHANGED <<mode, losses>>

MCNext ==
  \/ Runs
  \/ mode = "plain" /\ FvbRequest /\ UNCHANGED <<mode, losses>>
  \/ mode = "plain" /\ losses < MaxLosses /\ FvbPowerLoss /\ losses' = losses + 1 /\ UNCHANGED mode
  \/ mode = "fault" /\ (F!FvbRun \/ F!FvbRequest) /\ UNCHANGED <<mode, losses>>

\* The driver's code runs to its end; callers and power owe nothing.
MCSpec == MCInit /\ [][MCNext]_mcVars /\ WF_mcVars(Runs)

----------------------------------------------------------------------------
\* A boot ends with a store that the variable driver accepts.
BootEnds == (mode = "plain" /\ fvb.pc = "off") ~> (fvb.pc = "absent" \/ (fvb.pc = "ready" /\ ValidHeader(Store)))
=============================================================================
