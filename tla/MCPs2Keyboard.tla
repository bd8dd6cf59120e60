---------------------------- MODULE MCPs2Keyboard ----------------------------
(* Ps2MultDxe for TLC: a behaviour is that of the part its mode names.  "keys" and "lights" are both     *)
(* Ps2Keyboard: without and with SetState.  The queues are short, so that a burst overflows them; the    *)
(* behaviours in which it does not are the ones most properties speak of.                                *)
EXTENDS Ps2Keyboard, Ps2MultLink, Ps2Driver

CONSTANT Modes
VARIABLE mode

NoToggles == {}
AllToggles == SUBSET {"caps"}
\* One function for two keys.  Each key has one registration: a key with two is queued twice.
TwoKeys == {[key |-> "a", fn |-> "f"], [key |-> "b", fn |-> "f"]}

\* One lock key, a call of SetState, and the timer wherever it may come.
L == INSTANCE Ps2Keyboard WITH Keys <- {"caps"}, InMax <- 2, ScanMax <- 3, KeyMax <- 1, Toggles <- AllToggles,
                               MaxEvents <- 2, MaxSets <- 1, Preempt <- TRUE
mcVars == <<vars, mode, kbdVars, linkVars>>

----------------------------------------------------------------------------
Unused == 0
NoLink == /\ outPort = Unused /\ inPort = Unused /\ escape = Unused /\ up = Unused /\ toMux = Unused /\ muxOut = Unused
          /\ muxIn = Unused /\ muxEsc = Unused /\ typed = <<>> /\ received = <<>> /\ sent = <<>> /\ obeyed = <<>>

MCInit ==
  /\ mode \in Modes
  /\ Init
  /\ KbdInit /\ (mode = "driver" \/ plugged)
  /\ IF mode = "link" THEN LinkInit ELSE NoLink

\* A step of Ps2Keyboard with the constants of the configuration.
InKeys(A) == mode = "keys" /\ A /\ UNCHANGED <<mode, kbdVars, linkVars>>

MCNext ==
  \/ InKeys(Next)
  \/ mode = "lights" /\ L!Next /\ UNCHANGED <<mode, kbdVars, linkVars>>
  \/ mode = "driver" /\ KbdNext /\ UNCHANGED <<mode, vars, linkVars>>
  \/ mode = "link" /\ LinkNext /\ UNCHANGED <<mode, vars, kbdVars>>

MCSpec == MCInit /\ [][MCNext]_mcVars

\* The fairness of LiveSpec.
MCLiveSpec ==
  /\ MCSpec
  /\ SF_mcVars(InKeys(ReadKeyStroke)) /\ WF_mcVars(InKeys(ReadKey)) /\ WF_mcVars(InKeys(KbdAnswer))
  /\ \A c \in Context : WF_mcVars(InKeys(Packet(c))) /\ SF_mcVars(InKeys(TakeFill(c)))

----------------------------------------------------------------------------
\* Ps2Keyboard: every stroke is returned, unless a byte is dropped.
StrokesArrive == <>[](mode # "keys" \/ EveryKeyArrived)
\* Ps2Keyboard: no stroke is returned that nobody made.
NoPhantom == mode = "keys" => OnlyPressedKeys
=============================================================================
