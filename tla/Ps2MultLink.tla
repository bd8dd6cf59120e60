---------------------------- MODULE Ps2MultLink ----------------------------
(* The serial line of Ps2MultDxe carries the bytes of keyboard and mouse.  A selector names the port of  *)
(* what follows, and a data byte that looks like a control is escaped.  The multiplexer is external.     *)
EXTENDS Naturals, SequencesExt

CONSTANTS Data,     \* data bytes, some of them equal to controls
          MaxBytes, \* bound on bytes in each direction
          Restart   \* may a session start while mouse bytes are on the line?

VARIABLES outPort, inPort, escape, \* Dev->OutPort, InPort, Escape
          up, toMux,                \* bytes on the line, to the host and to the multiplexer
          muxOut, muxIn, muxEsc,   \* the multiplexer's ports and escape
          typed, received,         \* history: bytes of the keyboard; what PushInputDataTail got
          sent, obeyed             \* history: bytes of the host; what the keyboard got
linkVars == <<outPort, inPort, escape, up, toMux, muxOut, muxIn, muxEsc, typed, received, sent, obeyed>>

Selector == [kbd |-> "KB", mouse |-> "MS"]
Controls == {"KB", "MS", "ESC", "BSYNC", "START", "END"}
Coded(b) == IF b \in Controls THEN <<"ESC", b>> ELSE <<b>>

LinkInit == /\ outPort = "kbd" /\ inPort = "kbd" /\ escape = FALSE /\ up = <<>> /\ toMux = <<>>
            /\ muxOut = "kbd" /\ muxIn = "kbd" /\ muxEsc = FALSE
            /\ typed = <<>> /\ received = <<>> /\ sent = <<>> /\ obeyed = <<>>

----------------------------------------------------------------------------
Frame(from, port, b) == (IF from # port THEN <<Selector[port]>> ELSE <<>>) \o Coded(b)

\* The multiplexer passes on a byte of one of its ports.
MuxSends(port, b) ==
  /\ Len(typed) < MaxBytes /\ Len(up) < 4
  /\ up' = up \o Frame(muxOut, port, b) /\ muxOut' = port
  /\ typed' = IF port = "kbd" THEN Append(typed, b) ELSE typed
  /\ UNCHANGED <<outPort, inPort, escape, toMux, muxIn, muxEsc, received, sent, obeyed>>

Decoded(b, esc, port, other, old) ==
  IF esc \/ b \notin Controls
  THEN [esc |-> FALSE, port |-> port, data |-> IF port = "kbd" THEN Append(old, b) ELSE old]
  ELSE [esc |-> b = "ESC", data |-> old,
        port |-> CASE b = "BSYNC" -> other [] b = "KB" -> "kbd" [] b = "MS" -> "mouse" [] OTHER -> port]

\* One turn of the loop of Ps2MultFillDataQueue.
FillPushesAll(b) == [Decoded(b, escape, inPort, outPort, received) EXCEPT
                       !.data = IF escape THEN Append(received, b) ELSE @]
Turn(b) == Decoded(b, escape, inPort, outPort, received)
Ps2MultFillDataQueue ==
  /\ up # <<>> /\ up' = Tail(up)
  /\ LET d == Turn(Head(up)) IN escape' = d.esc /\ inPort' = d.port /\ received' = d.data
  /\ UNCHANGED <<outPort, toMux, muxOut, muxIn, muxEsc, typed, sent, obeyed>>

KeyWriteData(b) ==
  /\ Len(sent) < MaxBytes
  /\ toMux' = toMux \o Frame(outPort, "kbd", b) /\ outPort' = "kbd" /\ sent' = Append(sent, b)
  /\ UNCHANGED <<inPort, escape, up, muxOut, muxIn, muxEsc, typed, received, obeyed>>

MuxReceives ==
  /\ toMux # <<>> /\ toMux' = Tail(toMux)
  /\ LET d == Decoded(Head(toMux), muxEsc, muxIn, muxOut, obeyed)
     IN muxEsc' = d.esc /\ muxIn' = (IF Head(toMux) = "START" /\ ~muxEsc THEN "kbd" ELSE d.port) /\ obeyed' = d.data
  /\ UNCHANGED <<outPort, inPort, escape, up, muxOut, typed, received, sent>>

\* Every check for the keyboard starts a session; what is on the line is taken for the keyboard's.
Ps2MultStart ==
  /\ Len(toMux) < 2 /\ (Restart \/ (up = <<>> /\ muxOut = "kbd"))
  /\ outPort' = "kbd" /\ inPort' = "kbd" /\ toMux' = Append(toMux, "START")
  /\ UNCHANGED <<escape, up, muxOut, muxIn, muxEsc, typed, received, sent, obeyed>>

LinkNext == \/ Ps2MultFillDataQueue \/ MuxReceives \/ Ps2MultStart
            \/ \E b \in Data : KeyWriteData(b) \/ (\E port \in {"kbd", "mouse"} : MuxSends(port, b))

LinkSpec == LinkInit /\ [][LinkNext]_linkVars

----------------------------------------------------------------------------
(* What the input queue is given are bytes of the keyboard, each once, unescaped and in order, never     *)
(* those of the mouse; and so for the commands on their way down.                                        *)
PortsKeptApart == IsPrefix(received, typed) /\ IsPrefix(obeyed, sent)
============================================================================
