----------------------------- MODULE Ps2Keyboard -----------------------------
(***************************************************************************)
(* The way of a key stroke through Ps2MultDxe: the bytes of the keyboard   *)
(* arrive in the UART, KeyboardGetPacket moves them to the scan code queue *)
(* and decodes one key, ReadKeyStroke returns it.                          *)
(*                                                                         *)
(* The packet code runs in two contexts: "app" is a caller at              *)
(* TPL_APPLICATION, "timer" the timer event at TPL_CALLBACK, which         *)
(* preempts the first wherever that has not raised its task priority.      *)
(* An access to a queue is one step.                                       *)
(***************************************************************************)
EXTENDS Naturals, FiniteSets, SequencesExt

CONSTANTS
  Keys,       \* the keys of the keyboard in use, among AllKeys
  InMax,      \* elements the input data queue holds
  ScanMax,    \* elements the scan code queue holds
  KeyMax,     \* elements the EFI key queue holds
  Toggles,    \* the lock states SetState is called with
  MaxEvents,  \* bound on presses and releases
  MaxSets,    \* bound on calls of SetState
  Preempt     \* may the timer preempt the application?

AllKeys == {"slash", "kpslash", "shift", "caps", "pause"}

ASSUME KeyboardAssumption ==
  /\ Keys \subseteq AllKeys
  /\ {InMax, ScanMax, KeyMax, MaxEvents, MaxSets} \subseteq Nat
  /\ InMax > 0 /\ ScanMax > 2 /\ KeyMax > 0
  /\ Toggles \subseteq SUBSET {"caps", "num"}
  /\ Preempt \in BOOLEAN

VARIABLES
  held,       \* keys that are down
  awaited,    \* history: key strokes the user made that were not returned yet
  events,     \* history: presses and releases so far
  wire,       \* bytes the keyboard sent that are not read from the UART
  down,       \* commands on their way to the keyboard
  leds,       \* the lights that are on
  inq,        \* Dev->KeyboardInputData
  scanq,      \* Dev->ScancodeQueue
  keyq,       \* Dev->EfiKeyQueue
  mods,       \* Dev->LeftShift, LeftCtrl
  locks,      \* Dev->CapsLock, NumLock
  enabled,    \* Dev->KeyboardEnabled
  pc,         \* where each context is
  hand,       \* the byte each context took and has not stored
  sets,       \* calls of SetState so far
  phantom,    \* history: was a key stroke returned that nobody made?
  lost        \* history: has the driver dropped a byte or a key?

userVars  == <<held, awaited, events>>
queueVars == <<inq, scanq, keyq>>
stateVars == <<mods, locks, enabled>>
ctxVars   == <<pc, hand, sets, phantom>>
vars == <<userVars, wire, down, leds, queueVars, stateVars, ctxVars, lost>>

Context == {"app", "timer"}

\* Scan code set 2, and the answer to a command.
Byte == {"4A", "12", "14", "58", "77", "E0", "E1", "F0", "ACK"}

----------------------------------------------------------------------------
(***************************************************************************)
(* The keyboard and its user.                                              *)
(***************************************************************************)
MakeOf ==
  [slash |-> <<"4A">>, kpslash |-> <<"E0", "4A">>, shift |-> <<"12">>,
   caps |-> <<"58">>,
   pause |-> <<"E1", "14", "77", "E1", "F0", "14", "F0", "77">>]

BreakOf ==
  [slash |-> <<"F0", "4A">>, kpslash |-> <<"E0", "F0", "4A">>,
   shift |-> <<"F0", "12">>, caps |-> <<"F0", "58">>, pause |-> <<>>]

\* The keys that make a key stroke by themselves.
Typing == {"slash", "kpslash", "pause"}

\* The bound on what the user does: nothing more once a byte is lost.
UserActs == events < MaxEvents /\ ~lost

KbdPress(k) ==
  /\ UserActs /\ k \notin held
  /\ events' = events + 1
  /\ held' = held \cup {k}
  /\ wire' = wire \o MakeOf[k]
  /\ awaited' = IF k \in Typing
                THEN Append(awaited, [key |-> k, mods |-> held \cap {"shift"}])
                ELSE awaited
  /\ UNCHANGED <<down, leds, queueVars, stateVars, ctxVars, lost>>

KbdRelease(k) ==
  /\ UserActs /\ k \in held
  /\ events' = events + 1
  /\ held' = held \ {k}
  /\ wire' = wire \o BreakOf[k]
  /\ UNCHANGED <<awaited, down, leds, queueVars, stateVars, ctxVars, lost>>

\* The keyboard carries out a command of LED_SETUP and acknowledges it.
KbdAnswer ==
  /\ down # <<>>
  /\ down' = Tail(down)
  /\ leds' = IF Head(down).cmd = "lights" THEN Head(down).arg ELSE leds
  /\ wire' = Append(wire, "ACK")
  /\ UNCHANGED <<userVars, queueVars, stateVars, ctxVars, lost>>

----------------------------------------------------------------------------
(***************************************************************************)
(* Who runs: the timer waits for code at TPL_CALLBACK or above, and the    *)
(* application for the timer.                                              *)
(***************************************************************************)
Interruptible == {"idle"} \cup IF Preempt THEN {"take", "push", "lights", "read"} ELSE {}

Runs(c) == c = "timer" \/ pc["timer"] = "idle"

Goto(c, l) == pc' = [pc EXCEPT ![c] = l]

\* Where a context continues after KeyboardGetPacket.
AfterPacket(c) == IF c = "app" THEN "read" ELSE "idle"

\* Ps2MultTimerHandler as the timer event
TimerFires ==
  /\ pc["timer"] = "idle" /\ pc["app"] \in Interruptible
  /\ enabled
  /\ Goto("timer", "take")
  /\ UNCHANGED <<userVars, wire, down, leds, queueVars, stateVars, hand, sets, phantom, lost>>

\* ReadKeyStroke, which calls Ps2MultTimerHandler first
ReadKeyStroke ==
  /\ pc["app"] = "idle" /\ Runs("app")
  /\ Goto("app", IF enabled THEN "take" ELSE "read")
  /\ UNCHANGED <<userVars, wire, down, leds, queueVars, stateVars, hand, sets, phantom, lost>>

\* PopEfikeyBufHead at the end of ReadKeyStroke
ReadKey ==
  /\ pc["app"] = "read" /\ Runs("app")
  /\ IF keyq = <<>> THEN UNCHANGED <<keyq, awaited, phantom>>
     ELSE /\ keyq' = Tail(keyq)
          /\ LET made == {i \in DOMAIN awaited : awaited[i].key = Head(keyq).key} IN
             IF made = {} THEN phantom' = TRUE /\ UNCHANGED awaited
             ELSE awaited' = RemoveAt(awaited, Min(made)) /\ UNCHANGED phantom
  /\ Goto("app", "idle")
  /\ UNCHANGED <<held, events, wire, down, leds, inq, scanq, stateVars, hand, sets, lost>>

\* SetState up to its call of UpdateStatusLights
SetState(v) ==
  /\ pc["app"] = "idle" /\ Runs("app") /\ sets < MaxSets
  /\ sets' = sets + 1
  /\ enabled' = FALSE
  /\ locks' = v
  /\ Goto("app", "lights")
  /\ UNCHANGED <<userVars, wire, down, leds, queueVars, mods, hand, phantom, lost>>

----------------------------------------------------------------------------
(***************************************************************************)
(* The input data queue.  It is filled only when it is empty and           *)
(* PS2MULT_RX_DELAY has passed, with whatever has arrived by then.         *)
(***************************************************************************)
Newest(s, max) == SubSeq(s, IF Len(s) > max THEN Len(s) - max + 1 ELSE 1, Len(s))

Codes(s) == {i \in DOMAIN s : s[i] # "ACK"}

\* Ps2MultTryFillDataQueue, with n bytes in the UART
Fill(n) ==
  /\ inq = <<>>
  /\ inq' = Newest(SubSeq(wire, 1, n), InMax)
  /\ wire' = SubSeq(wire, n + 1, Len(wire))
  /\ lost' = (lost \/ n > InMax)

\* KeyReadData in the loop of KeyboardGetPacket, and the push that follows
TakeFill(c) ==
  /\ pc[c] = "take" /\ Runs(c)
  /\ \E n \in 1 .. Len(wire) : Fill(n)
  /\ UNCHANGED <<userVars, down, leds, scanq, keyq, stateVars, ctxVars>>

TakeByte(c) ==
  /\ pc[c] = "take" /\ Runs(c)
  /\ inq # <<>>
  /\ hand' = [hand EXCEPT ![c] = Head(inq)]
  /\ inq' = Tail(inq)
  /\ Goto(c, "push")
  /\ UNCHANGED <<userVars, wire, down, leds, scanq, keyq, stateVars, sets, phantom, lost>>

PushScancode(c) ==
  /\ pc[c] = "push" /\ Runs(c)
  /\ scanq' = Newest(Append(scanq, hand[c]), ScanMax)
  /\ lost' = (lost \/ Len(scanq) = ScanMax)
  /\ hand' = [hand EXCEPT ![c] = "none"]
  /\ Goto(c, "take")
  /\ UNCHANGED <<userVars, wire, down, leds, inq, keyq, stateVars, sets, phantom>>

TakeNothing(c) ==
  /\ pc[c] = "take" /\ Runs(c)
  /\ inq = <<>>
  /\ Goto(c, "getchar")
  /\ UNCHANGED <<userVars, wire, down, leds, queueVars, stateVars, hand, sets, phantom, lost>>

----------------------------------------------------------------------------
(***************************************************************************)
(* KeyGetchar, at TPL_NOTIFY.                                              *)
(***************************************************************************)
\* Mutant: PAUSE is looked up one byte too early.
StartNoE1(q) == IF q[1] \in {"E0", "E1"} THEN 2 ELSE 1

\* Place of the break mark or of the code behind a prefix.
Start(q) == IF q[1] = "E0" THEN 2 ELSE IF q[1] = "E1" THEN 3 ELSE 1

\* The key at the head of the queue, if all of it is there.
Complete(q) == /\ q # <<>>
               /\ Len(q) >= Start(q)
               /\ q[Start(q)] = "F0" => Len(q) > Start(q)

HeadKey(q) ==
  LET brk == q[Start(q)] = "F0"
      len == IF brk THEN Start(q) + 1 ELSE Start(q)
  IN [len |-> len, break |-> brk, code |-> q[len], prefix |-> IF q[1] \in {"E0", "E1"} THEN q[1] ELSE "none"]

FakeShift(k) == k.prefix = "E0" /\ k.code = "12"

\* The modifier and the lock a key stands for.
ModOf(k) ==
  IF k.prefix = "E1" \/ FakeShift(k) THEN {}
  ELSE CASE k.code = "12" -> {"shift"} [] k.code = "14" -> {"ctrl"} [] OTHER -> {}

LockOf(k) ==
  IF k.prefix = "E1" \/ k.break THEN {}
  ELSE CASE k.code = "58" -> {"caps"} [] k.code = "77" -> {"num"} [] OTHER -> {}

\* Mutant: the prefix of PAUSE is not seen.
ConvertedNoPause(k) ==
  CASE k.prefix = "E0" /\ k.code = "4A" -> {"kpslash"}
    [] k.prefix # "E0" /\ k.code = "4A" -> {"slash"}
    [] OTHER -> {}

\* The key stroke a scan code converts to.
Converted(k) ==
  CASE k.prefix = "E0" /\ k.code = "4A" -> {"kpslash"}
    [] k.prefix # "E0" /\ k.code = "4A" -> {"slash"}
    [] k.prefix = "E1" /\ k.code = "77" -> {"pause"}
    [] OTHER -> {}

\* A key is taken from the queue and the driver's state follows it.
PopKeyCode(k) ==
  /\ scanq' = SubSeq(scanq, k.len + 1, Len(scanq))
  /\ mods' = IF k.break THEN mods \ ModOf(k) ELSE mods \cup ModOf(k)
  /\ locks' = SymDiff(locks, LockOf(k))

\* A release, or the second half of PRINT SCREEN: look at the next key.
GetcharSkip(c) ==
  /\ pc[c] = "getchar" /\ Runs(c)
  /\ Complete(scanq)
  /\ LET k == HeadKey(scanq) IN
     /\ k.break \/ FakeShift(k)
     /\ PopKeyCode(k)
  /\ UNCHANGED <<userVars, wire, down, leds, inq, keyq, enabled, ctxVars, lost>>

\* Behind KeyGetchar: the lights, if a lock changed.
GetcharReturn(c, lights) == Goto(c, IF lights THEN "lights" ELSE AfterPacket(c))

GetcharKey(c) ==
  /\ pc[c] = "getchar" /\ Runs(c)
  /\ Complete(scanq)
  /\ LET k == HeadKey(scanq) IN
     /\ ~k.break /\ ~FakeShift(k)
     /\ PopKeyCode(k)
     /\ IF Converted(k) = {} THEN UNCHANGED <<keyq, lost>>
        ELSE \E key \in Converted(k) :
             /\ keyq' = Newest(Append(keyq, [key |-> key, mods |-> mods]), KeyMax)
             /\ lost' = (lost \/ Len(keyq) = KeyMax)
     /\ GetcharReturn(c, LockOf(k) # {})
  /\ UNCHANGED <<userVars, wire, down, leds, inq, enabled, hand, sets, phantom>>

GetcharNothing(c) ==
  /\ pc[c] = "getchar" /\ Runs(c)
  /\ ~Complete(scanq)
  /\ GetcharReturn(c, FALSE)
  /\ UNCHANGED <<userVars, wire, down, leds, queueVars, stateVars, hand, sets, phantom, lost>>

----------------------------------------------------------------------------
(***************************************************************************)
(* UpdateStatusLights, at TPL_CALLBACK: two bytes for the keyboard, each   *)
(* behind a purge of the input and in front of a wait for the answer.      *)
(* Results of the waits are dropped.                                       *)
(***************************************************************************)
\* KeyboardWrite: the queue is emptied, filled once more and emptied again.
KeyboardWrite(command) ==
  /\ \E n \in 0 .. Len(wire) :
       /\ wire' = SubSeq(wire, n + 1, Len(wire))
       /\ lost' = (lost \/ Codes(inq \o SubSeq(wire, 1, n)) # {})
  /\ inq' = <<>>
  /\ down' = Append(down, command)

LightsSetup(c) ==
  /\ pc[c] = "lights" /\ Runs(c)
  /\ KeyboardWrite([cmd |-> "setup"])
  /\ Goto(c, "ack1")
  /\ UNCHANGED <<userVars, leds, scanq, keyq, stateVars, hand, sets, phantom>>

LightsCommand(c) ==
  /\ pc[c] = "command" /\ Runs(c)
  /\ KeyboardWrite([cmd |-> "lights", arg |-> locks])
  /\ Goto(c, "ack2")
  /\ UNCHANGED <<userVars, leds, scanq, keyq, stateVars, hand, sets, phantom>>

\* The first wait is over, or the second, which ends UpdateStatusLights and,
\* in the application, the SetState that called it or the packet.
Waited(c) ==
  \/ /\ pc[c] = "ack1"
     /\ Goto(c, "command")
     /\ UNCHANGED enabled
  \/ /\ pc[c] = "ack2"
     /\ Goto(c, IF enabled THEN AfterPacket(c) ELSE "idle")
     /\ enabled' = TRUE

\* KeyboardWaitForValue
AckFill(c) ==
  /\ pc[c] \in {"ack1", "ack2"} /\ Runs(c)
  /\ \E n \in 1 .. Len(wire) : Fill(n)
  /\ UNCHANGED <<userVars, down, leds, scanq, keyq, stateVars, ctxVars>>

AckByte(c) ==
  /\ pc[c] \in {"ack1", "ack2"} /\ Runs(c)
  /\ inq # <<>>
  /\ inq' = Tail(inq)
  /\ IF Head(inq) = "ACK" THEN Waited(c) /\ UNCHANGED lost
     ELSE lost' = TRUE /\ UNCHANGED <<pc, enabled>>
  /\ UNCHANGED <<userVars, wire, down, leds, scanq, keyq, mods, locks, hand, sets, phantom>>

\* Mutant: without an answer to its first byte the command is given up.
AckTimeoutGivesUp(c) ==
  /\ inq = <<>> /\ Runs(c)
  /\ pc[c] \in {"ack1", "ack2"}
  /\ Goto(c, IF enabled THEN AfterPacket(c) ELSE "idle")
  /\ enabled' = TRUE
  /\ UNCHANGED <<userVars, wire, down, leds, queueVars, mods, locks, hand, sets, phantom, lost>>

AckTimeout(c) ==
  /\ inq = <<>> /\ Runs(c)
  /\ Waited(c)
  /\ UNCHANGED <<userVars, wire, down, leds, queueVars, mods, locks, hand, sets, phantom, lost>>

----------------------------------------------------------------------------
Init ==
  /\ held = {} /\ awaited = <<>> /\ events = 0
  /\ wire = <<>> /\ down = <<>> /\ leds = {}
  /\ inq = <<>> /\ scanq = <<>> /\ keyq = <<>>
  /\ mods = {} /\ locks = {} /\ enabled = TRUE
  /\ pc = [c \in Context |-> "idle"]
  /\ hand = [c \in Context |-> "none"]
  /\ sets = 0 /\ phantom = FALSE /\ lost = FALSE

User == \E k \in Keys : KbdPress(k) \/ KbdRelease(k)

Packet(c) ==
  \/ TakeFill(c) \/ TakeByte(c) \/ PushScancode(c) \/ TakeNothing(c)
  \/ GetcharSkip(c) \/ GetcharKey(c) \/ GetcharNothing(c)
  \/ LightsSetup(c) \/ LightsCommand(c)
  \/ AckFill(c) \/ AckByte(c) \/ AckTimeout(c)

Next ==
  \/ User
  \/ KbdAnswer
  \/ TimerFires
  \/ ReadKeyStroke \/ ReadKey
  \/ \E v \in Toggles : SetState(v)
  \/ \E c \in Context : Packet(c)

Spec == Init /\ [][Next]_vars

\* Code that runs goes on, the timer leaves the application time to read again
\* and again, and a UART that stays filled is read once PS2MULT_RX_DELAY is over.
LiveSpec ==
  /\ Spec
  /\ SF_vars(ReadKeyStroke) /\ WF_vars(ReadKey)
  /\ WF_vars(KbdAnswer)
  /\ \A c \in Context : WF_vars(Packet(c)) /\ SF_vars(TakeFill(c))

----------------------------------------------------------------------------
(***************************************************************************)
(* Properties.                                                             *)
(***************************************************************************)
KeyStroke == [key : AllKeys, mods : SUBSET {"shift", "ctrl"}]

Command == {[cmd |-> "setup"]} \cup [cmd : {"lights"}, arg : SUBSET {"caps", "num"}]

KbdTypeOK ==
  /\ held \subseteq AllKeys /\ awaited \in Seq(KeyStroke) /\ events \in Nat
  /\ wire \in Seq(Byte) /\ down \in Seq(Command) /\ leds \subseteq {"caps", "num"}
  /\ inq \in Seq(Byte) /\ Len(inq) <= InMax
  /\ scanq \in Seq(Byte) /\ Len(scanq) <= ScanMax
  /\ keyq \in Seq(KeyStroke) /\ Len(keyq) <= KeyMax
  /\ mods \subseteq {"shift", "ctrl"} /\ locks \subseteq {"caps", "num"}
  /\ enabled \in BOOLEAN /\ lost \in BOOLEAN
  /\ pc \in [Context -> {"idle", "take", "push", "getchar", "lights", "ack1",
                         "command", "ack2", "read"}]
  /\ hand \in [Context -> Byte \cup {"none"}] /\ phantom \in BOOLEAN
  /\ \A c \in Context : pc[c] = "push" => hand[c] \in Byte

\* As long as no byte is dropped, the application receives the key strokes the
\* user made, in order, each with the modifiers that were down then
\* (KeyGetchar, ReadKeyStroke).
KeysAsPressed == ~lost => IsPrefix(keyq, awaited)

\* Every state is one the driver can be in, and the strokes returned are those
\* made (KeyGetchar, ReadKeyStroke).
StrokesAsMade == KbdTypeOK /\ KeysAsPressed

\* No key is delivered more often than it was pressed: "KeyData  A pointer to a
\* buffer that is filled in with the keystroke state data for the key that was
\* pressed" (KeyboardReadKeyStrokeEx).
OnlyPressedKeys == ~phantom

\* Whenever nobody is about to change them, the lights show the locks: also
\* when the timer changed a lock while the application was about to show
\* another one (UpdateStatusLights, SetState).
LightsFollowLocks ==
  (down = <<>> /\ \A c \in Context : pc[c] \notin {"lights", "ack1", "command", "ack2"})
    => leds = locks

\* Every key the user pressed reaches the application, unless a byte is dropped.
EveryKeyArrived == awaited = <<>> \/ lost
EveryKeyArrives == <>[]EveryKeyArrived
=============================================================================
