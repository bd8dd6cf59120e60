----------------------------- MODULE Ps2Driver -----------------------------
(* Ps2MultDxe from the outside: the driver binding, Reset, and the functions that other drivers register *)
(* for a key.  What the bytes of a key mean is in Ps2Keyboard.  Each call of the binding runs to its end  *)
(* before a timer event or another call; the notification functions run later, from an event.            *)
EXTENDS Integers, FiniteSets, SequencesExt

CONSTANTS Regs,      \* what may be registered: [key, fn]
          QueueMax,  \* keys the queue for notification holds
          MaxKeys,   \* bound on keys pressed
          Thorough,  \* values of ExtendedVerification that callers of Reset use
          MayRefuse  \* may protocols fail to be installed or removed?

ASSUME DriverAssumption == QueueMax \in Nat \ {0}

VARIABLES dev,     \* the device structure is allocated
          bound,   \* the events that point to it
          polled,  \* the timer runs
          offered, \* its protocols are installed
          working, \* Dev->KeyboardEnabled
          err,     \* Dev->KeyboardErr
          plugged, \* the keyboard answers
          list,    \* Dev->NotifyList
          nq,      \* Dev->EfiKeyQueueForNotify
          signalled, \* KeyNotifyProcessEvent
          keys,    \* keys pressed
          balance, \* history: for each registration, matching keys not yet reported
          status   \* of the last Reset
kbdVars == <<dev, bound, polled, offered, working, err, plugged, list, nq, signalled, keys, balance, status>>

None == [r \in Regs |-> 0]
KbdInit == /\ dev = FALSE /\ bound = {} /\ polled = FALSE /\ offered = FALSE /\ working = FALSE /\ err = FALSE
           /\ plugged \in BOOLEAN /\ list = <<>> /\ nq = <<>> /\ signalled = FALSE
           /\ keys = 0 /\ balance = None /\ status = "none"

----------------------------------------------------------------------------
(* InitKeyboard.  The loop that empties the queue ends with the status of a read that found nothing;     *)
(* only the commands of the thorough test replace it.                                                    *)
CheckKeyboardConnect == plugged
InitKeyboard(ext) ==
  {[drained |-> FALSE, ok |-> FALSE, err |-> FALSE]} \* more bytes than the loop reads
  \cup (IF ext /\ CheckKeyboardConnect
        THEN {[drained |-> TRUE, ok |-> good, err |-> ~good] : good \in BOOLEAN} \* any of seven commands
       
        ELSE {[drained |-> TRUE, ok |-> FALSE, err |-> FALSE]})

----------------------------------------------------------------------------
(* Driver binding. *)

KeyEvents == <<"wait", "waitEx", "notify">>
CloseEvents(E) == E \ Range(KeyEvents)
FreeDev == dev' = FALSE /\ working' = FALSE /\ list' = <<>> /\ nq' = <<>>

\* Start failed before the keyboard was enabled: KeyboardErrorExit closes what was created.
StartFails ==
  /\ ~dev /\ bound = {}
  /\ \E made \in 0..3 : bound' = CloseEvents({KeyEvents[i] : i \in 1..made})
  /\ UNCHANGED <<dev, polled, offered, working, err, plugged, list, nq, signalled, keys, balance, status>>

\* Ps2MultKeyboardDeinit: a protocol that is not removed ends it, the events stay.
Deinit(removed) == IF removed THEN CloseEvents(bound \ {"timer"}) ELSE bound \ {"timer"}

\* Everything up to the protocols succeeded; the status of Ps2MultPollStart is not looked at.
DriverStart ==
  /\ ~dev /\ bound = {} /\ plugged
  /\ \/ /\ dev' = TRUE /\ offered' = TRUE /\ working' = TRUE /\ err' = FALSE /\ polled' \in BOOLEAN
        /\ bound' = Range(KeyEvents) \cup {"timer"} /\ list' = <<>> /\ nq' = <<>> /\ balance' = None
     \/ /\ MayRefuse \* not installed, so not removed either
        /\ bound' = Range(KeyEvents)
        /\ UNCHANGED <<dev, polled, offered, working, err, list, nq, balance>>
  /\ signalled' = FALSE /\ status' = "none" /\ UNCHANGED <<plugged, keys>>

DriverStop ==
  /\ dev /\ offered /\ polled' = FALSE
  /\ \E removed \in {TRUE} \cup (IF MayRefuse THEN {FALSE} ELSE {}) :
       bound' = (IF working THEN Deinit(removed) ELSE bound \ {"timer"}) /\ offered' = (working => ~removed)
  /\ FreeDev /\ signalled' = FALSE /\ balance' = None
  /\ UNCHANGED <<err, plugged, keys, status>>

----------------------------------------------------------------------------
(* Reset. *)

KeyboardEfiReset(ext) ==
  /\ dev /\ offered /\ ~err
  /\ \E r \in InitKeyboard(ext) :
       /\ working' = r.ok /\ err' = r.err
       /\ status' = IF r.ok THEN "success" ELSE IF r.drained THEN "device error" ELSE "stuck"
       /\ nq' = IF r.drained THEN <<>> ELSE nq
  /\ UNCHANGED <<dev, bound, polled, offered, plugged, list, signalled, keys, balance>>

Replug == /\ plugged' = ~plugged
          /\ UNCHANGED <<dev, bound, polled, offered, working, err, list, nq, signalled, keys, balance, status>>

----------------------------------------------------------------------------
(* Functions for a key. *)

Registered(r) == \E i \in DOMAIN list : list[i] = r
RegisterAlways(r) == list' = Append(list, r)
RegisterNew(r) == list' = IF Registered(r) THEN list ELSE Append(list, r)
KeyboardRegisterKeyNotify(r) ==
  /\ dev /\ offered /\ Len(list) < 3 /\ RegisterNew(r)
  /\ UNCHANGED <<dev, bound, polled, offered, working, err, plugged, nq, signalled, keys, balance, status>>

KeyboardUnregisterKeyNotify(r) ==
  /\ dev /\ offered /\ Registered(r)
  /\ list' = RemoveAt(list, CHOOSE i \in DOMAIN list : list[i] = r)
  /\ UNCHANGED <<dev, bound, polled, offered, working, err, plugged, nq, signalled, keys, balance, status>>

\* The end of KeyGetchar: the key is queued once for every registration that it matches; the oldest keys make room.
Matching(k) == {i \in DOMAIN list : list[i].key = k}
Queued(q, k, n) ==
  LET s == q \o [i \in 1..n |-> k]
  IN SubSeq(s, (IF Len(s) > QueueMax THEN Len(s) - QueueMax ELSE 0) + 1, Len(s))
KeyPressed(k) ==
  /\ dev /\ working /\ ~err /\ polled /\ plugged /\ keys < MaxKeys /\ keys' = keys + 1
  /\ nq' = Queued(nq, k, Cardinality(Matching(k)))
  /\ signalled' = (signalled \/ Matching(k) # {})
  /\ balance' = [r \in Regs |-> IF r.key = k /\ Registered(r) THEN balance[r] + 1 ELSE balance[r]]
  /\ UNCHANGED <<dev, bound, polled, offered, working, err, plugged, list, status>>

\* KeyNotifyProcessHandler: one turn of its loop; each may be preceded by a key or a registration.
KeyNotifyProcessHandler ==
  /\ dev /\ signalled /\ "notify" \in bound
  /\ \/ nq = <<>> /\ signalled' = FALSE /\ UNCHANGED <<nq, balance>>
     \/ /\ nq # <<>> /\ nq' = Tail(nq) /\ UNCHANGED signalled
        /\ balance' = [r \in Regs |-> balance[r] -
                         Cardinality({i \in DOMAIN list : list[i] = r /\ r.key = Head(nq)})]
  /\ UNCHANGED <<dev, bound, polled, offered, working, err, plugged, list, keys, status>>

KbdNext ==
  \/ StartFails \/ DriverStart \/ DriverStop \/ Replug \/ KeyNotifyProcessHandler
  \/ \E ext \in Thorough : KeyboardEfiReset(ext)
  \/ \E r \in Regs : KeyboardRegisterKeyNotify(r) \/ KeyboardUnregisterKeyNotify(r) \/ KeyPressed(r.key)

KbdSpec == KbdInit /\ [][KbdNext]_kbdVars

----------------------------------------------------------------------------
(* A function is called at most once for each stroke of its key, however registrations, strokes and the  *)
(* queue between the two task priorities interleave.  Regs gives each key one function: a key with two  *)
(* is queued once for each, and then both are called for each copy.                                      *)
NotifiedOncePerKey == \A r \in Regs : balance[r] >= 0

(* No event keeps a pointer to a device structure that was freed, on any way out of Start and Stop.      *)
(* False for the code, and so in no passing run: the error paths of DriverStop free the device too soon.  *)
EventsHaveDevice == bound # {} => dev

(* "we need to let the InitKB succeed no matter whether there is a KB device connected to system"         *)
(* (Ps2KbdCtrller.c:979): Reset fails only for a keyboard that failed a command.  False for the code: the *)
(* loop that empties the input leaves the status of the read that found nothing.                          *)
ResetNeedsNoKeyboard == status = "device error" => err
============================================================================
