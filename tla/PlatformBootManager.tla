------------------------ MODULE PlatformBootManager ------------------------
(* PlatformBootManagerLib: what the firmware does between the end of DXE and the first boot attempt, and *)
(* when no boot option could be started.  The boot variables live in nv; the boot manager of the        *)
(* surrounding firmware (load options, hot keys, refresh, boot attempts) is external.                    *)
EXTENDS Naturals, FiniteSets, SequencesExt, FiniteSetsExt

CONSTANTS Disks, Nets, Displays, \* devices, by the class the code tells apart
          Num,                   \* numbers of Boot#### variables
          MaxChanges,            \* bound: power cuts and changes by the user
          MaxHobs,               \* bound: capsules handed over by PEI
          CutAtKey               \* whether power may fail between an option and its hot key

VARIABLES pc,      \* where the boot flow stands
          emu,     \* PcdEmuVariableNvModeEnable: variables do not survive a reset
          nv,      \* the variables
          present, \* devices plugged in
          linked,  \* devices connected in this boot
          hobs,    \* capsules of this boot
          count,   \* OldBootOptionCount
          resets,  \* automatic resets since the last change from outside
          changes  \* changes from outside that are left
bootVars == <<pc, emu, nv, present, linked, hobs, count, resets, changes>>

Devices == Disks \cup Nets \cup Displays
NoNum == 65536 \* LoadOptionNumberUnassigned
NoOption == [of |-> "none", active |-> FALSE]
Shell == [of |-> "UEFI Shell", active |-> FALSE]
Menu == [of |-> "menu", active |-> TRUE]
OptionOf(d) == [of |-> d, active |-> TRUE]
Policies == {"unset", "minimal", "net", "all", "odd"}
Empty == [opt |-> [k \in Num |-> NoOption], order |-> <<>>, key |-> [c \in {"s", "F2"} |-> NoNum],
          policy |-> "unset", old |-> "unset", out |-> {}, err |-> {}]

\* There are more numbers than options: one for each device, the menu, and a shell that is off or on.
ASSUME BootAssumption ==
  /\ Num \subseteq Nat \ {NoNum} /\ IsFiniteSet(Num) /\ IsFiniteSet(Devices) /\ {"UEFI Shell", "menu"} \cap Devices = {}
  /\ Cardinality(Num) > Cardinality(Devices \ Displays) + 3

----------------------------------------------------------------------------
(* The boot manager library, as this code uses it. *)

Numbers(v) == {v.order[i] : i \in DOMAIN v.order}
Find(v, o) == {k \in Numbers(v) : v.opt[k] = o}
Free(v) == Min(Num \ Numbers(v))
Add(v, o) == [v EXCEPT !.opt[Free(v)] = o, !.order = Append(@, Free(v))]
BindKey(v, c, k) == IF v.key[c] = NoNum THEN [v EXCEPT !.key[c] = k] ELSE v
\* Options the library made itself follow the devices that are connected; the others stay.  Devices are
\* found in any order, and each that has no option gets the lowest free number.
Seen(v, a, b) == \E i, j \in DOMAIN v.order : i < j /\ v.order[i] = a /\ v.order[j] = b
Kept(v, D) ==
  {[v EXCEPT !.order = t] : t \in {s \in SetToSeqs({k \in Numbers(v) : v.opt[k].of \notin Devices \ D}) :
     \A i, j \in DOMAIN s : i < j => Seen(v, s[i], s[j])}}
LowestFree(v, n) == {k \in Num \ Numbers(v) : Cardinality({j \in Num \ Numbers(v) : j < k}) < n}
Ascending(F) == {s \in SetToSeqs(F) : \A i, j \in DOMAIN s : i < j => s[i] < s[j]}
Numbered(v, u, own) ==
  [v EXCEPT !.order = @ \o u, !.opt = [k \in Num |-> IF k \in DOMAIN own THEN OptionOf(own[k]) ELSE v.opt[k]]]
Extended(v, M) == LET F == LowestFree(v, Cardinality(M))
                  IN {Numbered(v, u, own) : u \in Ascending(F), own \in Bijection(F, M)}
Refreshed(v, D) == UNION {Extended(w, {d \in D \ Displays : Find(w, OptionOf(d)) = {}}) : w \in Kept(v, D)}

BootOptionPriority(o) == IF o.of = "UEFI Shell" THEN 0 ELSE IF o.of \in Nets THEN 99 ELSE 50

\* The sort promises an order of priorities and nothing about options of one priority.
Sorted(v) ==
  {[v EXCEPT !.order = s] : s \in {t \in SetToSeqs(Numbers(v)) :
     \A i, j \in DOMAIN t : i < j => BootOptionPriority(v.opt[t[i]]) <= BootOptionPriority(v.opt[t[j]])}}

----------------------------------------------------------------------------
BootInit == /\ pc = "off" /\ emu \in BOOLEAN /\ nv = Empty /\ present \in SUBSET Devices
            /\ linked = {} /\ hobs = 0 /\ count = 0 /\ resets = 0 /\ changes = MaxChanges

PowerOn == /\ pc = "off" /\ pc' = "before" /\ linked' = {} /\ count' = 0
           /\ UNCHANGED <<emu, nv, present, hobs, resets, changes>>

IsPciDisplay(d) == d \in Displays
FilterAndProcess(D) == SUBSET {d \in D : IsPciDisplay(d)} \* those whose connection succeeds
AddOutput(v, D, outFails, errFails) ==
  [v EXCEPT !.out = @ \cup (D \ outFails), !.err = @ \cup (D \ (outFails \cup errFails))]

\* PlatformBootManagerBeforeConsole up to the console variables.  Connecting a display may fail, and so
\* may either of the two updates; the serial console is part of every set and left out.
BeforeConsole ==
  /\ pc = "before" /\ pc' = "options"
  /\ \E D \in FilterAndProcess(present) :
       /\ linked' = D
       /\ \E outFails, errFails \in SUBSET D : nv' = AddOutput(nv, D, outFails, errFails)
  /\ UNCHANGED <<emu, present, hobs, count, resets, changes>>

\* No module installs the platform's own list of options, so GetPlatformOptions returns at once.
RegisterOptionsAndKeys ==
  /\ pc = "options" /\ pc' = "policy"
  /\ nv' = LET v == IF Find(nv, Menu) = {} THEN Add(nv, Menu) ELSE nv
           IN BindKey(v, "F2", CHOOSE k \in Find(v, Menu) : TRUE)
  /\ UNCHANGED <<emu, present, linked, hobs, count, resets, changes>>

\* BootDiscoveryPolicyHandler.  Its status is not looked at.
ClassOf(p) == CASE p = "net" -> Nets [] p = "all" -> Devices [] OTHER -> {}
StoreOldForgotten(v) == v
StoreOld(v) == [v EXCEPT !.old = v.policy]
PolicyHandler ==
  LET asked == IF nv.policy = "unset" THEN [nv EXCEPT !.policy = "minimal"] ELSE nv
      p == asked.policy
  IN /\ pc = "policy" /\ pc' = "capsules"
     /\ \/ p \notin {"net", "all"} /\ nv' = asked /\ UNCHANGED linked
        \/ p \in {"net", "all"} /\ UNCHANGED nv /\ UNCHANGED linked  \* the class could not be connected
        \/ /\ p \in {"net", "all"}
           /\ linked' = linked \cup (ClassOf(p) \cap present)
           /\ IF asked.old # p THEN \E v \in Refreshed(asked, linked') : nv' = StoreOld(v) ELSE nv' = asked
     /\ UNCHANGED <<emu, present, hobs, count, resets, changes>>

\* HandleCapsules: the first capsule that fails ends the loop and the reset with it.
HandleCapsules ==
  /\ pc = "capsules" /\ hobs' = 0
  /\ \E done \in 0..hobs : pc' = IF done = hobs /\ hobs > 0 THEN "reset" ELSE "shell"
  /\ UNCHANGED <<emu, nv, present, linked, count, resets, changes>>

\* PlatformRegisterFvBootOption: the key is bound only by the boot that adds the option.
RegisterShell ==
  /\ pc = "shell"
  /\ IF Find(nv, Shell) = {}
     THEN /\ nv' = Add(nv, Shell) /\ pc' = "key" /\ count' = Free(nv)
     ELSE pc' = "sort" /\ UNCHANGED <<nv, count>>
  /\ UNCHANGED <<emu, present, linked, hobs, resets, changes>>

ShellKeyFirst(v, k) == BindKey(v, "s", 0)
ShellKey(v, k) == BindKey(v, "s", k)
RegisterShellKey ==
  /\ pc = "key" /\ pc' = "sort"
  /\ nv' = ShellKey(nv, count)
  /\ UNCHANGED <<emu, present, linked, hobs, count, resets, changes>>

SortOptions ==
  /\ pc = "sort" /\ pc' = "boot" /\ nv' \in Sorted(nv)
  /\ UNCHANGED <<emu, present, linked, hobs, count, resets, changes>>

\* The boot manager tries the active options in turn; an option starts if its device is there and willing.
Boot ==
  /\ pc = "boot"
  /\ \/ \E k \in Numbers(nv) : nv.opt[k].active /\ nv.opt[k].of \in present /\ pc' = "os"
     \/ pc' = "unable"
  /\ UNCHANGED <<emu, nv, present, linked, hobs, count, resets, changes>>

\* PlatformBootManagerUnableToBoot up to the shell it starts by default, and after that shell is left.
UnableToBoot ==
  /\ pc = "unable" /\ pc' = "in shell"
  /\ count' = Len(nv.order) /\ linked' = present
  /\ \E v \in Refreshed(nv, present) : nv' \in Sorted(v)
  /\ UNCHANGED <<emu, present, hobs, resets, changes>>

MayResetAlways == TRUE
MayReset == ~emu
ShellLeft ==
  /\ pc = "in shell"
  /\ pc' = IF MayReset /\ Len(nv.order) # count THEN "reset" ELSE "menu"
  /\ UNCHANGED <<emu, nv, present, linked, hobs, count, resets, changes>>

ResetSystem ==
  /\ pc = "reset" /\ pc' = "off" /\ resets' = resets + 1
  /\ nv' = IF emu THEN Empty ELSE nv
  /\ UNCHANGED <<emu, present, linked, hobs, count, changes>>

----------------------------------------------------------------------------
(* From outside: devices are plugged while the power is off, the user changes variables in the menu or    *)
(* from the operating system, leaves a capsule, and power fails.                                          *)

Change == changes > 0 /\ changes' = changes - 1 /\ resets' = 0 /\ UNCHANGED <<emu, linked, count>>
Plug == /\ pc = "off" /\ present' \in SUBSET Devices /\ Change /\ UNCHANGED <<pc, nv, hobs>>
PowerCut == /\ pc # "off" /\ (pc = "key" => CutAtKey) /\ Change
            /\ pc' = "off" /\ nv' = (IF emu THEN Empty ELSE nv) /\ hobs' = 0 /\ UNCHANGED present
UserChange ==
  /\ pc \in {"menu", "os", "in shell"} /\ Change
  /\ \/ \E p \in Policies \ {"unset"} : nv' = [nv EXCEPT !.policy = p]
     \/ \E i, j \in DOMAIN nv.order :
          i < j /\ nv' = [nv EXCEPT !.order = [@ EXCEPT ![i] = nv.order[j], ![j] = nv.order[i]]]
     \/ \E k \in Find(nv, Shell) :
          Find(nv, [Shell EXCEPT !.active = TRUE]) = {} /\ nv' = [nv EXCEPT !.opt[k].active = TRUE]
  /\ pc' \in (IF emu THEN {pc} ELSE {pc, "off"}) /\ UNCHANGED <<present, hobs>>
UserReset ==
  /\ pc \in {"menu", "os", "in shell"} /\ Change /\ pc' = "off"
  /\ hobs' \in (IF pc = "os" THEN 0..MaxHobs ELSE {0})
  /\ nv' = (IF emu THEN Empty ELSE nv) /\ UNCHANGED present

BootNext == \/ PowerOn \/ BeforeConsole \/ RegisterOptionsAndKeys \/ PolicyHandler \/ HandleCapsules
            \/ RegisterShell \/ RegisterShellKey \/ SortOptions \/ Boot \/ UnableToBoot \/ ShellLeft
            \/ ResetSystem \/ Plug \/ PowerCut \/ UserChange \/ UserReset

BootSpec == BootInit /\ [][BootNext]_bootVars

----------------------------------------------------------------------------
\* The firmware does not reboot for ever: between two changes from outside it resets itself at most three
\* times, for a capsule, for options a changed policy removed, and for options it had not seen before.
RebootsEnd == resets <= 3

\* From the first boot attempt on the key S leads to a shell, whatever was refreshed, sorted, switched on
\* by the user or given a number before; that is what the screen tells the user.
HotKeyOpensShell ==
  pc \in {"boot", "unable", "in shell", "menu", "os"} =>
    nv.key["s"] \in Numbers(nv) /\ nv.opt[nv.key["s"]].of = "UEFI Shell"
=============================================================================
