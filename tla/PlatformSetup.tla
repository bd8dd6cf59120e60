--------------------------- MODULE PlatformSetup ---------------------------
(* The drivers that write the device tree of a boot: FruClientDxe and the two network drivers give every *)
(* port an address, ConfigDxe applies what the user has set up.  The tree starts afresh at every boot;   *)
(* the variables of the user and the FRU of the board stay.                                              *)
EXTENDS DeviceTree

CONSTANTS Boards,    \* boards: their tree, their FRU, the ports whose registers hold an address
          Lvds, Hda, \* the build has a switch for LVDS, for HDA sound
          MayFail,   \* may the surrounding firmware refuse a request?
          MaxBoots   \* bound

VARIABLES board,   \* the board, its FRU included
          stage,   \* how far the boot is
          boots,
          t,       \* mDeviceTreeBase
          run,     \* the driver that walks the tree: its node and the ports it has found
          waiting, \* drivers not started yet
          snp,     \* what the network interfaces installed know of themselves
          nv,      \* variables of ConfigDxe
          saved,   \* mSavedPowerPolicy
          hooked,  \* is UpdateConfigsHook installed?
          given,   \* history: the tree when the hook ran
          heeded,  \* history: the settings when the hook ran
          before,  \* history: the settings when the boot began
          failed   \* history: has a request been refused in this boot?
hist == <<given, heeded, before>>
setupVars == <<board, stage, boots, t, run, waiting, snp, nv, saved, hooked, hist, failed>>

None == "none"
Unset == 99
Idle == [drv |-> None, node |-> 0, idx |-> 0]
Drivers == {"config", "gmac", "xgmac"}
Settings == {"VduLvds", "Uart1", "UsbClk", "HdaSound", "MaliCoherent", "PowerPolicy"}
Gmac0 == 10
Gmac1 == 11
XGmac0 == 12
XGmac1 == 13

SetupInit == /\ board \in Boards /\ stage = "off" /\ boots = 1 /\ t = <<>> /\ run = Idle /\ waiting = Drivers
             /\ snp = <<>> /\ nv = [v \in Settings \cup {"SimpleAudioCard"} |-> Unset] /\ before = nv
             /\ saved = 0 /\ hooked = FALSE /\ given = <<>> /\ heeded = <<>> /\ failed = FALSE

\* PlatformPeim copies the tree into a larger block; InitializeFdtClientDxe finds it through a HOB.
StartFdt == /\ stage = "off" /\ stage' = "fdt" /\ t' = board.tree
            /\ UNCHANGED <<board, boots, run, waiting, snp, nv, saved, hooked, hist, failed>>

----------------------------------------------------------------------------
(* Addresses.  An address is who made it and a number; "bad" is one that no port may have. *)

Valid(m) == m[1] \notin {"none", "bad"}
FruMac(k) == IF k \in DOMAIN board.fru THEN board.fru[k] ELSE <<None, 0>>

EthAlias == <<"ethernet0", "ethernet1", "ethernet2", "ethernet3">>
\* The FRU's addresses go to the ports by alias, up to the first alias that is missing or write that is refused.
FruMacs(tree) ==
  LET Give(s, k) == LET o == FindNodeByAlias(s.tree, EthAlias[k])
                        u == SetNodeProperty(s.tree, o, "mac-address", FruMac(k - 1))
                    IN IF ~s.going \/ o = NoNode THEN [s EXCEPT !.going = FALSE]
                       ELSE IF FruMac(k - 1)[1] = None THEN s
                       ELSE [tree |-> u, going |-> Has(u, o, "mac-address")]
  IN FoldLeft(Give, [tree |-> tree, going |-> TRUE], <<1, 2, 3, 4>>).tree

StartFru == /\ stage = "fdt" /\ stage' = "drivers" /\ t' = FruMacs(t)
            /\ UNCHANGED <<board, boots, run, waiting, snp, nv, saved, hooked, hist, failed>>

\* The address without the last two bits names the chip; they tell its ports apart.
Suffix(base) == CASE base = Gmac1 -> 1 [] base = XGmac0 -> 2 [] base = XGmac1 -> 3 [] OTHER -> 0
\* Mutant: they count the ports of one driver.
EuiClientGetEui48ByIndex(base, idx, mac) == IF Valid(mac) THEN mac ELSE <<"chip", idx % 4>>
EuiClientGetEui48(base, idx, mac) ==
  LET fru == CASE base = Gmac0 -> FruMac(0)
               [] base = Gmac1 -> IF FruMac(1)[1] = None /\ idx = 0 THEN FruMac(0) ELSE FruMac(1)
               [] OTHER -> <<None, 0>>
  IN IF Valid(fru) THEN fru ELSE IF Valid(mac) THEN mac ELSE <<"chip", Suffix(base)>>

MacProperty(tree, o) == IF Has(tree, o, "mac-address") THEN GetNodeProperty(tree, o, "mac-address") ELSE <<None, 0>>
LocalMac(tree, o) == IF Has(tree, o, "local-mac-address") THEN GetNodeProperty(tree, o, "local-mac-address") ELSE <<None, 0>>
TreeMac(tree, o) == IF Valid(MacProperty(tree, o)) THEN MacProperty(tree, o) ELSE LocalMac(tree, o)
Registers(base) == IF base \in board.preset THEN <<"preset", base>> ELSE <<None, 0>>

PortMac(tree, o, idx) ==
  IF Valid(TreeMac(tree, o)) THEN TreeMac(tree, o)
  ELSE LET base == GetNodeProperty(tree, o, "reg")[1] IN EuiClientGetEui48(base, idx, Registers(base))
Named(tree, o, mac) ==
  LET Write(u, p) == SetNodeProperty(u, o, p, mac)
  IN IF Valid(TreeMac(tree, o)) THEN tree ELSE FoldLeft(Write, tree, <<"local-mac-address", "mac-address">>)

----------------------------------------------------------------------------
(* The network drivers: one iteration of the loop over the tree at a time. *)

Start(d) == /\ stage = "drivers" /\ run = Idle /\ d \in waiting
            /\ waiting' = waiting \ {d} /\ run' = [Idle EXCEPT !.drv = d]
            /\ UNCHANGED <<board, stage, boots, t, snp, nv, saved, hooked, hist, failed>>
Return == run' = Idle
Continue(o) == run' = [run EXCEPT !.node = o]
Found(o) == run' = [run EXCEPT !.node = o, !.idx = @ + 1]

XGmacNext == FindNextCompatibleNode(t, "amd,xgbe-seattle-v1a", run.node)
XGmacUsable(o) == /\ IsNodeEnabled(t, o) /\ Has(t, o, "reg")
                  /\ GetNodeProperty(t, o, "reg") # <<>> /\ Len(GetNodeProperty(t, o, "reg")) % 2 = 0
XGmacPort ==
  /\ run.drv = "xgmac"
  /\ \E o \in {XGmacNext} :
     \/ o = NoNode /\ Return /\ UNCHANGED t
     \/ o # NoNode /\ ~XGmacUsable(o) /\ Continue(o) /\ UNCHANGED t
     \/ o # NoNode /\ XGmacUsable(o) /\ Found(o) /\ t' = Named(t, o, PortMac(t, o, run.idx))
  /\ UNCHANGED <<board, stage, boots, waiting, snp, nv, saved, hooked, hist, failed>>

GmacNext == LET bm == FindNextCompatibleNode(t, "baikal,bm1000-gmac", run.node)
            IN IF bm # NoNode THEN bm ELSE FindNextCompatibleNode(t, "baikal,bs1000-gmac", run.node)
GmacUsable(o) == IsNodeEnabled(t, o) /\ Has(t, o, "reg") /\ Len(GetNodeProperty(t, o, "reg")) = 2

\* Where the reset line and the PHY of a port are.
Wiring(tree, o) ==
  LET gpio == FindNodeByPhandle(tree, GetNodeProperty(tree, o, "snps,reset-gpios")[1])
      chip == IF gpio = NoNode THEN NoNode ELSE FindParentNode(tree, gpio)
      phy  == FindNodeByPhandle(tree, GetNodeProperty(tree, o, "phy-handle"))
  IN [reset |-> IF ~Has(tree, o, "snps,reset-gpios") THEN GetNodeProperty(tree, o, "reg")[1]
                ELSE IF chip # NoNode /\ Has(tree, chip, "reg") THEN GetNodeProperty(tree, chip, "reg")[1] ELSE 0,
      pin   |-> IF Has(tree, o, "snps,reset-gpios") THEN GetNodeProperty(tree, o, "snps,reset-gpios")[2] ELSE 0,
      phy   |-> IF Has(tree, o, "phy-handle") /\ Has(tree, phy, "reg") THEN GetNodeProperty(tree, phy, "reg")[1] ELSE -1]

GmacPort ==
  /\ run.drv = "gmac"
  /\ \E o \in {GmacNext} :
     \/ o = NoNode /\ Return /\ UNCHANGED <<t, snp, failed>>
     \/ o # NoNode /\ ~GmacUsable(o) /\ Continue(o) /\ UNCHANGED <<t, snp, failed>>
     \/ /\ o # NoNode /\ GmacUsable(o)
        /\ \E mac \in {PortMac(t, o, run.idx)} :
             /\ t' = Named(t, o, mac)
             /\ snp' = (GetNodeProperty(t, o, "reg")[1] :> [mac |-> mac, at |-> Wiring(t', o)]) @@ snp
        /\ Found(o) /\ UNCHANGED failed
     \/ /\ MayFail /\ o # NoNode /\ GmacUsable(o)   \* no constructor, or no protocol
        /\ t' = Named(t, o, PortMac(t, o, run.idx))
        /\ Return /\ failed' = TRUE /\ UNCHANGED snp
  /\ UNCHANGED <<board, stage, boots, waiting, nv, saved, hooked, hist>>

----------------------------------------------------------------------------
(* ConfigDxe. *)

Default == [VduLvds |-> 0, Uart1 |-> 1, UsbClk |-> 1, HdaSound |-> 1, MaliCoherent |-> 0]
Off == 0
On == 2    \* FRU_POWERPOLICY_ON; 1 keeps the last state
Auto == 1

\* Mutant: what the FRU says is not looked up at every boot.
SavedPolicyForgotten(policy) == saved
SavedPolicy(policy) == IF policy = On THEN Auto ELSE Off
SetupVariables(policy) ==
  [v \in DOMAIN nv |-> IF v = "SimpleAudioCard" THEN IF FindCompatibleNode(t, "simple-audio-card") # NoNode THEN 1 ELSE 0
                       ELSE IF nv[v] # Unset THEN nv[v] ELSE IF v = "PowerPolicy" THEN SavedPolicy(policy) ELSE Default[v]]

ConfigDxeInitialize ==
  /\ run.drv = "config" /\ Return
  /\ nv' = SetupVariables(board.policy) /\ saved' = SavedPolicy(board.policy)
  /\ hooked' \in {TRUE} \cup (IF MayFail THEN {FALSE} ELSE {}) /\ failed' = (failed \/ ~hooked')
  /\ UNCHANGED <<board, stage, boots, t, waiting, snp, hist>>

Disabled(tree, alias) == LET o == FindNodeByAlias(tree, alias)
                         IN IF o = NoNode THEN tree ELSE SetNodeProperty(tree, o, "status", "disabled")
NoClocks(tree, alias) ==
  LET o == FindNodeByAlias(tree, alias)
      Less(u, p) == DeleteProperty(u, o, p)
  IN IF o = NoNode THEN tree ELSE FoldLeft(Less, tree, <<"clocks", "clock-names">>)
NoPs2(tree) == LET o == FindNodeByAlias(tree, "serial1") sub == FindNextSubnode(tree, "ps2mult", o)
               IN IF o = NoNode \/ sub = NoNode THEN tree ELSE DeleteNode(tree, sub)
NoCoherence(tree) == LET o == FindCompatibleNode(tree, "arm,mali-midgard")
                     IN IF o = NoNode THEN tree ELSE DeleteProperty(tree, o, "dma-coherent")
NoClockInput(tree) == FoldLeft(NoClocks, tree, <<"usb2", "usb3">>)
Fixup(tree, v) == CASE v = "VduLvds" -> Disabled(tree, "vdu-lvds") [] v = "Uart1" -> NoPs2(tree)
                    [] v = "UsbClk" -> NoClockInput(tree) [] v = "HdaSound" -> Disabled(tree, "hda")
                    [] v = "MaliCoherent" -> NoCoherence(tree)
SwitchedOff(v) == nv[v] = 0 /\ (v = "VduLvds" => Lvds) /\ (v = "HdaSound" => Hda)
SwitchesOff == SelectSeq(<<"VduLvds", "Uart1", "UsbClk", "HdaSound", "MaliCoherent">>, SwitchedOff)
\* Mutant: the node of the sound is looked up before the first node is changed.
FixupFdtLooksUpFirst(tree) ==
  LET hda == FindNodeByAlias(tree, "hda")
      FixupFound(u, v) == IF v # "HdaSound" THEN Fixup(u, v) ELSE SetNodeProperty(u, hda, "status", "disabled")
  IN FoldLeft(FixupFound, tree, SwitchesOff)
FixupFdt(tree) == FoldLeft(Fixup, tree, SwitchesOff)

\* The boot manager signals that the console is there.
UpdateConfigsHook ==
  /\ stage = "drivers" /\ waiting = {} /\ run = Idle /\ stage' = "console"
  /\ given' = t /\ heeded' = nv /\ t' = IF hooked THEN FixupFdt(t) ELSE t
  /\ IF hooked /\ nv["PowerPolicy"] # saved
     THEN \/ /\ board' = [board EXCEPT !.policy = IF nv["PowerPolicy"] = Auto THEN On ELSE Off]
             /\ UNCHANGED failed
          \/ MayFail /\ failed' = TRUE /\ UNCHANGED board
     ELSE UNCHANGED <<board, failed>>
  /\ UNCHANGED <<boots, run, waiting, snp, nv, saved, hooked, before>>

\* The machine starts again, at the user's wish or because the power fails.
Reset == /\ boots < MaxBoots /\ boots' = boots + 1 /\ before' = nv'
         /\ stage' = "off" /\ t' = <<>> /\ run' = Idle /\ waiting' = Drivers /\ snp' = <<>>
         /\ saved' = 0 /\ hooked' = FALSE /\ given' = <<>> /\ heeded' = <<>> /\ failed' = FALSE
Reboot == stage # "off" /\ UNCHANGED <<board, nv>> /\ Reset

\* The user changes a setting; the set-up screen hides the sound of an audio card.  All questions but two ask for a
\* reset; after those two the user may go on and start the operating system.
WithoutReset == {"PowerPolicy", "MaliCoherent"}
Choose(v) == /\ stage = "console"
             /\ v = "HdaSound" => nv["SimpleAudioCard"] # 1
             /\ nv' = IF nv[v] = Unset THEN nv ELSE [nv EXCEPT ![v] = 1 - @]
             /\ IF v \in WithoutReset THEN UNCHANGED <<boots, stage, t, run, waiting, snp, saved, hooked, hist, failed>> ELSE Reset
             /\ UNCHANGED board

SetupNext == \/ StartFdt \/ StartFru \/ (\E d \in Drivers : Start(d)) \/ XGmacPort \/ GmacPort
             \/ ConfigDxeInitialize \/ UpdateConfigsHook \/ Reboot \/ (\E v \in Settings : Choose(v))

----------------------------------------------------------------------------
(* Properties. *)

IsPort(n) == /\ Enabled(n) /\ "compatible" \in DOMAIN n.props
             /\ n.props["compatible"] \cap {"baikal,bm1000-gmac", "amd,xgbe-seattle-v1a"} # {}
Ports(tree) == {First(tree, {i}) : i \in {j \in DOMAIN tree : IsPort(tree[j])}}
Base(tree, o) == GetNodeProperty(tree, o, "reg")[1]

\* No two ports that are in use have the same address in the tree the operating system gets, and the firmware's
\* own interfaces use these addresses, with the reset line and the PHY that the board's tree gives them.
PortsDistinct ==
  stage = "console" /\ ~failed =>
    /\ \A o \in Ports(t) : Valid(TreeMac(t, o))
    /\ \A o, p \in Ports(t) : TreeMac(t, o) = TreeMac(t, p) => o = p
    /\ \A o \in Ports(t) : Base(t, o) \in DOMAIN snp => snp[Base(t, o)].mac = TreeMac(t, o)
    /\ \A o \in Ports(board.tree) :
         Base(board.tree, o) \in DOMAIN snp => snp[Base(board.tree, o)].at = Wiring(board.tree, o)

\* The settings that this boot is to obey: the choices kept from earlier boots, or those made for a machine without.
SetUp == [v \in Settings |-> IF before[v] # Unset THEN before[v] ELSE heeded[v]]

Same(tree, u, name, props) ==
  \A i \in DOMAIN tree, j \in DOMAIN u : tree[i].name = name /\ u[j].name = name =>
    \A p \in DOMAIN tree[i].props \cup DOMAIN u[j].props :
      p \in props \/ (p \in DOMAIN tree[i].props \cap DOMAIN u[j].props /\ tree[i].props[p] = u[j].props[p])
NodeNames(tree) == {tree[i].name : i \in DOMAIN tree}
Gone(name, p) == SetUp["UsbClk"] = 0 => ~Has(t, Path(t, name), p)

\* What the user set up before this boot is what the operating system's tree says, and it says nothing else that it
\* did not say before: no node but the one meant is changed.  What the user sets up after the hook has run, and the
\* tree does not say, is the sharing of the GPU's memory or the power policy: they wait for the next boot.
SetupApplied ==
  stage = "console" /\ ~failed =>
    /\ \A v \in Settings : nv[v] # SetUp[v] => v \in WithoutReset
    /\ SetUp["HdaSound"] = 0 /\ Hda => ~IsNodeEnabled(t, Path(t, "hda"))
    /\ SetUp["VduLvds"] = 0 /\ Lvds => ~IsNodeEnabled(t, Path(t, "lvds"))
    /\ NodeNames(t) = NodeNames(given) \ (IF SetUp["Uart1"] = 0 THEN {"ps2mult", "kbd"} ELSE {})
    /\ \A name \in {"usb2", "usb3"}, p \in {"clocks", "clock-names"} : Gone(name, p)
    /\ SetUp["MaliCoherent"] = 0 => ~Has(t, Path(t, "mali"), "dma-coherent")
    /\ \A name \in NodeNames(given) :
         Same(given, t, name, CASE name \in {"hda", "lvds"} -> {"status"} [] name \in {"usb2", "usb3"} -> {"clocks", "clock-names"}
                                [] name = "mali" -> {"dma-coherent"} [] OTHER -> {})

\* Once the hook has done its work, the board starts by itself exactly if the user had chosen so when the boot began,
\* whatever was chosen in earlier boots and whether or not an earlier boot could write the FRU.  A choice made after
\* that counts from the next boot on.
PolicyFollowsChoice ==
  stage = "console" /\ ~failed => (board.policy = On <=> SetUp["PowerPolicy"] = Auto)
=============================================================================
