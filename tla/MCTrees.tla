------------------------------ MODULE MCTrees ------------------------------
(* Device trees, as MCPlatform uses them. *)
EXTENDS Integers, Sequences, TLC
LOCAL T == INSTANCE DeviceTree WITH Space <- 0

LOCAL Node(name, depth, props) == [name |-> name, depth |-> depth, props |-> props]
LOCAL Nothing == <<>>

\* A board with three ports that may be off and one that is not, the PHY of the first below it and that of the
\* second elsewhere; the nodes set-up changes lie before and behind the one it deletes.
LOCAL Status(on) == "status" :> IF on THEN "okay" ELSE "disabled"
LOCAL Port(name, compatible, base, on, more) ==
  Node(name, 1, ("compatible" :> {compatible}) @@ ("reg" :> <<base, 1>>) @@ Status(on) @@ more)
LOCAL Wires(h) == ("snps,reset-gpios" :> <<5, h, 0>>) @@ ("phy-handle" :> h)
LOCAL Aliases == [hda |-> "hda", serial1 |-> "serial1", usb2 |-> "usb2", usb3 |-> "usb3", ethernet0 |-> "gmac0",
                  ethernet1 |-> "gmac1", ethernet2 |-> "xgmac0"] @@ ("vdu-lvds" :> "lvds")
LOCAL BoardTree(on) ==
  <<Node("/", 0, Nothing), Node("aliases", 1, Aliases),
    Node("lvds", 1, Nothing),
    Port("gmac0", "baikal,bm1000-gmac", 10, 0 \in on, Wires(1)),
    Node("phy0", 2, ("phandle" :> 1) @@ ("reg" :> <<3>>)),
    Node("serial1", 1, Nothing), Node("ps2mult", 2, Nothing), Node("kbd", 3, Nothing),
    Node("usb2", 1, ("clocks" :> 1) @@ ("clock-names" :> 1)), Node("usb3", 1, "clocks" :> 1),
    Node("hda", 1, Nothing),
    Node("mali", 1, ("compatible" :> {"arm,mali-midgard"}) @@ ("dma-coherent" :> 1)),
    Port("gmac1", "baikal,bm1000-gmac", 11, 1 \in on, Wires(2) @@ ("local-mac-address" :> <<"bad", 0>>)),
    Node("gpio", 1, "reg" :> <<20, 1>>), Node("port", 2, "phandle" :> 5),
    Node("phy1", 1, ("phandle" :> 2) @@ ("reg" :> <<4>>)),
    Port("xgmac0", "amd,xgbe-seattle-v1a", 12, 2 \in on, Nothing),
    Port("xgmac1", "amd,xgbe-seattle-v1a", 13, TRUE, Nothing)>>
LOCAL Frus == {<<>>, (0 :> <<"fru", 0>>), (0 :> <<"fru", 0>>) @@ (1 :> <<"bad", 1>>), (1 :> <<"fru", 1>>) @@ (2 :> <<"fru", 2>>)}
\* Addresses have nothing to do with the power policy: a board has either one policy, with or without registers set.
SetupBoards == {[tree |-> BoardTree(on), fru |-> f, preset |-> p, policy |-> IF p = {} THEN 0 ELSE 2] :
                  on \in {{0, 1, 2}, {1, 2}, {0}}, f \in Frus, p \in {{}, {11, 12}}}
\* PcdDeviceTreeAllocationPadding is 256 bytes.
SetupSpace == T!TreeSize(BoardTree({0, 1, 2})) + 64

\* The low memory in one piece or without the secure part; nodes without a reg, with an empty one, with half a bank and
\* disabled ones between the low memory and the high memory of each chip.
LOCAL Memory(reg) == Node("memory", 1, ("device_type" :> "memory") @@ ("reg" :> reg))
LOCAL Low == {Memory(<<<<0, \h80000>>, \h80000>>), Memory(<<<<0, \h80000>>, \h10000, <<0, \h91000>>, \h6F000>>)}
LOCAL High == Memory(<<<<0, \h880000>>, \h80000, <<0, \h8800000>>, \h100000>>)
LOCAL Far == Memory(<<<<1, \h80000>>, \h80000, <<1, \h880000>>, \h80000>>)
LOCAL Disabled == [High EXCEPT !.props = Status(FALSE) @@ @]
LOCAL Between == {<<>>, <<Node("memory", 1, "device_type" :> "memory"), Disabled>>, <<Memory(<<<<0, \h80000>>>>)>>, <<Memory(<<>>)>>}
LOCAL MemoryTrees(chips) == {<<Node("/", 0, Nothing), l>> \o b \o h \o IF chips = 2 THEN <<Far>> ELSE <<>> :
                               l \in Low, b \in Between, h \in {<<>>, <<High>>}}
Memories == {[board |-> "bm", chips |-> 1, tree |-> u] : u \in MemoryTrees(1)}
            \cup UNION {{[board |-> "bs", chips |-> n, tree |-> u] : u \in MemoryTrees(n)} : n \in {1, 2}}

\* What a tree says of the display: a panel with each of the mistakes the driver tells apart, or a bridge.
LOCAL Panel == [vdu |-> TRUE, lanes |-> 2, panel |-> "on", bridge |-> "none", map |-> "jeida-18", whole |-> TRUE, res |-> <<1920, 1080>>]
DisplayTrees ==
  {Panel, [Panel EXCEPT !.vdu = FALSE], [Panel EXCEPT !.lanes = 3], [Panel EXCEPT !.whole = FALSE], [Panel EXCEPT !.map = "odd"],
   [Panel EXCEPT !.panel = "off"], [Panel EXCEPT !.res = <<1366, 768>>]}
  \cup {[Panel EXCEPT !.panel = "none", !.bridge = b] : b \in {"none", "off", "on"}}
=============================================================================
