----------------------------- MODULE MCPlatform -----------------------------
(* The components that share no state with one another, for TLC: a behaviour is that of the one its mode *)
(* names.  GmacSnp, DwI2c, BaikalRtc, BaikalVdu and PlatformBootManager are bounded by the configuration, *)
(* the others here.                                                                                      *)
EXTENDS GmacSnp, DwI2c, BaikalRtc, BaikalVdu, PlatformBootManager, FruClient, MCFruImages, MCTrees

CONSTANTS Parts, m1, m2

VARIABLES
  mode,
  board, stage, boots, t, run, waiting, snp, setup, saved, hooked, given, heeded, before, failed, \* PlatformSetup
  machine, step, table, gcd, node, left, refused, srat, type19                \* MemoryMap

MCMac == {m1, m2}
\* The registers of the clock after power-on: three contents.
MCJunk == {[i \in 0 .. 6 |-> 0], [i \in 0 .. 6 |-> 255], [i \in 0 .. 6 |-> IF i = 2 THEN 113 ELSE 17]}
\* A monitor reports timings the controllers can and cannot make, or none.
MCEdids == [detailed : {<<>>, <<[res |-> <<1920, 1080>>, by |-> "monitor"], [res |-> <<640, 480>>, by |-> "monitor"]>>},
            standard : {{}, {[w |-> 1280, aspect |-> "5:4", hz |-> 60], [w |-> 1600, aspect |-> "4:3", hz |-> 75]}},
            established : {{}, {1, 3}}, ok : {TRUE}]
MCSymmetry == Permutations(MCMac)   \* station addresses are only compared for equality

S == INSTANCE PlatformSetup WITH nv <- setup, Space <- SetupSpace, Boards <- SetupBoards, Lvds <- TRUE, Hda <- TRUE,
                                 MayFail <- TRUE, MaxBoots <- 2
M == INSTANCE MemoryMap WITH Space <- 0, MayRefuse <- TRUE

setupVars == <<board, stage, boots, t, run, waiting, snp, setup, saved, hooked, given, heeded, before, failed>>
memoryVars == <<machine, step, table, gcd, node, left, refused, srat, type19>>
mcVars == <<vars, mode, bootVars, i2cVars, rtcVars, fruVars, vduVars, setupVars, memoryVars>>

----------------------------------------------------------------------------
(* The components that are not the mode's stay as they are, in a state in which their properties hold; *)
(* GmacSnp's in its initial state. *)

Unused == 0
NoBoot == /\ pc = "unused" /\ emu = Unused /\ nv = Unused /\ present = Unused /\ linked = Unused /\ hobs = Unused
          /\ count = Unused /\ resets = Unused /\ changes = Unused
NoBus == i2c = [pc |-> "off"] /\ ctl = Unused /\ mem = Unused /\ ghost = Unused
NoRtc == /\ rtcType = Unused /\ reg = Unused /\ hour12 = Unused /\ tz = Unused /\ dl = Unused /\ last = NoTime /\ got = NoTime
NoFru == /\ factory = [i \in 0 .. 79 |-> 255] /\ eeprom = factory /\ fru = factory /\ fruPc = Unused
         /\ page = Unused /\ want = Unused /\ fruRet = "none" /\ wasEnded = Unused
NoVdu == /\ gop = Unused /\ tree = Unused /\ modes = Unused /\ panel = Unused /\ lvds = Unused /\ active = Unused
         /\ pcd = Unused /\ shown = Unused /\ vdu = [hdmi |-> Off, lvds |-> Off] /\ hdmi = Unused /\ pll = Unused /\ denied = Unused
NoSetup == /\ board = Unused /\ stage = Unused /\ boots = Unused /\ t = Unused /\ run = Unused /\ waiting = Unused
           /\ snp = Unused /\ setup = Unused /\ saved = Unused /\ hooked = Unused /\ given = Unused
           /\ heeded = Unused /\ before = Unused /\ failed = Unused
NoMemory == /\ machine = Unused /\ step = Unused /\ table = Unused /\ gcd = Unused /\ node = Unused /\ left = Unused
            /\ refused = Unused /\ srat = Unused /\ type19 = Unused

MCInit ==
  /\ mode \in Parts
  /\ Init
  /\ IF mode = "boot" THEN BootInit ELSE NoBoot
  /\ IF mode = "bus" THEN I2cInit ELSE NoBus
  /\ IF mode = "rtc" THEN RtcInit ELSE NoRtc
  /\ IF mode = "fru" THEN FruInit ELSE NoFru
  /\ IF mode = "vdu" THEN VduInit ELSE NoVdu
  /\ IF mode = "setup" THEN S!SetupInit ELSE NoSetup
  /\ IF mode = "memory" THEN M!MemoryInit ELSE NoMemory

MCNext ==
  \/ mode = "net" /\ Next /\ UNCHANGED <<mode, bootVars, i2cVars, rtcVars, fruVars, vduVars, setupVars, memoryVars>>
  \/ mode = "boot" /\ BootNext /\ UNCHANGED <<vars, mode, i2cVars, rtcVars, fruVars, vduVars, setupVars, memoryVars>>
  \/ mode = "bus" /\ I2cNext /\ UNCHANGED <<vars, mode, bootVars, rtcVars, fruVars, vduVars, setupVars, memoryVars>>
  \/ mode = "rtc" /\ RtcNext /\ UNCHANGED <<vars, mode, bootVars, i2cVars, fruVars, vduVars, setupVars, memoryVars>>
  \/ mode = "fru" /\ FruNext /\ UNCHANGED <<vars, mode, bootVars, i2cVars, rtcVars, vduVars, setupVars, memoryVars>>
  \/ mode = "vdu" /\ VduNext /\ UNCHANGED <<vars, mode, bootVars, i2cVars, rtcVars, fruVars, setupVars, memoryVars>>
  \/ mode = "setup" /\ S!SetupNext /\ UNCHANGED <<vars, mode, bootVars, i2cVars, rtcVars, fruVars, vduVars, memoryVars>>
  \/ mode = "memory" /\ M!MemoryNext /\ UNCHANGED <<vars, mode, bootVars, i2cVars, rtcVars, fruVars, vduVars, setupVars>>

MCSpec == MCInit /\ [][MCNext]_mcVars

----------------------------------------------------------------------------
(* The properties of the components that are instantiated here, in their modes; the others hold in all. *)

\* PlatformSetup: no two ports end up with one address.
PortsDistinct == mode = "setup" => S!PortsDistinct
\* PlatformSetup: what the user set up is in force, and nothing else is changed.
SetupApplied == mode = "setup" => S!SetupApplied /\ S!PolicyFollowsChoice
\* MemoryMap: page tables, boot memory map and tables agree, without the secure memory, and lose no bank.
MemoryAgrees == mode = "memory" => M!MapsAgree /\ M!BanksReachEveryMap
=============================================================================
