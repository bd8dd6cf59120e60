----------------------------- MODULE BaikalVdu -----------------------------
(* BaikalVduLib: the table of display modes, what the device tree and the monitor say about it, and the *)
(* two controllers, HDMI and LVDS, that show one frame buffer.  The caller is the graphics driver of the *)
(* surrounding firmware.  A timing is the resolution and who supplied the porches, syncs and clock.      *)
EXTENDS Integers, FiniteSets, Sequences, FiniteSetsExt

CONSTANTS Trees,     \* device trees: what they say of the display
          Edids,     \* monitors that can be read
          Elpitech   \* the build that knows the LVDS bridge

Resolutions == Nat \X Nat

ASSUME VduAssumption == /\ \A e \in Edids : e.detailed \in Seq([res : Resolutions, by : {"monitor"}])
                        /\ \A t \in Trees : t.res \in Resolutions /\ t.panel \in {"none", "off", "on"}

VARIABLES gop,     \* where the graphics driver stands
          tree,    \* the device tree
          modes,   \* mDisplayModes
          panel,   \* mFdtDisplayMode
          lvds,    \* mLvdsDisplayMode
          active,  \* mActiveDisplayModes
          pcd,     \* resolution handed to the console
          shown,   \* mode number set last
          vdu,     \* registers of the two controllers
          hdmi,    \* HDMI transmitter: frame, settings of its PHY, video path
          pll,     \* pixel clocks
          denied   \* a clock or PHY write was refused since the last mode was asked for
vduVars == <<gop, tree, modes, panel, lvds, active, pcd, shown, vdu, hdmi, pll, denied>>

Table == <<<<640, 480>>, <<800, 600>>, <<1024, 768>>, <<1280, 720>>, <<1280, 800>>, <<1280, 1024>>,
           <<1680, 1050>>, <<1600, 1200>>, <<1920, 1080>>, <<2560, 1440>>>>
VGA == 1
SVGA == 2
XGA == 3
HD == 9
Modes == DOMAIN Table
Nothing == <<0, 0>>
VramBase == 16777216
VramSize == 16777216
NoTiming == [res |-> Nothing, by |-> "none", osc |-> "none"]
NoPanel == [res |-> Nothing, by |-> "none", osc |-> "none", ports |-> 0, bpp |-> 0]
Off == [on |-> FALSE, base |-> 0, end |-> 0, timing |-> NoTiming, ports |-> 0]

VduInit == /\ gop = "off" /\ tree \in Trees /\ active = 0 /\ pcd = Nothing /\ shown = 0 /\ denied = FALSE
           /\ modes = [m \in Modes |-> [res |-> Table[m], by |-> "table", osc |-> "table", active |-> FALSE]]
           /\ panel = NoPanel /\ lvds = NoPanel
           /\ vdu = [hdmi |-> Off, lvds |-> Off] /\ pll = [hdmi |-> NoTiming, lvds |-> NoTiming]
           /\ hdmi = [res |-> Nothing, phy |-> 0, path |-> FALSE]

----------------------------------------------------------------------------
(* What the device tree says. *)

PanelNode(t) == [res |-> t.res, by |-> "panel", osc |-> "panel", ports |-> t.lanes,
                 bpp |-> IF t.map = "jeida-18" THEN 18 ELSE 24]
BridgeNode(t) == CASE t.bridge = "on"  -> [res |-> Table[HD], by |-> "table", osc |-> "table", ports |-> 2, bpp |-> 24]
                   [] t.bridge = "off" -> [NoPanel EXCEPT !.ports = t.lanes] \* no error: the lanes stay
                   [] OTHER -> NoPanel
FdtGetPanelTimings(t) ==
  IF ~t.vdu \/ t.lanes \notin {1, 2, 4} THEN NoPanel
  ELSE CASE t.panel = "none" -> IF Elpitech THEN BridgeNode(t) ELSE NoPanel
         [] t.panel = "off"  -> NoPanel
         [] t.panel = "on"   -> IF t.map = "odd" \/ ~t.whole THEN NoPanel ELSE PanelNode(t)
LvdsEnabled == panel.ports > 0

----------------------------------------------------------------------------
(* What the monitor says: a list of detailed timings, standard timings and three established ones. *)

DetailedKeepsClock(mode, d) == [mode EXCEPT !.by = d.by, !.active = TRUE]
Detailed(mode, d) == [res |-> d.res, by |-> d.by, osc |-> d.by, active |-> TRUE]
\* Of several timings for one resolution the last one stays.
WithDetailed(mode, ds) == LET own == {i \in DOMAIN ds : ds[i].res = mode.res}
                          IN IF own = {} THEN mode ELSE Detailed(mode, ds[Max(own)])
Height(w, aspect) == CASE aspect = "16:10" -> (w * 10) \div 16 [] aspect = "4:3" -> (w * 3) \div 4
                       [] aspect = "5:4"   -> (w * 4) \div 5   [] aspect = "16:9" -> (w * 9) \div 16
Standard(e) == {m \in Modes : \E s \in e.standard : s.hz = 60 /\ Table[m] = <<s.w, Height(s.w, s.aspect)>>}
Activate(ms, S) == [m \in Modes |-> [ms[m] EXCEPT !.active = @ \/ m \in S]]
ParseEdidData(ms, e) == Activate([m \in Modes |-> WithDetailed(ms[m], e.detailed)], Standard(e) \cup e.established)

----------------------------------------------------------------------------
(* The HDMI transmitter.  A write to the PHY may fail unseen; the PHY may fail to lock. *)

\* HdmiPhyI2cWrite and HdmiPhyConfigure: settings of mode m, or a mixture.
Mixture == 99
HdmiPhyConfigure(x, m) == {[x EXCEPT !.phy = p] : p \in {m, Mixture}}
\* The sequence runs twice; without a lock it ends, and the video path stays as it was.
HdmiPhyInit(x, m) ==
  UNION {{[tx |-> y, ok |-> FALSE]} \cup {[tx |-> z, ok |-> o] : z \in HdmiPhyConfigure(y, m), o \in BOOLEAN}
         : y \in HdmiPhyConfigure(x, m)}
HdmiInitAvComposer(x, t) == [x EXCEPT !.res = t.res]
HdmiEnableVideoPath(x) == [x EXCEPT !.path = TRUE]
HdmiInit(x, t, m) == {[r EXCEPT !.tx = IF r.ok THEN HdmiEnableVideoPath(@) ELSE @]
                      : r \in HdmiPhyInit(HdmiInitAvComposer(x, t), m)}

\* HdmiReadEdid: any of 128 bytes may fail, and so may signature, checksum and the pool.
NoEdid == [detailed |-> <<>>, standard |-> {}, established |-> {}, ok |-> FALSE]
HdmiReadEdid(x) == {[tx |-> r.tx, edid |-> e] : r \in HdmiInit(x, modes[VGA], VGA), e \in Edids \cup {NoEdid}}
ReadOutcomes(x) == {[r EXCEPT !.edid = IF o THEN @ ELSE NoEdid] : r \in HdmiReadEdid(x), o \in BOOLEAN}

----------------------------------------------------------------------------
(* InitializeDisplay, at the driver's first question; later calls return what it found. *)

ActiveModes(ms) == {m \in Modes : ms[m].active}
Fallback(ms) == Activate(ms, {SVGA})

WithPanel(p) ==
  LET match == {m \in Modes : Table[m] = p.res}
  IN IF match = {} THEN modes' = Fallback(modes) /\ pcd' = Table[SVGA] /\ UNCHANGED lvds
     ELSE modes' = Activate(modes, {Min(match)}) /\ pcd' = p.res /\ lvds' = p

LvdsShutdown(v) == [v EXCEPT !.lvds.on = FALSE]
WithMonitor ==
  /\ vdu' = LvdsShutdown(vdu) /\ UNCHANGED lvds
  /\ \E r \in ReadOutcomes(hdmi) :
       /\ hdmi' = r.tx
       /\ IF r.edid = NoEdid THEN modes' = Fallback(modes) /\ pcd' = Table[SVGA]
          ELSE modes' = ParseEdidData(modes, r.edid) /\ UNCHANGED pcd

LcdIdentify == \* no controller of this kind: the driver does not load
  /\ gop = "off" /\ gop' = "gone"
  /\ UNCHANGED <<tree, modes, panel, lvds, active, pcd, shown, vdu, hdmi, pll, denied>>
GetMaxMode ==
  /\ gop = "off" /\ gop' = "asked"
  /\ panel' = FdtGetPanelTimings(tree)
  /\ \/ panel'.ports # 0 /\ WithPanel(panel') /\ UNCHANGED <<vdu, hdmi>>
     \/ panel'.ports = 0 /\ WithMonitor
  /\ active' = Cardinality(ActiveModes(modes'))
  /\ UNCHANGED <<tree, shown, pll, denied>>

\* LcdPlatformGetVram and LcdInitialize; without memory the driver shuts the display down.
LcdShutdown(v) == [v EXCEPT !.lvds.on = FALSE, !.hdmi.on = FALSE]
LcdInitialize(v) == [v EXCEPT !.lvds.base = VramBase, !.hdmi.base = VramBase]
GetVram ==
  /\ gop = "asked" /\ active > 0
  /\ \/ gop' = "ready" /\ vdu' = LcdInitialize(vdu)
     \/ gop' = "gone" /\ vdu' = LcdShutdown(vdu)
  /\ UNCHANGED <<tree, modes, panel, lvds, active, pcd, shown, hdmi, pll, denied>>

----------------------------------------------------------------------------
(* Setting a mode. *)

FindActiveDisplayMode(n) ==
  CHOOSE m \in ActiveModes(modes) : Cardinality({k \in ActiveModes(modes) : k < m}) = n
TimingOf(m) == [res |-> modes[m].res, by |-> modes[m].by, osc |-> modes[m].osc]
PanelTimingNoClock == [res |-> lvds.res, by |-> lvds.by, osc |-> "none"]
PanelTiming == [res |-> lvds.res, by |-> lvds.by, osc |-> lvds.osc]
QueryMode(n) == modes[FindActiveDisplayMode(n)].res

\* LcdSetTimings: 32 bits per pixel; the end address is that of the last burst of 8 bytes.
FrameEnd(t) == LET last == VramBase + (4 * t.res[1] * t.res[2]) - 1 IN last - (last % 8)
LcdSetTimings(v, t, on, ports) == [v EXCEPT !.timing = t, !.end = FrameEnd(t), !.on = on, !.ports = ports]

\* LcdPlatformSetMode: the secure monitor may refuse a clock; nobody looks.
SetClock(old, t) == {old, t}
BothClocks(m) == {[hdmi |-> h, lvds |-> l] : h \in SetClock(pll.hdmi, TimingOf(m)), l \in SetClock(pll.lvds, PanelTiming)}

SetOutputs(v, m) ==
  LET h == [v EXCEPT !.hdmi = LcdSetTimings(@, TimingOf(m), TRUE, 0)]
  IN IF LvdsEnabled THEN [h EXCEPT !.lvds = LcdSetTimings(@, PanelTiming, TRUE, lvds.ports)] ELSE h

SetMode(n) ==
  LET m == FindActiveDisplayMode(n) IN
  /\ gop = "ready" /\ n < active
  /\ shown' = n
  /\ pll' \in BothClocks(m)
  /\ \E r \in HdmiInit(hdmi, TimingOf(m), m) : hdmi' = r.tx
  /\ denied' = (pll' # [hdmi |-> TimingOf(m), lvds |-> PanelTiming] \/ hdmi'.phy # m)
  /\ vdu' = SetOutputs(vdu, m)
  /\ UNCHANGED <<gop, tree, modes, panel, lvds, active, pcd>>

ExitBootServicesEvent ==
  /\ gop = "ready" /\ gop' = "gone" /\ vdu' = LcdShutdown(vdu)
  /\ UNCHANGED <<tree, modes, panel, lvds, active, pcd, shown, hdmi, pll, denied>>

VduNext == LcdIdentify \/ GetMaxMode \/ GetVram \/ (\E n \in 0..9 : SetMode(n)) \/ ExitBootServicesEvent

VduSpec == VduInit /\ [][VduNext]_vduVars

----------------------------------------------------------------------------
Inside(v) == v.base = VramBase /\ v.end >= v.base /\ v.end + 8 <= VramBase + VramSize

\* Every number the driver may ask for shows the resolution the driver was told, from memory it owns,
\* with clock and syncs of one source: a monitor's own timing replaces that of the table as a whole.
MonitorDriven ==
  vdu.hdmi.on => /\ vdu.hdmi.timing.res = QueryMode(shown) /\ hdmi.res = QueryMode(shown)
                 /\ Inside(vdu.hdmi)
                 /\ vdu.hdmi.timing.by = vdu.hdmi.timing.osc
                 /\ denied \/ pll.hdmi = vdu.hdmi.timing

\* A panel whose resolution is in the table gets its own timing and clock, both outputs read the same
\* lines of the one frame buffer, and the console is told that resolution.
PanelDriven ==
  (vdu.lvds.on /\ \E m \in Modes : Table[m] = panel.res)
     => /\ vdu.lvds.timing = [res |-> panel.res, by |-> panel.by, osc |-> panel.osc] /\ vdu.lvds.ports = panel.ports
        /\ Inside(vdu.lvds) /\ vdu.lvds.timing.res = vdu.hdmi.timing.res
        /\ active = 1 /\ pcd = panel.res
        /\ denied \/ pll.lvds = vdu.lvds.timing

\* The picture has the size that was reported, on a monitor and on a panel (LcdPlatformQueryMode, LcdSetMode).
PictureAsReported == MonitorDriven /\ PanelDriven

(* "If video mode was not discovered, set 800x600 as the only active mode" (BaikalVduPlatform.c:666).    *)
(* False for the code when the panel's resolution is not in the table.                                   *)
SomeMode == gop = "asked" => active > 0
============================================================================
