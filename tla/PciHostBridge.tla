--------------------------- MODULE PciHostBridge ---------------------------
(***************************************************************************)
(* The PCIe root complexes of both chips: the constructors of              *)
(* PciHostBridgeLib, which read the device tree, program the address       *)
(* translation windows and bring the links up one after the other, the     *)
(* link retraining of the BM1000, and PciSegmentLib, which turns the       *)
(* address of a configuration register into an address in those windows.   *)
(*                                                                         *)
(* The links are external and may drop or recover between any two accesses *)
(* that the driver makes to them.  Addresses are scaled: a function takes  *)
(* 1 unit, a device Dev, a bus Bus, a translation granule (64 KiB) Granule, *)
(* and the aligned configuration region of a segment (256 buses)           *)
(* Buses * Bus.                                                            *)
(***************************************************************************)
EXTENDS Naturals, Sequences, FiniteSetsExt

CONSTANTS
  Dev, Bus, Granule, Buses,  \* the scaled geometry
  Ports,                     \* the root ports of the chip
  Trees,                     \* bound: device trees, [soc, nodes]; nodes \in Seq of [seg, ok, base, size, max]
  Devices,                   \* bound: devices in the slots, [speed, kind]; speed 0 is an empty slot
  DetectTime, UpTime, AnswerTime, RetrainTime,  \* time limits, in polls
  MaxDrops                   \* bound: times that a link drops by itself

ASSUME PciAssumption ==
  /\ {Dev, Bus, Granule, Buses, Ports} \subseteq Nat \ {0}
  /\ Bus % Dev = 0 /\ Dev <= Granule /\ Granule <= Bus
  /\ {DetectTime, UpTime, AnswerTime, RetrainTime, MaxDrops} \subseteq Nat
  /\ Devices \subseteq [speed : Nat, kind : {"mute", "filters", "type1", "plain"}]
  /\ \A t \in Trees :
       /\ t.soc \in {"BM1000", "BS1000"}
       /\ t.nodes \in Seq([seg : Nat, ok : BOOLEAN, base : Nat, size : Nat, max : Nat])

\* What the constructors take for granted, or ASSERT, about the tree.  BM1000: each enabled node
\* is another root port.  BS1000: there are not more of them than root ports, and their regions
\* start where the translation takes bus 0 from, and hold more than two buses.
ASSUME TreeAssumption ==
  \A t \in Trees :
    /\ t.soc = "BM1000" =>
         \A i, j \in DOMAIN t.nodes :
           i # j /\ t.nodes[i].ok /\ t.nodes[j].ok => t.nodes[i].seg # t.nodes[j].seg
    /\ t.soc = "BS1000" =>
         /\ Len(t.nodes) <= Ports
         /\ \A i \in DOMAIN t.nodes : t.nodes[i].ok =>
              LET n == t.nodes[i]
              IN  n.base % (Buses * Bus) = 0 /\ 2 * Bus < n.size /\ n.size <= Buses * Bus

Segs == 0 .. Ports - 1
NoBridge == [base |-> 0, size |-> 0, max |-> 0]

VARIABLES
  soc,    \* "BM1000" or "BS1000"
  nodes,   \* nodes of the device tree not yet looked at
  bridge,  \* [Segs -> record or NoBridge]: mPcieRootBridges, mPcieCfgBases, mPcieCfgSizes
  idxs,    \* mPcieIdxs
  win,     \* [Segs -> set of windows]: the iATU regions for configuration cycles
  port,    \* [Segs -> registers of the root port]
  link,    \* external: [Segs -> LTSSM state]
  speed,   \* external: [Segs -> negotiated speed]
  dev,     \* external: [Segs -> device]
  pc, cur, \* where the constructor is, and the segment it works on
  todo,    \* bridges not yet initialised or retrained
  exists,  \* ComponentExists
  time,    \* polls since TimeStart
  noPhy,   \* history: segments whose PHY did not answer
  asked,   \* TargetSpeed
  blind,   \* history: segments whose device's speed was read from a link that had dropped
  drops    \* bound

tree == <<soc, nodes, bridge, idxs, win>>
env  == <<link, speed, dev, drops>>
caps == <<asked, blind>>
pciVars == <<tree, port, env, pc, cur, todo, exists, time, noPhy, caps>>

----------------------------------------------------------------------------
(* PciSegmentLib.                                                          *)

\* PciSegmentLibGetConfigBase, for a link that is up; "dbi" is the root port itself.
ConfigBase(s, b, d, f) ==
  IF b = 0 THEN IF d = 0 THEN [where |-> "dbi", at |-> f] ELSE [where |-> "nowhere", at |-> 0]
  ELSE IF b = 1 /\ d # 0 THEN [where |-> "nowhere", at |-> 0]
  ELSE [where |-> "window", at |-> bridge[s].base + b * Bus + d * Dev + f]

\* The aligned accesses that PciSegmentReadBuffer and PciSegmentWriteBuffer make.
Access(at, w) == [at |-> at, width |-> w]

\* Mutant: the first word is read although only a byte is left.
SplitNoSize(start, size) ==
  LET b  == IF size > 0 /\ start % 2 = 1 THEN 1 ELSE 0
      w  == IF (start + b) % 4 = 2 THEN 2 ELSE 0
      n  == IF size > b + w THEN (size - b - w) \div 4 ELSE 0
      at == start + b + w + 4 * n
      r  == IF size > b + w + 4 * n THEN size - b - w - 4 * n ELSE 0
  IN  {Access(start, 1) : x \in 1 .. b} \cup {Access(start + b, 2) : x \in 1 .. w}
        \cup {Access(start + b + w + 4 * (k - 1), 4) : k \in 1 .. n}
        \cup {Access(at, 2) : x \in 1 .. r \div 2}
        \cup {Access(at + 2 * (r \div 2), 1) : x \in 1 .. r % 2}

Split(start, size) ==
  LET b  == IF size > 0 /\ start % 2 = 1 THEN 1 ELSE 0
      w  == IF size - b >= 2 /\ (start + b) % 4 = 2 THEN 2 ELSE 0
      n  == (size - b - w) \div 4
      at == start + b + w + 4 * n
      r  == size - b - w - 4 * n
  IN  {Access(start, 1) : x \in 1 .. b} \cup {Access(start + b, 2) : x \in 1 .. w}
        \cup {Access(start + b + w + 4 * (k - 1), 4) : k \in 1 .. n}
        \cup {Access(at, 2) : x \in 1 .. r \div 2}
        \cup {Access(at + 2 * (r \div 2), 1) : x \in 1 .. r % 2}

----------------------------------------------------------------------------
(* The device tree: which nodes become bridges, with which region.         *)

Reset0 == [ltssm |-> FALSE, dbi2 |-> FALSE, target |-> 1, quirk |-> FALSE]

\* Mutant: the region is not aligned.
BmBaseAsIs(n) == n.base

\* BM1000: the region starts at the 256 MiB boundary below the registers of the node ...
BmBase(n) == (n.base \div (Buses * Bus)) * (Buses * Bus)
\* ... and leaves out the last bus.
BmSize(n) == Min({n.base + n.size - BmBase(n), (Buses - 1) * Bus})

BmBaseValid(n) == BmBase(n) + Bus >= n.base
BmAccepted(n)  == n.ok /\ n.seg \in Segs /\ BmBaseValid(n) /\ BmSize(n) >= 2 * Bus

\* A node with a region that does not fit leaves base and perhaps size behind.
BmBridge(n) ==
  [base |-> BmBase(n),
   size |-> IF BmBaseValid(n) THEN BmSize(n) ELSE bridge[n.seg].size,
   max  |-> IF BmAccepted(n) THEN n.max ELSE bridge[n.seg].max]

BmNode ==
  /\ soc = "BM1000" /\ pc = "tree" /\ nodes # <<>> /\ Len(idxs) < Ports
  /\ LET n == Head(nodes) IN
       /\ bridge' = IF n.ok /\ n.seg \in Segs THEN [bridge EXCEPT ![n.seg] = BmBridge(n)] ELSE bridge
       /\ idxs' = IF BmAccepted(n) THEN Append(idxs, n.seg) ELSE idxs
  /\ nodes' = Tail(nodes)
  /\ UNCHANGED <<soc, win, port, env, pc, cur, todo, exists, time, noPhy, caps>>

BmTreeRead ==
  /\ soc = "BM1000" /\ pc = "tree" /\ (nodes = <<>> \/ Len(idxs) = Ports)
  /\ pc' = IF idxs = <<>> THEN "done" ELSE "next"
  /\ todo' = idxs
  /\ UNCHANGED <<tree, port, env, cur, exists, time, noPhy, caps>>

\* BS1000: bridges are numbered in the order of their nodes; a bridge is brought up at once.
BsBridge(n) == [base |-> n.base, size |-> n.size, max |-> n.max]

BsNode ==
  /\ soc = "BS1000" /\ pc = "tree" /\ nodes # <<>>
  /\ LET n == Head(nodes)
         s == Len(idxs)
     IN IF n.ok
        THEN /\ bridge' = [bridge EXCEPT ![s] = BsBridge(n)]
             /\ idxs' = Append(idxs, s) /\ todo' = <<s>> /\ pc' = "next"
        ELSE UNCHANGED <<bridge, idxs, todo, pc>>
  /\ nodes' = Tail(nodes)
  /\ UNCHANGED <<soc, win, port, env, cur, exists, time, noPhy, caps>>

BsTreeRead ==
  /\ soc = "BS1000" /\ pc = "tree" /\ nodes = <<>>
  /\ pc' = "done"
  /\ UNCHANGED <<tree, port, env, cur, todo, exists, time, noPhy, caps>>

----------------------------------------------------------------------------
(* Root port set-up: resets, windows, link training.                       *)

\* PciHostBridgeLibCfgWindow.
Window(type, at, size) == [type |-> type, lo |-> at, hi |-> at + size - 1]

ConfigWindows(s) ==
  {Window("cfg0", bridge[s].base + Bus, Granule),
   Window("cfg1", bridge[s].base + 2 * Bus, bridge[s].size - 2 * Bus)}

SetWindows(s) == win' = [win EXCEPT ![s] = ConfigWindows(s)]
Training(s, target) ==
  port' = [port EXCEPT ![s] = [Reset0 EXCEPT !.ltssm = TRUE, !.target = target]]

StartWait == pc' = "wait" /\ time' = 0 /\ exists' = FALSE

\* The BM1000 resets the core with PERST asserted and limits the link to 2.5 GT/s at first.
BmRootPort ==
  /\ soc = "BM1000" /\ pc = "next" /\ todo # <<>>
  /\ cur' = Head(todo) /\ todo' = Tail(todo)
  /\ SetWindows(Head(todo)) /\ Training(Head(todo), 1)
  /\ link' = [link EXCEPT ![Head(todo)] = "detect"]
  /\ StartWait
  /\ UNCHANGED <<soc, nodes, bridge, idxs, speed, dev, drops, noPhy, caps>>

\* PciHostBridgeLibRootBrigeInit and the head of PciHostBridgeLibRootBridgeLinkUp.
BsRootPort ==
  /\ soc = "BS1000" /\ pc = "next" /\ todo # <<>>
  /\ cur' = Head(todo) /\ todo' = Tail(todo)
  /\ SetWindows(Head(todo)) /\ Training(Head(todo), bridge[Head(todo)].max)
  /\ link' = [link EXCEPT ![Head(todo)] = "detect"]
  /\ StartWait
  /\ UNCHANGED <<soc, nodes, bridge, idxs, speed, dev, drops, noPhy, caps>>

Up(s) == link[s] = "L0"              \* PciHostBridgeLibGetLink
Seen  == exists \/ link[cur] # "detect"

\* One turn of the loop that waits for the link.
Polled(next) == pc' = next /\ exists' = Seen

NoPartner ==
  /\ pc = "wait" /\ ~Seen /\ time > DetectTime
  /\ Polled("next") /\ UNCHANGED <<tree, port, env, cur, todo, time, noPhy, caps>>

LinkUp ==
  /\ pc = "wait" /\ Seen /\ Up(cur)
  /\ Polled("answer") /\ UNCHANGED <<tree, port, env, cur, todo, time, noPhy, caps>>

LinkGivenUp ==
  /\ pc = "wait" /\ Seen /\ ~Up(cur) /\ time > UpTime
  /\ port' = [port EXCEPT ![cur].ltssm = FALSE]
  /\ Polled("next") /\ UNCHANGED <<tree, env, cur, todo, time, noPhy, caps>>

\* Mutant: the time limit starts again.
CoreResetRestarts ==
  /\ soc = "BM1000" /\ pc = "wait" /\ link[cur] = "compliance" /\ time <= UpTime
  /\ link' = [link EXCEPT ![cur] = "detect"]
  /\ time' = 0
  /\ Polled("wait") /\ UNCHANGED <<tree, port, speed, dev, drops, cur, todo, noPhy, caps>>

\* Polling.Compliance: LTSSM off, PERST and core reset, and all of it back.
CoreReset ==
  /\ soc = "BM1000" /\ pc = "wait" /\ link[cur] = "compliance" /\ time <= UpTime
  /\ link' = [link EXCEPT ![cur] = "detect"]
  /\ time' = time + 1
  /\ Polled("wait") /\ UNCHANGED <<tree, port, speed, dev, drops, cur, todo, noPhy, caps>>

WaitOn ==
  /\ pc = "wait"
  /\ IF Seen THEN ~Up(cur) /\ time <= UpTime /\ ~(soc = "BM1000" /\ link[cur] = "compliance")
             ELSE time <= DetectTime
  /\ time' = time + 1
  /\ Polled("wait") /\ UNCHANGED <<tree, port, env, cur, todo, noPhy, caps>>

\* Until the device answers configuration cycles; then whether it takes those for other
\* device numbers too.  A link that has dropped reads as ones, a mute device as zeros.
AnswerWait ==
  /\ pc = "answer" /\ Up(cur) /\ dev[cur].kind = "mute" /\ time <= AnswerTime
  /\ time' = time + 1
  /\ UNCHANGED <<tree, port, env, pc, cur, todo, exists, noPhy, caps>>

DeviceAnswered ==
  /\ pc = "answer" /\ (~Up(cur) \/ dev[cur].kind # "mute" \/ time > AnswerTime)
  /\ port' = [port EXCEPT ![cur].quirk = ~Up(cur) \/ dev[cur].kind \notin {"filters", "type1"}]
  /\ pc' = "next"
  /\ UNCHANGED <<tree, env, cur, todo, exists, time, noPhy, caps>>

BsNext ==
  /\ soc = "BS1000" /\ pc = "next" /\ todo = <<>>
  /\ pc' = "tree"
  /\ UNCHANGED <<tree, port, env, cur, todo, exists, time, noPhy, caps>>

----------------------------------------------------------------------------
(* PciHostBridgeLinkRetrain.                                               *)

BmAllUp ==
  /\ soc = "BM1000" /\ pc = "next" /\ todo = <<>>
  /\ pc' = "retrain" /\ todo' = idxs
  /\ UNCHANGED <<tree, port, env, cur, exists, time, noPhy, caps>>

RetrainPick ==
  /\ pc = "retrain"
  /\ IF todo = <<>> THEN pc' = "done" /\ UNCHANGED <<cur, todo>>
     ELSE /\ cur' = Head(todo) /\ todo' = Tail(todo)
          /\ pc' = IF Up(Head(todo)) THEN "walk" ELSE "retrain"
  /\ UNCHANGED <<tree, port, env, exists, time, noPhy, caps>>

\* The offset of the first capability.  A link that has dropped meanwhile reads as ones: the
\* offset becomes FFh, where no aligned access is possible.  A mute device has none.
FirstCap ==
  /\ pc = "walk"
  /\ pc' = IF ~Up(cur) THEN "abort" ELSE IF dev[cur].kind = "mute" THEN "retrain" ELSE "list"
  /\ UNCHANGED <<tree, port, env, cur, todo, exists, time, noPhy, caps>>

\* The headers of the list, up to the PCI Express capability: on a dropped link the same.
CapWalk ==
  /\ pc = "list"
  /\ pc' = IF Up(cur) THEN "speed" ELSE "abort"
  /\ UNCHANGED <<tree, port, env, cur, todo, exists, time, noPhy, caps>>

\* DevCapSpeed has three bits: all of them, when the link has dropped since.
AllOnes == 7
DevCapSpeed == IF Up(cur) THEN dev[cur].speed ELSE AllOnes

ReadSpeed ==
  /\ pc = "speed"
  /\ asked' = Min({DevCapSpeed, bridge[cur].max})
  /\ blind' = IF Up(cur) THEN blind \ {cur} ELSE blind \cup {cur}
  /\ pc' = "status"
  /\ UNCHANGED <<tree, port, env, cur, todo, exists, time, noPhy>>

\* The speed of the link, from the root port itself.
ReadStatus ==
  /\ pc = "status"
  /\ pc' = IF asked = speed[cur] THEN "retrain" ELSE IF asked >= 3 THEN "phy" ELSE "target"
  /\ UNCHANGED <<tree, port, env, cur, todo, exists, time, noPhy, caps>>

\* Mutant: DBI2 stays enabled.
SetupPhyKeepsDbi2 ==
  /\ pc = "phy"
  /\ pc' = "target"
  /\ port' = [port EXCEPT ![cur].dbi2 = TRUE]
  /\ UNCHANGED <<tree, env, cur, todo, exists, time, noPhy, caps>>

\* PciHostBridgeLibSetupPhy opens the PHY registers and DBI2; when the PHY does not answer
\* it returns at once, with both open.
SetupPhy ==
  /\ pc = "phy"
  /\ pc' = "target"
  /\ \/ UNCHANGED <<port, noPhy, caps>>
     \/ /\ port' = [port EXCEPT ![cur].dbi2 = TRUE]
        /\ noPhy' = noPhy \cup {cur}
  /\ UNCHANGED <<tree, env, cur, todo, exists, time, caps>>

\* With DBI2 enabled the writes go to the shadow registers.
SetTarget ==
  /\ pc = "target"
  /\ IF port[cur].dbi2 THEN UNCHANGED <<port, link>>
     ELSE /\ port' = [port EXCEPT ![cur].target = asked]
          /\ link' = IF Up(cur) THEN [link EXCEPT ![cur] = "recovery"] ELSE link
  /\ pc' = "retraining" /\ time' = 0
  /\ UNCHANGED <<tree, speed, dev, drops, cur, todo, exists, noPhy, caps>>

Retrained ==
  /\ pc = "retraining" /\ Up(cur)
  /\ IF speed[cur] >= asked THEN pc' = "retrain" /\ UNCHANGED <<link, time>>
     ELSE /\ pc' = "again" /\ time' = 0
          /\ link' = IF port[cur].dbi2 THEN link ELSE [link EXCEPT ![cur] = "recovery"]
  /\ UNCHANGED <<tree, port, speed, dev, drops, cur, todo, exists, noPhy, caps>>

RetrainLost ==
  /\ pc = "retraining" /\ link[cur] = "lost"
  /\ port' = [port EXCEPT ![cur].ltssm = FALSE]
  /\ pc' = "retrain"
  /\ UNCHANGED <<tree, env, cur, todo, exists, time, noPhy, caps>>

RetrainWait ==
  /\ pc = "retraining" /\ ~Up(cur) /\ link[cur] # "lost"
  /\ IF time > RetrainTime THEN pc' = "retrain" /\ UNCHANGED time
     ELSE time' = time + 1 /\ UNCHANGED pc
  /\ UNCHANGED <<tree, port, env, cur, todo, exists, noPhy, caps>>

\* The second attempt waits for the end of the training only.
SecondWait ==
  /\ pc = "again"
  /\ IF link[cur] # "recovery" \/ time > RetrainTime THEN pc' = "retrain" /\ UNCHANGED time
     ELSE time' = time + 1 /\ UNCHANGED pc
  /\ UNCHANGED <<tree, port, env, cur, todo, exists, noPhy, caps>>

----------------------------------------------------------------------------
(* External: the links.                                                    *)

LinkMoves(s, from, to) ==
  /\ link[s] = from /\ port[s].ltssm /\ link' = [link EXCEPT ![s] = to]

\* A link may train at less than the port and the device offer.
LinkTrains ==
  \E s \in Segs :
    /\ dev[s].speed > 0
    /\ \/ (LinkMoves(s, "detect", "polling") \/ LinkMoves(s, "polling", "compliance")) /\ UNCHANGED speed
       \/ /\ LinkMoves(s, "polling", "L0") \/ LinkMoves(s, "recovery", "L0")
          /\ \E v \in 1 .. Min({dev[s].speed, port[s].target}) : speed' = [speed EXCEPT ![s] = v]
    /\ UNCHANGED <<tree, port, dev, drops, pc, cur, todo, exists, time, noPhy, caps>>

LinkDrops ==
  \E s \in Segs :
    /\ drops < MaxDrops /\ drops' = drops + 1
    /\ \/ LinkMoves(s, "L0", "recovery") \/ LinkMoves(s, "recovery", "lost")
       \/ LinkMoves(s, "L0", "lost")
    /\ UNCHANGED <<tree, port, speed, dev, pc, cur, todo, exists, time, noPhy, caps>>

PciInit ==
  /\ \E t \in Trees : soc = t.soc /\ nodes = t.nodes
  /\ bridge = [s \in Segs |-> NoBridge] /\ idxs = <<>>
  /\ win = [s \in Segs |-> {}]
  /\ port = [s \in Segs |-> Reset0]
  /\ link = [s \in Segs |-> "detect"] /\ speed = [s \in Segs |-> 0]
  /\ dev \in [Segs -> Devices]
  /\ pc = "tree" /\ cur = 0 /\ todo = <<>> /\ exists = FALSE /\ time = 0
  /\ noPhy = {} /\ asked = 0 /\ blind = {} /\ drops = 0

Constructor ==
  \/ BmNode \/ BmTreeRead \/ BsNode \/ BsTreeRead \/ BmRootPort \/ BsRootPort
  \/ NoPartner \/ LinkUp \/ LinkGivenUp \/ CoreReset \/ WaitOn \/ AnswerWait \/ DeviceAnswered
  \/ BsNext \/ BmAllUp \/ RetrainPick \/ FirstCap \/ CapWalk \/ ReadSpeed \/ ReadStatus \/ SetupPhy \/ SetTarget
  \/ Retrained \/ RetrainLost \/ RetrainWait \/ SecondWait

PciNext == Constructor \/ LinkTrains \/ LinkDrops

\* The constructor runs to its end on the boot processor: each of its steps ends.
PciSpec == PciInit /\ [][PciNext]_pciVars /\ WF_pciVars(Constructor)

----------------------------------------------------------------------------
\* When the PCI bus driver starts, every configuration address that PciSegmentLib computes for a bus of a bridge falls into
\* exactly one window, of the type that its bus asks for, and names the function it was
\* computed for (the translation takes bus, device and function from the address itself).
ConfigRoute ==
  pc = "done" => \A s \in {x \in Segs : win[x] # {}} :
    \A b \in 0 .. (bridge[s].size \div Bus) - 1, d \in 0 .. (Bus \div Dev) - 1, f \in 0 .. Dev - 1 :
      LET a == ConfigBase(s, b, d, f)
          hits == {w \in win[s] : a.at \in w.lo .. w.hi}
      IN a.where = "window" =>
           /\ {w.type : w \in hits} = {IF b = 1 THEN "cfg0" ELSE "cfg1"}
           /\ a.at % (Buses * Bus) = b * Bus + d * Dev + f

\* The transfers of a buffer are aligned, do not overlap and cover exactly the range asked
\* for, whatever its start and size (PciSegmentReadBuffer and PciSegmentWriteBuffer).
\* It speaks of no state, and is evaluated where a behaviour starts.
BufferCovered ==
  pc = "tree" => \A start \in 0 .. 7, size \in 0 .. 11 :
    LET as == Split(start, size)
        bytes(a) == a.at .. a.at + a.width - 1
    IN /\ UNION {bytes(a) : a \in as} = start .. start + size - 1
       /\ \A a \in as : a.at % a.width = 0
       /\ \A a, b \in as : a = b \/ bytes(a) \cap bytes(b) = {}

\* Every access to a configuration register, or to a range of them, reaches each of the bytes
\* it names once, in the function it names.
RegistersReached == ConfigRoute /\ BufferCovered

\* A port retrains with the speed that its device and its limit allow in its registers, as
\* long as its PHY answers (the writes must not end up in the shadow registers).  If its link
\* dropped before the speed of its device was read, the limit is all it knows.
Wanted(s) == Min({IF s \in blind THEN AllOnes ELSE dev[s].speed, bridge[s].max})
SpeedReachesPort ==
  pc = "retraining" /\ cur \notin noPhy => port[cur].target = Wanted(cur)

\* Whatever the links do, the constructor comes to its end, or to the unaligned access of
\* the capability walk.
Ended == pc \in {"done", "abort"}
ConstructorEnds == <>Ended
=============================================================================
