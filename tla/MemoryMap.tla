----------------------------- MODULE MemoryMap -----------------------------
(* What the firmware says of the memory, and where: the page tables (PlatformLibMem.c of each board),    *)
(* the memory the DXE core allocates from (BaikalMemoryInitPeiLib, then HighMemDxe for the banks of the  *)
(* device tree), and on the BS1000 the SRAT and the SMBIOS tables of type 19 (BaikalMemoryRangeLib).     *)
(* Addresses are a chip and a page of 4 KB on it; a range names its first and its last page.             *)
EXTENDS DeviceTree

CONSTANTS Memories,   \* [board |-> "bm" or "bs", chips |-> PLATFORM_CHIP_COUNT, tree |-> the device tree]
          MayRefuse   \* whether page tables or the SMBIOS driver may run out of memory

VARIABLES machine,    \* the element of Memories
          step,       \* "reset", then "dxe"
          table,      \* ranges of the page tables, with their caching
          gcd,        \* ranges of the GCD map that are not NonExistent, allocatable or reserved
          node, left, \* HighMemDxe: the memory node it is at and what is left of its reg
          refused,    \* ranges whose attributes HighMemDxe could not set
          srat,       \* the table, NoSrat before it is made
          type19      \* the tables made, and how the driver that makes them has ended
memoryVars == <<machine, step, table, gcd, node, left, refused, srat, type19>>

NoSrat == [memory |-> <<>>, cores |-> <<>>, its |-> <<>>]
Over == -2   \* node, after the last
NotRun == [tables |-> <<>>, status |-> "not run"]

----------------------------------------------------------------------------
(* The page tables. *)

Region(chip, base, pages, wb) == [chip |-> chip, base |-> base, last |-> base + (pages - 1), wb |-> wb]
Devices(chip, spans) == {Region(chip, s[1], s[2], FALSE) : s \in spans}

\* PcdSystemMemoryBase and PcdSystemMemorySize are both 0x80000000.
SystemMemory == {Region(0, \h80000, \h10000, TRUE), Region(0, \h91000, \h80000 - \h11000, TRUE)}
Secure == [chip |-> 0, base |-> \h90000, last |-> \h90FFF]

BmDevices ==
  {<<\h02050, 1>>, <<\h02200, 1>>, <<\h02210, 1>>, <<\h02220, 1>>,
   <<\h2C400, 16>>, <<\h2C500, 16>>, <<\h2C600, 1>>, <<\h2C610, 1>>, <<\h2D000, 512>>,
   <<\h30200, 32>>, <<\h30220, 32>>, <<\h30240, 2>>, <<\h30250, 2>>, <<\h30260, 1>>, <<\h30280, 32>>,
   <<\h40100, \hFF00>>, <<\h50000, \h10000>>, <<\h60000, \h20000>>}
  \* GPIO32, SPI, UART1-2, I2C1-2, SMBUS1-2, eSPI, LVDS_VDU, MMC
  \cup {<<\h20200 + n * 16, 1>> : n \in {0, 1, 3, 4, 5, 6, 7, 8, 10, 13, 14}}
BmWindows ==
  {<<\h400000, \h100000>>, <<\h500000, \h100000>>, <<\h600000, \h200000>>,
   <<\h4000000, \h1000000>>, <<\h5000000, \h1000000>>, <<\h6000000, \h2000000>>}
BmMap == SystemMemory \cup Devices(0, BmDevices) \cup Devices(0, BmWindows)

\* PCIe controller c of a BS1000 has Ports(c) ports, its registers at Pcie(c) and its windows at Mmio(c).
Ports(c) == 0 .. IF c <= 2 THEN 1 ELSE 3
Pcie(c) == <<\h39000, \h3D000, \h45000, \h49000, \h4D000>>[c + 1]
Mmio(c) == <<\h70000000, \h78000000, \h50000000, \h40000000, \h60000000>>[c + 1]
BsDevices ==
  {<<\hA00, 1>>, <<\hA10, 1>>, <<\hA20, 16>>, <<\hA30, 16>>, <<\h1000, 4096>>}
  \cup {<<\hC50 + n * 16, 1>> : n \in 0 .. 8}   \* GPIO32, GPIO16, GPIO8_1-2, I2C2-6
BsUart == {<<\hC00, 1>>}   \* UART_A1
PcieSpans(c) == {<<Pcie(c) - \h2C0, 8>>}
                \cup {<<Pcie(c) + p * \h400, \h300>> : p \in Ports(c)}
                \cup {<<Pcie(c) + p * \h400 + \h300, \h100>> : p \in Ports(c)}
MmioSpans(c) == {<<Mmio(c) + p * \h4000000, \h4000000>> : p \in Ports(c)}
BsRegisters == UNION {PcieSpans(c) : c \in 0 .. 4}
BsWindows == UNION {MmioSpans(c) : c \in 0 .. 4}
BsMap(chips) == SystemMemory \cup Devices(0, BsUart)
                \cup UNION {Devices(c, BsDevices \cup BsRegisters \cup BsWindows) : c \in 0 .. chips - 1}

VirtualMap(m) == IF m.board = "bm" THEN BmMap ELSE BsMap(m.chips)
MaxDescriptors(m) == IF m.board = "bm" THEN 38 ELSE 65 + (m.chips - 1) * 61

----------------------------------------------------------------------------
(* The GCD map of the DXE core. *)

Span(r) == [chip |-> r.chip, base |-> r.base, last |-> r.last]
Overlap(r, s) == r.chip = s.chip /\ r.base <= s.last /\ s.base <= r.last
Within(r, s) == r.chip = s.chip /\ s.base <= r.base /\ r.last <= s.last
Described(r) == r.chip \in {0, 1}   \* 44 bits of physical address
Exists(r) == \E s \in gcd : Overlap([r EXCEPT !.last = r.base], s)
AddMemorySpace(r) == r.base <= r.last /\ \A s \in gcd : ~Overlap(r, s)

----------------------------------------------------------------------------

MemoryInit ==
  /\ machine \in Memories /\ step = "reset"
  /\ table = {} /\ gcd = {} /\ node = 0 /\ left = <<>> /\ refused = {} /\ srat = NoSrat /\ type19 = NotRun

\* Mutant: one resource for all the memory, and no allocation of the secure part.
SystemHobsForgetSecure == {[chip |-> 0, base |-> \h80000, last |-> \hFFFFF, reserved |-> FALSE]}
SystemHobs == {[chip |-> 0, base |-> \h80000, last |-> \h8FFFF, reserved |-> FALSE],
               [chip |-> 0, base |-> \h90000, last |-> \h90FFF, reserved |-> TRUE],
               [chip |-> 0, base |-> \h91000, last |-> \hFFFFF, reserved |-> FALSE]}
MemoryPeim ==
  /\ step = "reset" /\ step' = "dxe"
  /\ gcd' = SystemHobs /\ table' = VirtualMap(machine)
  /\ UNCHANGED <<machine, node, left, refused, srat, type19>>

NextMemoryNode ==
  /\ step = "dxe" /\ node # Over /\ left = <<>>
  /\ LET o == IF node = 0 THEN FindMemoryNodeReg(machine.tree) ELSE FindNextMemoryNodeReg(machine.tree, node)
     IN IF o = NoNode THEN node' = Over /\ UNCHANGED left
        ELSE node' = o /\ left' = GetNodeProperty(machine.tree, o, "reg")
  /\ UNCHANGED <<machine, step, table, gcd, refused, srat, type19>>

Bank(reg, i) == [chip |-> reg[i][1], base |-> reg[i][2], last |-> reg[i][2] + (reg[i + 1] - 1)]

\* Both calls write the page tables; that they fail is only logged.
AddBank ==
  /\ step = "dxe" /\ left # <<>>
  /\ left' = SubSeq(left, 3, Len(left))
  /\ LET b == Bank(left, 1) IN
     IF Described(b) /\ ~Exists(b) /\ AddMemorySpace(b)
     THEN /\ gcd' = gcd \cup {[chip |-> b.chip, base |-> b.base, last |-> b.last, reserved |-> FALSE]}
          /\ \E SetMemorySpaceAttributes, SetMemoryAttributes \in IF MayRefuse THEN BOOLEAN ELSE {TRUE} :
               IF SetMemorySpaceAttributes \/ SetMemoryAttributes
               THEN table' = table \cup {[chip |-> b.chip, base |-> b.base, last |-> b.last, wb |-> TRUE]} /\ UNCHANGED refused
               ELSE refused' = refused \cup {b} /\ UNCHANGED table
     ELSE UNCHANGED <<gcd, table, refused>>
  /\ UNCHANGED <<machine, step, node, srat, type19>>

\* The banks, node by node, until EFI_NOT_FOUND or an error, which a node with an empty reg is.
GetMemoryRanges(t) ==
  LET at[i \in 0 .. Len(t)] == IF i = 0 THEN <<0>>
                               ELSE LET s == at[i - 1] IN
                                    IF Last(s) = NoNode THEN s ELSE Append(s, FindNextMemoryNodeReg(t, Last(s)))
      nodes == SelectSeq(Tail(at[Len(t)]), LAMBDA o : o # NoNode)
      Add(walk, o) == LET reg == GetNodeProperty(t, o, "reg") IN
                      IF ~walk.found \/ reg = <<>> THEN [walk EXCEPT !.found = FALSE]
                      ELSE [walk EXCEPT !.ranges = @ \o [n \in 1 .. Len(reg) \div 2 |-> Bank(reg, 2 * n - 1)]]
  IN FoldLeft(Add, [ranges |-> <<>>, found |-> TRUE], nodes)

\* An error leaves no table.  The domain of a range is the chip its base is on; cores and ITSs are numbered chip by chip.
SratInit ==
  /\ step = "dxe" /\ machine.board = "bs" /\ machine.chips > 1 /\ srat = NoSrat
  /\ LET walk == GetMemoryRanges(machine.tree)
         ranges == walk.ranges IN
     /\ walk.found
     /\ srat' = [memory |-> [i \in DOMAIN ranges |-> ranges[i] @@ [domain |-> ranges[i].chip]],
                 cores |-> [n \in 0 .. machine.chips * 48 - 1 |-> n \div 48],
                 its |-> [n \in 0 .. machine.chips * 16 - 1 |-> n \div 16]]
  /\ UNCHANGED <<machine, step, table, gcd, node, left, refused, type19>>

\* A table for each bank, with both its ends, as the walk goes on.  An error of the walk, or a table that cannot be
\* added, ends the driver: the tables made so far stay.
SmbiosTable19 ==
  /\ step = "dxe" /\ machine.board = "bs" /\ type19 = NotRun
  /\ LET walk == GetMemoryRanges(machine.tree)
         all  == Len(walk.ranges)
     IN \E made \in IF MayRefuse THEN 0 .. all ELSE {all} :
          type19' = [tables |-> SubSeq(walk.ranges, 1, made),
                     status |-> IF made = all /\ walk.found THEN "success" ELSE "error"]
  /\ UNCHANGED <<machine, step, table, gcd, node, left, refused, srat>>

MemoryNext == MemoryPeim \/ NextMemoryNode \/ AddBank \/ SratInit \/ SmbiosTable19

----------------------------------------------------------------------------

\* The parts of MapsAgree: the page tables, the secure memory, what is handed out.
TablesApart == \A r, s \in table : r # s => ~Overlap(r, s)
SecureApart == /\ \A r \in table : ~Overlap(r, Secure)
               /\ \A g \in gcd : ~g.reserved => ~Overlap(g, Secure)
HandedOutIsMapped == \A g \in gcd : ~g.reserved => Span(g) \in refused \/ \E r \in table : r.wb /\ Within(g, r)
\* The page tables are ranges that do not overlap, as many as the array of descriptors was made for; no
\* part of the secure memory is mapped or handed out; and what is handed out is mapped write-back, unless
\* its attributes were refused.
MapsAgree ==
  step = "dxe" => /\ node = Over => TablesApart
                  /\ Cardinality(VirtualMap(machine)) + 1 = MaxDescriptors(machine)
                  /\ SecureApart /\ HandedOutIsMapped

\* The banks of the enabled memory nodes with a reg that makes sense, in the order of the tree.
Banks(tree) ==
  LET usable(n) == "device_type" \in DOMAIN n.props /\ "reg" \in DOMAIN n.props /\ Enabled(n) /\ Len(n.props["reg"]) % 2 = 0
      Add(banks, n) == banks \o [i \in 1 .. Len(n.props["reg"]) \div 2 |-> Bank(n.props["reg"], 2 * i - 1)]
  IN FoldLeft(Add, <<>>, SelectSeq(tree, usable))

\* In the end every bank of every enabled memory node can be allocated, whatever disabled, broken or empty memory nodes
\* lie between.  The SRAT, if it is made, names each of them once and puts it where the cores of its chip are.  The
\* SMBIOS tables name the banks in the order of the tree: all of them if the driver ends well, the first ones otherwise.
BanksReachEveryMap ==
  LET banks == Banks(machine.tree) IN
  /\ node = Over => \A b \in ToSet(banks) : \E g \in gcd : Overlap(b, g) /\ g.base = b.base
  /\ srat # NoSrat => /\ [k \in DOMAIN srat.memory |-> Span(srat.memory[k])] = banks
                      /\ \A m \in ToSet(srat.memory) : srat.cores[m.chip * 48] = m.domain
  /\ IsPrefix(type19.tables, banks)
  /\ type19.status = "success" => type19.tables = banks
=============================================================================
