-------------------------- MODULE Platform_proofs ---------------------------
(* Proofs about components that MCPlatform checks: the I2C transfer (DwI2c), the clock (BaikalRtc), the    *)
(* displays (BaikalVdu), the boot manager (PlatformBootManager), the settings (PlatformSetup), the       *)
(* network driver (GmacSnp) and the memory (MemoryMap).                                                  *)
EXTENDS GmacSnp, DwI2c, BaikalRtc, BaikalVdu, PlatformBootManager, Integers, SequenceTheorems, FiniteSetTheorems, FunctionTheorems,
        NaturalsInduction, TLAPS

Cell == 0..MemSize - 1
Commands == [op : {"rd", "wr"}, byte : Cell, stop : BOOLEAN]
Memory == [cell : [Cell -> Cell], ptr : Cell, first : BOOLEAN]
Looks == [rfne : BOOLEAN, tfnf : BOOLEAN, tfe : BOOLEAN, act : BOOLEAN]
Drivers == [pc : {"idle", "sample", "act", "stop", "ret"}, tx : Seq(Cell), n : Nat, txed : Nat, rx : Seq(Cell),
            st : Looks, ret : Int, calls : Int]
Controllers == [en : BOOLEAN, txf : Seq(Commands), rxf : Seq(Cell), cur : Commands \cup {None},
                open : {"no", "rd", "wr"}, abrt : BOOLEAN, hold : BOOLEAN]

BusTypes ==
  /\ i2c \in Drivers /\ ctl \in Controllers /\ mem \in Memory /\ ghost \in [from : Memory, fault : BOOLEAN]
  /\ Len(i2c.tx) > 1 => i2c.n = 0

\* The k-th command of a request, and how many bytes are behind d of them in which the memory answered.
Cmd(wr, n, k) == IF k <= Len(wr) THEN Wr(wr[k], k = Len(wr) + n) ELSE Rd(k = Len(wr) + n)
ReadOf(wr, d) == IF d > Len(wr) THEN d - Len(wr) ELSE 0
StartOf(wr, from) == IF wr = <<>> THEN from.ptr ELSE wr[1]
Expected(wr, from, j) == from.cell[(StartOf(wr, from) + j - 1) % MemSize]

\* d commands were carried out, one may be on its way, the others wait in their order.
Queued(wr, n, txed, txf, cur, d) ==
  /\ txed = d + Len(txf) + (IF cur = None THEN 0 ELSE 1) /\ txed <= Len(wr) + n
  /\ \A j \in 1..Len(txf) : txf[j] = Cmd(wr, n, txed - Len(txf) + j)
  /\ cur # None => cur = Cmd(wr, n, d + 1)

\* The memory takes the first byte of a write for the address, and only that, unless the controller let go
\* of the bus inside a longer write.
OnBus(wr, d, cur, open, first, hold) ==
  /\ cur # None => open = cur.op
  /\ d = 0 => IF cur = None THEN open = "no" /\ ~first ELSE (first <=> cur.op = "wr")
  /\ d > 0 /\ (Len(wr) <= 1 \/ hold) => ~first
  /\ hold /\ d > 0 /\ cur = None /\ d < Len(wr) => open = "wr"

CellAfter(wr, from, k, a) == LET K == {j \in 2..k : (wr[1] + j - 2) % MemSize = a} IN IF K = {} THEN from.cell[a] ELSE wr[Max(K)]
Stored(wr, d, from, cell, ptr) ==
  /\ \A a \in Cell : cell[a] = CellAfter(wr, from, IF d < Len(wr) THEN d ELSE Len(wr), a)
  /\ ptr = IF d = 0 THEN from.ptr ELSE (StartOf(wr, from) + d - (IF wr = <<>> THEN 0 ELSE 1)) % MemSize

\* Bytes that did not fit into the queue are missing, and then there are fewer than were read.
Delivered(wr, d, rd, rxf, from, fault) ==
  /\ Len(rd) + Len(rxf) <= ReadOf(wr, d) /\ Len(rxf) <= Depth
  /\ ~fault => Len(rd) + Len(rxf) = ReadOf(wr, d)
  /\ Len(rd) + Len(rxf) = ReadOf(wr, d) =>
       /\ \A j \in 1..Len(rd) : rd[j] = Expected(wr, from, j)
       /\ \A j \in 1..Len(rxf) : rxf[j] = Expected(wr, from, Len(rd) + j)

Transfers(i, c, m, g, d) ==
  /\ Queued(i.tx, i.n, i.txed, c.txf, c.cur, d)
  /\ OnBus(i.tx, d, c.cur, c.open, m.first, c.hold)
  /\ Len(i.tx) <= 1 \/ c.hold => Stored(i.tx, d, g.from, m.cell, m.ptr)
  /\ Delivered(i.tx, d, i.rx, c.rxf, g.from, g.fault)

Running == i2c.pc \in {"sample", "act"} => IF ctl.abrt THEN ghost.fault ELSE \E d \in Nat : Transfers(i2c, ctl, mem, ghost, d)

\* What the driver has looked at is still so when it acts.
Looked ==
  i2c.pc = "act" =>
    /\ i2c.st.rfne => ctl.rxf # <<>>
    /\ i2c.st.tfe /\ ~i2c.st.act => ctl.txf = <<>> /\ ctl.cur = None /\ (ctl.rxf # <<>> => i2c.st.rfne)

Outcome(i, c, m, g) ==
  LET w == IF i.tx = <<>> THEN g.from ELSE Written(g.from, i.tx)
  IN /\ i.ret = i.n => /\ \A k \in 1..i.n : i.rx[k] = w.cell[(w.ptr + k - 1) % MemSize]
                       /\ c.hold => m.cell = w.cell
     /\ ~g.fault => i.ret = i.n

Stopped == i2c.pc = "stop" => IF i2c.ret = -1 THEN ghost.fault
                              ELSE ctl.txf = <<>> /\ ctl.cur = None /\ Outcome(i2c, ctl, mem, ghost)
Quiet == i2c.pc \in {"idle", "ret"} =>
           /\ ~ctl.en /\ ctl.txf = <<>> /\ ctl.rxf = <<>> /\ ctl.cur = None /\ ctl.open = "no" /\ ~ctl.abrt /\ ~mem.first
           /\ i2c.pc = "ret" => Outcome(i2c, ctl, mem, ghost)

BusInv == BusTypes /\ Running /\ Looked /\ Stopped /\ Quiet

----------------------------------------------------------------------------
LEMMA CellFacts ==
  /\ 0 \in Cell /\ \A x \in Int : x % MemSize \in Cell
  /\ \A x \in Cell : x \in Nat /\ x % MemSize = x /\ (x + 1) % MemSize \in Cell
  BY BusAssumption DEF Cell, BusAssumption

LEMMA Divided ==
  ASSUME NEW x \in Nat, NEW y \in Nat \ {0}
  PROVE  x \div y \in Nat /\ x % y \in 0 .. y - 1 /\ x = y * (x \div y) + (x % y)
  OBVIOUS

LEMMA ProductOrder ==
  ASSUME NEW x \in Nat, NEW y \in Nat, NEW z \in Nat, x <= y
  PROVE  z * x \in Nat /\ z * y \in Nat /\ z * x <= z * y
<1>1. PICK k \in Nat : y = x + k
  <2>1. y - x \in Nat /\ y = x + (y - x)
    OBVIOUS
  <2> QED BY <2>1
<1>2. z * y = z * x + z * k /\ z * x \in Nat /\ z * k \in Nat
  BY <1>1
<1> QED BY <1>2

\* Quotient and remainder are the only ones.
LEMMA Unique ==
  ASSUME NEW y \in Nat \ {0}, NEW p \in Nat, NEW q \in Nat, NEW k \in 0 .. y - 1, NEW m \in 0 .. y - 1,
         y * p + k = y * q + m
  PROVE  p = q /\ k = m
<1>1. y * p \in Nat /\ y * q \in Nat
  OBVIOUS
<1>2. ~(p < q)
  <2> SUFFICES ASSUME p + 1 <= q PROVE FALSE
    OBVIOUS
  <2>1. y * (p + 1) <= y * q /\ y * (p + 1) = y * p + y
    BY ProductOrder
  <2> QED BY <1>1, <2>1
<1>3. ~(q < p)
  <2> SUFFICES ASSUME q + 1 <= p PROVE FALSE
    OBVIOUS
  <2>1. y * (q + 1) <= y * p /\ y * (q + 1) = y * q + y
    BY ProductOrder
  <2> QED BY <1>1, <2>1
<1>4. p = q
  BY <1>2, <1>3
<1> QED BY <1>1, <1>4

\* A pointer that steps through the cells.
LEMMA ModStep ==
  ASSUME NEW x \in Nat
  PROVE  ((x % MemSize) + 1) % MemSize = (x + 1) % MemSize
<1> DEFINE p == x \div MemSize
           r == x % MemSize
           q == (x + 1) \div MemSize
           m == (x + 1) % MemSize
<1>1. MemSize \in Nat \ {0} /\ x + 1 \in Nat
  BY BusAssumption DEF BusAssumption
<1>2. p \in Nat /\ r \in 0..MemSize - 1 /\ x = MemSize * p + r
  BY <1>1, Divided
<1>3. q \in Nat /\ m \in 0..MemSize - 1 /\ x + 1 = MemSize * q + m
  BY <1>1, Divided
<1> HIDE DEF p, r, q, m
<1>4. MemSize * p \in Nat /\ MemSize * q \in Nat
  BY <1>1, <1>2, <1>3
<1>5. CASE r + 1 < MemSize
  <2>1. MemSize * p + (r + 1) = MemSize * q + m /\ r + 1 \in 0..MemSize - 1
    BY <1>1, <1>2, <1>3, <1>4, <1>5
  <2>2. r + 1 = m
    BY <1>1, <1>2, <1>3, <2>1, Unique
  <2>3. (r + 1) % MemSize = r + 1
    BY <1>1, <1>2, <1>5
  <2> QED BY <2>2, <2>3 DEF r, m
<1>6. CASE r + 1 = MemSize
  <2>1. MemSize * (p + 1) = MemSize * p + MemSize
    BY <1>1, <1>2
  <2>2. MemSize * (p + 1) + 0 = MemSize * q + m /\ 0 \in 0..MemSize - 1 /\ p + 1 \in Nat
    BY <1>1, <1>2, <1>3, <1>4, <1>6, <2>1
  <2>3. m = 0
    BY <1>1, <1>3, <2>2, Unique
  <2>4. MemSize % MemSize = 0
    BY <1>1
  <2> QED BY <1>6, <2>3, <2>4 DEF r, m
<1> QED BY <1>1, <1>2, <1>5, <1>6

LEMMA CmdFacts ==
  ASSUME NEW wr \in Seq(Cell), NEW n \in Nat, NEW k \in Nat, 1 <= k, k <= Len(wr) + n
  PROVE  /\ Cmd(wr, n, k) \in Commands /\ Cmd(wr, n, k) # None
         /\ Cmd(wr, n, k).op = IF k <= Len(wr) THEN "wr" ELSE "rd"
         /\ k <= Len(wr) => Cmd(wr, n, k).byte = wr[k]
         /\ Cmd(wr, n, k).stop <=> k = Len(wr) + n
<1>1. Len(wr) \in Nat /\ (k = Len(wr) + n) \in BOOLEAN /\ (k <= Len(wr) => wr[k] \in Cell)
  OBVIOUS
<1>2. \A b \in Cell, stop \in BOOLEAN : /\ Wr(b, stop) \in Commands /\ Wr(b, stop) # None
                                        /\ Wr(b, stop).op = "wr" /\ Wr(b, stop).byte = b /\ (Wr(b, stop).stop <=> stop)
  BY DEF Wr, Commands, None
<1>3. \A stop \in BOOLEAN : /\ Rd(stop) \in Commands /\ Rd(stop) # None
                            /\ Rd(stop).op = "rd" /\ (Rd(stop).stop <=> stop)
  BY CellFacts DEF Rd, Commands, None
<1>4. CASE k <= Len(wr)
  BY <1>1, <1>2, <1>4 DEF Cmd
<1>5. CASE ~(k <= Len(wr))
  BY <1>1, <1>3, <1>5 DEF Cmd
<1> QED BY <1>4, <1>5

LEMMA RequestFacts ==
  ASSUME NEW r \in Requests
  PROVE  r[1] \in Seq(Cell) /\ r[2] \in Nat /\ (Len(r[1]) > 1 => r[2] = 0)
<1>1. \A t \in Texts : t \in Seq(Cell)
  BY BusAssumption DEF Texts, Cell, BusAssumption
<1>2. r[1] \in Texts /\ r[2] \in 0..MaxRx
  BY DEF Requests
<1> QED BY <1>1, <1>2 DEF Requests

----------------------------------------------------------------------------
(* What the queues do. *)

LEMMA PushQueued ==
  ASSUME NEW wr \in Seq(Cell), NEW n \in Nat, NEW txed \in Nat, NEW txf \in Seq(Commands), NEW cur, NEW d \in Nat,
         Queued(wr, n, txed, txf, cur, d), txed < Len(wr) + n
  PROVE  Queued(wr, n, txed + 1, Append(txf, Cmd(wr, n, txed + 1)), cur, d)
<1> DEFINE c == Cmd(wr, n, txed + 1)
           u == Append(txf, c)
<1>1. Len(u) = Len(txf) + 1 /\ u[Len(txf) + 1] = c /\ \A j \in 1..Len(txf) : u[j] = txf[j]
  OBVIOUS
<1>2. Len(wr) \in Nat /\ Len(txf) \in Nat
  OBVIOUS
<1> HIDE DEF u
<1>3. ASSUME NEW j \in 1..Len(u)
      PROVE  u[j] = Cmd(wr, n, (txed + 1) - Len(u) + j)
  <2>1. (txed + 1) - Len(u) + j = txed - Len(txf) + j
    BY <1>1, <1>2
  <2>2. CASE j = Len(txf) + 1
    <3>1. txed - Len(txf) + j = txed + 1
      BY <1>2, <2>2
    <3> QED BY <1>1, <2>1, <2>2, <3>1
  <2>3. CASE j # Len(txf) + 1
    <3>1. j \in 1..Len(txf)
      BY <1>1, <1>2, <2>3
    <3>2. u[j] = txf[j] /\ txf[j] = Cmd(wr, n, txed - Len(txf) + j)
      BY <1>1, <3>1 DEF Queued
    <3> QED BY <2>1, <3>2
  <2> QED BY <2>2, <2>3
<1>4. Queued(wr, n, txed + 1, u, cur, d)
  BY <1>1, <1>2, <1>3 DEF Queued
<1> QED BY <1>4 DEF u

LEMMA TakeQueued ==
  ASSUME NEW wr \in Seq(Cell), NEW n \in Nat, NEW txed \in Nat, NEW txf \in Seq(Commands), NEW d \in Nat,
         Queued(wr, n, txed, txf, None, d), txf # <<>>
  PROVE  /\ Head(txf) = Cmd(wr, n, d + 1) /\ d + 1 <= Len(wr) + n
         /\ Queued(wr, n, txed, Tail(txf), Head(txf), d)
<1> DEFINE u == Tail(txf)
<1>1. /\ Len(wr) \in Nat /\ Len(txf) \in Nat /\ Len(txf) >= 1 /\ Head(txf) = txf[1]
      /\ Len(u) = Len(txf) - 1 /\ \A j \in 1..Len(u) : u[j] = txf[j + 1]
  OBVIOUS
<1>2. txed = d + Len(txf) /\ txed <= Len(wr) + n
  BY <1>1 DEF Queued
<1>3. txf[1] = Cmd(wr, n, d + 1)
  <2>1. txed - Len(txf) + 1 = d + 1
    BY <1>1, <1>2
  <2> QED BY <1>1, <2>1 DEF Queued
<1>4. d + 1 <= Len(wr) + n
  BY <1>1, <1>2
<1>5. Head(txf) # None
  BY <1>1, <1>3, <1>4, CmdFacts
<1>6. ASSUME NEW j \in 1..Len(u)
      PROVE  u[j] = Cmd(wr, n, txed - Len(u) + j)
  <2>1. txed - Len(u) + j = txed - Len(txf) + (j + 1) /\ j + 1 \in 1..Len(txf)
    BY <1>1
  <2> QED BY <1>1, <2>1 DEF Queued
<1>7. txed = d + Len(u) + 1
  BY <1>1, <1>2
<1> HIDE DEF u
<1>8. Queued(wr, n, txed, u, Head(txf), d)
  BY <1>1, <1>2, <1>3, <1>5, <1>6, <1>7 DEF Queued
<1> QED BY <1>1, <1>3, <1>4, <1>8 DEF u

LEMMA DoneQueued ==
  ASSUME NEW wr \in Seq(Cell), NEW n \in Nat, NEW txed \in Nat, NEW txf \in Seq(Commands), NEW cur, NEW d \in Nat,
         Queued(wr, n, txed, txf, cur, d), cur # None
  PROVE  /\ cur = Cmd(wr, n, d + 1) /\ d + 1 <= Len(wr) + n
         /\ Queued(wr, n, txed, txf, None, d + 1)
  BY DEF Queued

----------------------------------------------------------------------------
(* What comes to the cells, and what comes back. *)

LEMMA CellGrows ==
  ASSUME NEW wr \in Seq(Cell), NEW from \in Memory, NEW k \in Nat, k >= 1, k < Len(wr), NEW a \in Cell
  PROVE  CellAfter(wr, from, k + 1, a) = IF (wr[1] + k - 1) % MemSize = a THEN wr[k + 1] ELSE CellAfter(wr, from, k, a)
<1> DEFINE K(m) == {j \in 2..m : (wr[1] + j - 2) % MemSize = a}
<1>1. wr[1] \in Nat
  BY CellFacts
<1>2. wr[1] + (k + 1) - 2 = wr[1] + k - 1
  BY <1>1
<1>3. CASE (wr[1] + k - 1) % MemSize = a
  <2>1. k + 1 \in K(k + 1) /\ K(k + 1) \subseteq Int /\ \A y \in K(k + 1) : k + 1 >= y
    BY <1>2, <1>3
  <2>2. Max(K(k + 1)) = k + 1
    <3> HIDE DEF K
    <3> QED BY <2>1 DEF Max
  <2> QED BY <1>3, <2>1, <2>2 DEF CellAfter
<1>4. CASE (wr[1] + k - 1) % MemSize # a
  <2>1. K(k + 1) = K(k)
    <3>1. ASSUME NEW j \in 2..k + 1, (wr[1] + j - 2) % MemSize = a PROVE j \in 2..k
      BY <1>2, <1>4, <3>1
    <3> QED BY <3>1
  <2> QED BY <1>4, <2>1 DEF CellAfter
<1> QED BY <1>3, <1>4

LEMMA CellAtFirst ==
  ASSUME NEW wr, NEW from, NEW k \in {0, 1}, NEW a
  PROVE  CellAfter(wr, from, k, a) = from.cell[a]
<1>1. 2..k = {}
  OBVIOUS
<1> QED BY <1>1 DEF CellAfter

\* Arithmetic that is done apart from the terms it is about.
LEMMA Sums ==
  /\ \A x \in Nat : x # 0 /\ x <= 1 => x = 1
  /\ \A x, y \in Nat : y >= 1 => x + y - 1 \in Nat /\ x + (y + 1) - 1 = (x + y - 1) + 1
  /\ \A x, y, z \in Nat : z <= y => /\ x + y - z \in Nat /\ y - z \in Nat /\ x + (y - z + 1) - 1 = x + y - z
                                    /\ x + (y + 1) - z = (x + y - z) + 1 /\ (y + 1) - z = (y - z) + 1
  OBVIOUS

LEMMA Cancel ==
  ASSUME NEW x \in Nat, NEW y \in Nat, NEW z \in Nat, x + (y + 1) = z + 1
  PROVE  x + y = z
  OBVIOUS

LEMMA Exactly ==
  ASSUME NEW x \in Nat, NEW y \in Nat, NEW z \in Nat, x + y = z, x < z => y = 0
  PROVE  x = z
  OBVIOUS

LEMMA AtMostOne ==
  ASSUME NEW B, NEW s \in Seq(B), s # <<>>, Len(s) <= 1
  PROVE  Len(s) = 1 /\ s[1] \in B
<1>1. Len(s) \in Nat /\ Len(s) # 0
  OBVIOUS
<1>2. Len(s) = 1
  BY <1>1, Sums, Zenon
<1> QED BY <1>2

LEMMA AddressStored ==
  ASSUME NEW wr \in Seq(Cell), NEW from \in Memory, NEW cell, NEW ptr, Len(wr) >= 1, Stored(wr, 0, from, cell, ptr)
  PROVE  Stored(wr, 1, from, cell, wr[1])
<1>1. Len(wr) \in Nat /\ wr # <<>> /\ wr[1] \in Cell /\ StartOf(wr, from) = wr[1]
  BY DEF StartOf
<1>2. (wr[1] + 1 - 1) % MemSize = wr[1]
  <2>1. wr[1] \in Nat /\ wr[1] % MemSize = wr[1]
    BY <1>1, CellFacts
  <2>2. wr[1] + 1 - 1 = wr[1]
    BY <2>1
  <2> QED BY <2>1, <2>2
<1>3. \A a \in Cell : cell[a] = from.cell[a]
  BY <1>1, CellAtFirst DEF Stored
<1>4. \A a \in Cell : cell[a] = CellAfter(wr, from, 1, a)
  <2>1. \A a : CellAfter(wr, from, 1, a) = from.cell[a]
    BY CellAtFirst
  <2> QED BY <1>3, <2>1
<1> QED BY <1>1, <1>2, <1>4 DEF Stored

LEMMA DataStored ==
  ASSUME NEW wr \in Seq(Cell), NEW from \in Memory, NEW cell \in [Cell -> Cell], NEW ptr \in Cell, NEW d \in Nat,
         d >= 1, d < Len(wr), Stored(wr, d, from, cell, ptr)
  PROVE  Stored(wr, d + 1, from, [cell EXCEPT ![ptr] = wr[d + 1]], (ptr + 1) % MemSize)
<1> DEFINE x == wr[1] + d - 1
           c2 == [cell EXCEPT ![ptr] = wr[d + 1]]
<1>1. /\ Len(wr) \in Nat /\ wr # <<>> /\ wr[1] \in Nat /\ StartOf(wr, from) = wr[1] /\ x \in Nat
      /\ StartOf(wr, from) + d - 1 = x /\ StartOf(wr, from) + (d + 1) - 1 = x + 1
  <2>1. Len(wr) \in Nat /\ wr # <<>> /\ wr[1] \in Cell /\ StartOf(wr, from) = wr[1]
    BY DEF StartOf
  <2>2. wr[1] \in Nat
    BY <2>1, CellFacts
  <2>3. x \in Nat /\ wr[1] + (d + 1) - 1 = x + 1
    BY <2>2, Sums
  <2> HIDE DEF x
  <2>4. wr[1] + d - 1 = x
    BY DEF x
  <2> QED BY <2>1, <2>2, <2>3, <2>4
<1>2. ptr = x % MemSize /\ \A a \in Cell : cell[a] = CellAfter(wr, from, d, a)
  <2>1. ptr = (StartOf(wr, from) + d - 1) % MemSize /\ \A a \in Cell : cell[a] = CellAfter(wr, from, d, a)
    BY <1>1 DEF Stored
  <2> QED BY <1>1, <2>1
<1>3. (ptr + 1) % MemSize = (x + 1) % MemSize
  BY <1>1, <1>2, ModStep
<1>4. ASSUME NEW a \in Cell
      PROVE  c2[a] = CellAfter(wr, from, d + 1, a)
  <2>1. CellAfter(wr, from, d + 1, a) = IF x % MemSize = a THEN wr[d + 1] ELSE CellAfter(wr, from, d, a)
    BY CellGrows
  <2> QED BY <1>2, <2>1
<1>5. (IF d + 1 < Len(wr) THEN d + 1 ELSE Len(wr)) = d + 1
  BY <1>1
<1>6. (StartOf(wr, from) + (d + 1) - 1) % MemSize = (ptr + 1) % MemSize
  BY <1>1, <1>3
<1> HIDE DEF c2, x
<1>7. Stored(wr, d + 1, from, c2, (ptr + 1) % MemSize)
  BY <1>1, <1>4, <1>5, <1>6 DEF Stored
<1> QED BY <1>7 DEF c2

LEMMA ReadStored ==
  ASSUME NEW wr \in Seq(Cell), NEW from \in Memory, NEW cell, NEW ptr \in Cell, NEW d \in Nat,
         d >= Len(wr), Len(wr) <= 1, Stored(wr, d, from, cell, ptr)
  PROVE  /\ cell[ptr] = Expected(wr, from, ReadOf(wr, d) + 1)
         /\ ReadOf(wr, d + 1) = ReadOf(wr, d) + 1
         /\ Stored(wr, d + 1, from, cell, (ptr + 1) % MemSize)
<1> DEFINE e == IF wr = <<>> THEN 0 ELSE 1
           x == StartOf(wr, from) + d - e
<1>1. Len(wr) \in Nat /\ Len(wr) = e /\ (wr # <<>> => wr[1] \in Cell) /\ from.ptr \in Cell /\ d >= e
  <2>1. from.ptr \in Cell
    BY DEF Memory
  <2>2. Len(wr) \in Nat /\ (wr = <<>> <=> Len(wr) = 0)
    OBVIOUS
  <2>3. CASE wr = <<>>
    BY <2>1, <2>2, <2>3
  <2>4. CASE wr # <<>>
    <3>1. Len(wr) = 1 /\ wr[1] \in Cell
      BY <2>4, AtMostOne
    <3> QED BY <2>1, <2>4, <3>1
  <2> QED BY <2>3, <2>4
<1>2. StartOf(wr, from) \in Nat /\ StartOf(wr, from) % MemSize = StartOf(wr, from)
  BY <1>1, CellFacts DEF StartOf
<1>3. ReadOf(wr, d) = d - e /\ ReadOf(wr, d + 1) = ReadOf(wr, d) + 1 /\ e \in Nat /\ x \in Nat
  BY <1>1, <1>2 DEF ReadOf
<1>4. ptr = x % MemSize
  <2>1. CASE d = 0
    <3>1. e = 0 /\ ptr = from.ptr /\ StartOf(wr, from) = from.ptr /\ x = StartOf(wr, from)
      BY <1>1, <1>2, <2>1 DEF Stored, StartOf
    <3> QED BY <1>2, <3>1
  <2>2. CASE d # 0
    BY <2>2 DEF Stored
  <2> QED BY <2>1, <2>2
<1>5. \A a \in Cell : cell[a] = from.cell[a]
  <2>1. (IF d < Len(wr) THEN d ELSE Len(wr)) = e /\ e \in {0, 1}
    BY <1>1
  <2>2. ASSUME NEW a
        PROVE  CellAfter(wr, from, 0, a) = from.cell[a] /\ CellAfter(wr, from, 1, a) = from.cell[a]
    <3>1. 0 \in {0, 1} /\ 1 \in {0, 1}
      OBVIOUS
    <3>2. CellAfter(wr, from, 0, a) = from.cell[a]
      BY <3>1, CellAtFirst, Zenon
    <3>3. CellAfter(wr, from, 1, a) = from.cell[a]
      BY <3>1, CellAtFirst, Zenon
    <3> QED BY <3>2, <3>3
  <2>3. \A a \in Cell : cell[a] = CellAfter(wr, from, e, a)
    BY <2>1 DEF Stored
  <2> HIDE DEF e, x
  <2> QED BY <2>1, <2>2, <2>3
<1>6. cell[ptr] = Expected(wr, from, ReadOf(wr, d) + 1)
  <2>1. StartOf(wr, from) + (ReadOf(wr, d) + 1) - 1 = x
    BY <1>2, <1>3
  <2> QED BY <1>4, <1>5, <2>1 DEF Expected
<1>7. (ptr + 1) % MemSize = (x + 1) % MemSize /\ x + 1 = StartOf(wr, from) + (d + 1) - e
  <2>1. (ptr + 1) % MemSize = (x + 1) % MemSize
    BY <1>3, <1>4, ModStep
  <2>2. StartOf(wr, from) + (d + 1) - e = (StartOf(wr, from) + d - e) + 1
    <3> HIDE DEF e, x
    <3> QED BY <1>1, <1>2, <1>3, Sums
  <2> QED BY <2>1, <2>2
<1>8. Stored(wr, d + 1, from, cell, (ptr + 1) % MemSize)
  <2>1. (IF d + 1 < Len(wr) THEN d + 1 ELSE Len(wr)) = e /\ e \in {0, 1} /\ d + 1 # 0
    BY <1>1
  <2>2. \A a \in Cell : cell[a] = CellAfter(wr, from, e, a)
    <3> HIDE DEF e, x
    <3>1. \A a : CellAfter(wr, from, e, a) = from.cell[a]
      <4>1. CASE e = 0
        <5>1. \A a : CellAfter(wr, from, 0, a) = from.cell[a]
          BY CellAtFirst
        <5> QED BY <4>1, <5>1
      <4>2. CASE e = 1
        <5>1. \A a : CellAfter(wr, from, 1, a) = from.cell[a]
          BY CellAtFirst
        <5> QED BY <4>2, <5>1
      <4> QED BY <2>1, <4>1, <4>2
    <3> QED BY <1>5, <3>1
  <2> QED BY <1>7, <2>1, <2>2 DEF Stored
<1> QED BY <1>3, <1>6, <1>8

\* The queue takes the byte, or it is full: d2 is d + 1.
LEMMA ReadDelivered ==
  ASSUME NEW wr \in Seq(Cell), NEW from \in Memory, NEW d \in Nat, NEW d2 \in Nat, NEW rd \in Seq(Cell), NEW rxf \in Seq(Cell),
         NEW fault \in BOOLEAN, Delivered(wr, d, rd, rxf, from, fault),
         NEW b \in Cell, b = Expected(wr, from, ReadOf(wr, d) + 1), ReadOf(wr, d2) = ReadOf(wr, d) + 1
  PROVE  Delivered(wr, d2, rd, IF Len(rxf) < Depth THEN Append(rxf, b) ELSE rxf, from, fault \/ Len(rxf) = Depth)
<1>1. Len(wr) \in Nat /\ Len(rd) \in Nat /\ Len(rxf) \in Nat /\ Depth \in Nat /\ ReadOf(wr, d) \in Nat
  BY BusAssumption DEF ReadOf, BusAssumption
<1>2. CASE Len(rxf) < Depth
  <2> DEFINE u == Append(rxf, b)
  <2>1. Len(u) = Len(rxf) + 1 /\ u[Len(rxf) + 1] = b /\ \A j \in 1..Len(rxf) : u[j] = rxf[j]
    OBVIOUS
  <2> HIDE DEF u
  <2>2. ASSUME Len(rd) + Len(u) = ReadOf(wr, d) + 1, NEW j \in 1..Len(u)
        PROVE  u[j] = Expected(wr, from, Len(rd) + j)
    <3>1. Len(rd) + Len(rxf) = ReadOf(wr, d)
      <4>1. Len(rd) + (Len(rxf) + 1) = ReadOf(wr, d) + 1
        BY <2>1, <2>2
      <4> QED BY <1>1, <4>1, Cancel, Zenon
    <3>2. CASE j = Len(rxf) + 1
      <4>1. Len(rd) + j = ReadOf(wr, d) + 1
        BY <1>1, <3>1, <3>2
      <4> QED BY <2>1, <3>2, <4>1
    <3>3. CASE j # Len(rxf) + 1
      <4>1. j \in 1..Len(rxf)
        BY <1>1, <2>1, <3>3
      <4> QED BY <2>1, <3>1, <4>1 DEF Delivered
    <3> QED BY <3>2, <3>3
  <2>3. Len(rd) + Len(u) = ReadOf(wr, d) + 1 => \A j \in 1..Len(rd) : rd[j] = Expected(wr, from, j)
    <3>1. Len(rd) + (Len(rxf) + 1) = ReadOf(wr, d) + 1 => Len(rd) + Len(rxf) = ReadOf(wr, d)
      BY <1>1
    <3> QED BY <2>1, <3>1 DEF Delivered
  <2>4. /\ Len(rd) + Len(u) <= ReadOf(wr, d) + 1 /\ Len(u) <= Depth
        /\ ~fault => Len(rd) + Len(u) = ReadOf(wr, d) + 1
    BY <1>1, <1>2, <2>1 DEF Delivered
  <2>5. Len(rxf) # Depth
    BY <1>1, <1>2
  <2>6. Delivered(wr, d2, rd, u, from, fault \/ Len(rxf) = Depth)
    BY <2>2, <2>3, <2>4, <2>5 DEF Delivered
  <2> QED BY <1>2, <2>6 DEF u
<1>3. CASE ~(Len(rxf) < Depth)
  <2>1. Len(rxf) = Depth /\ Len(rd) + Len(rxf) <= ReadOf(wr, d)
    BY <1>1, <1>3 DEF Delivered
  <2>2. Len(rd) + Len(rxf) <= ReadOf(wr, d) + 1 /\ Len(rd) + Len(rxf) # ReadOf(wr, d) + 1
    BY <1>1, <2>1
  <2> QED BY <1>3, <2>1, <2>2 DEF Delivered
<1> QED BY <1>2, <1>3

LEMMA TakenDelivered ==
  ASSUME NEW wr \in Seq(Cell), NEW from, NEW d \in Nat, NEW rd \in Seq(Cell), NEW rxf \in Seq(Cell), rxf # <<>>,
         NEW fault \in BOOLEAN, Delivered(wr, d, rd, rxf, from, fault)
  PROVE  Delivered(wr, d, Append(rd, Head(rxf)), Tail(rxf), from, fault)
<1> DEFINE u == Append(rd, Head(rxf))
           v == Tail(rxf)
<1>1. /\ Len(rd) \in Nat /\ Len(rxf) \in Nat /\ Len(u) = Len(rd) + 1 /\ Len(v) = Len(rxf) - 1
      /\ u[Len(rd) + 1] = rxf[1] /\ 1 \in 1..Len(rxf)
      /\ \A j \in 1..Len(rd) : u[j] = rd[j]
      /\ \A j \in 1..Len(v) : v[j] = rxf[j + 1] /\ j + 1 \in 1..Len(rxf)
  OBVIOUS
<1>2. ReadOf(wr, d) \in Nat /\ Depth \in Nat
  BY BusAssumption DEF ReadOf, BusAssumption
<1> HIDE DEF u, v
<1>3. Len(u) + Len(v) = Len(rd) + Len(rxf) /\ Len(v) <= Len(rxf)
  BY <1>1
<1>4. ASSUME Len(rd) + Len(rxf) = ReadOf(wr, d)
      PROVE  /\ \A j \in 1..Len(u) : u[j] = Expected(wr, from, j)
             /\ \A j \in 1..Len(v) : v[j] = Expected(wr, from, Len(u) + j)
  <2>1. \A j \in 1..Len(rd) : u[j] = Expected(wr, from, j)
    BY <1>1, <1>4 DEF Delivered
  <2>2. u[Len(rd) + 1] = Expected(wr, from, Len(rd) + 1)
    BY <1>1, <1>4 DEF Delivered
  <2>3. ASSUME NEW j \in 1..Len(v) PROVE v[j] = Expected(wr, from, Len(u) + j)
    <3>1. Len(u) + j = Len(rd) + (j + 1)
      BY <1>1
    <3> QED BY <1>1, <1>4, <3>1 DEF Delivered
  <2>4. \A j \in 1..Len(u) : j \in 1..Len(rd) \/ j = Len(rd) + 1
    BY <1>1
  <2> QED BY <2>1, <2>2, <2>3, <2>4
<1>5. Delivered(wr, d, u, v, from, fault)
  BY <1>1, <1>2, <1>3, <1>4 DEF Delivered
<1> QED BY <1>5 DEF u, v

----------------------------------------------------------------------------
(* The actions of the driver. *)

LEMMA InitBus == I2cInit => BusInv
<1> SUFFICES ASSUME I2cInit PROVE BusInv
  OBVIOUS
<1>1. PICK h \in BOOLEAN : ctl = [en |-> FALSE, txf |-> <<>>, rxf |-> <<>>, cur |-> None, open |-> "no", abrt |-> FALSE, hold |-> h]
  BY DEF I2cInit
<1>2. i2c.pc = "idle" /\ i2c.tx = <<>> /\ i2c \in Drivers
  BY BusAssumption DEF I2cInit, Drivers, Looks, BusAssumption
<1>3. /\ ~ctl.en /\ ctl.txf = <<>> /\ ctl.rxf = <<>> /\ ctl.cur = None /\ ctl.open = "no" /\ ~ctl.abrt
      /\ ctl \in Controllers
  BY <1>1 DEF Controllers
<1>4. mem \in Memory /\ ~mem.first
  BY CellFacts DEF I2cInit, Memory, Cell
<1>5. ghost \in [from : Memory, fault : BOOLEAN]
  BY <1>4 DEF I2cInit
<1> QED BY <1>2, <1>3, <1>4, <1>5 DEF BusInv, BusTypes, Running, Looked, Stopped, Quiet

LEMMA BeginKeeps ==
  ASSUME BusInv, Begin
  PROVE  BusInv'
<1>1. PICK r \in Requests : i2c' = [i2c EXCEPT !.pc = "sample", !.tx = r[1], !.n = r[2], !.txed = 0, !.rx = <<>>, !.calls = @ - 1]
  BY DEF Begin
<1>2. r[1] \in Seq(Cell) /\ r[2] \in Nat /\ (Len(r[1]) > 1 => r[2] = 0)
  BY RequestFacts
<1>3. i2c \in Drivers /\ ctl \in Controllers /\ mem \in Memory /\ mem' = mem
  BY DEF BusInv, BusTypes, Begin
<1>4. /\ i2c' \in Drivers /\ i2c'.pc = "sample" /\ i2c'.tx = r[1] /\ i2c'.n = r[2] /\ i2c'.txed = 0 /\ i2c'.rx = <<>>
  <2>1. i2c.calls - 1 \in Int /\ <<>> \in Seq(Cell) /\ 0 \in Nat
    BY <1>3 DEF Drivers
  <2> QED BY <1>1, <1>2, <1>3, <2>1 DEF Drivers
<1>5. /\ ctl.txf = <<>> /\ ctl.rxf = <<>> /\ ctl.cur = None /\ ctl.open = "no" /\ ~ctl.abrt /\ ~mem.first
  BY DEF BusInv, Quiet, Begin
<1>6. /\ ctl' \in Controllers /\ ctl'.txf = <<>> /\ ctl'.rxf = <<>> /\ ctl'.cur = None /\ ctl'.open = "no" /\ ~ctl'.abrt
  BY <1>3, <1>5 DEF Begin, Controllers
<1>7. ghost' \in [from : Memory, fault : BOOLEAN] /\ ghost'.from = mem /\ ~ghost'.fault
  BY <1>3 DEF Begin
<1>8. Transfers(i2c', ctl', mem', ghost', 0)
  <2>1. Queued(r[1], r[2], 0, <<>>, None, 0)
    BY <1>2 DEF Queued
  <2>2. OnBus(r[1], 0, None, "no", mem.first, ctl'.hold)
    BY <1>5 DEF OnBus
  <2>3. Stored(r[1], 0, mem, mem.cell, mem.ptr)
    <3>1. (IF 0 < Len(r[1]) THEN 0 ELSE Len(r[1])) = 0
      BY <1>2
    <3>2. \A a : CellAfter(r[1], mem, 0, a) = mem.cell[a]
      BY CellAtFirst
    <3> QED BY <3>1, <3>2 DEF Stored
  <2>4. Delivered(r[1], 0, <<>>, <<>>, mem, ghost'.fault)
    <3>1. ReadOf(r[1], 0) = 0
      BY <1>2 DEF ReadOf
    <3> QED BY <3>1, BusAssumption DEF Delivered, BusAssumption
  <2> QED BY <1>3, <1>4, <1>6, <1>7, <2>1, <2>2, <2>3, <2>4 DEF Transfers
<1>9. BusTypes'
  BY <1>2, <1>3, <1>4, <1>6, <1>7 DEF BusTypes
<1> QED BY <1>4, <1>6, <1>8, <1>9 DEF BusInv, Running, Looked, Stopped, Quiet

LEMMA LookFields ==
  ASSUME NEW w \in BOOLEAN, NEW x \in BOOLEAN, NEW y \in BOOLEAN, NEW z \in BOOLEAN, NEW s,
         s = [rfne |-> w, tfnf |-> x, tfe |-> y, act |-> z]
  PROVE  s \in Looks /\ (s.rfne <=> w) /\ (s.tfe <=> y) /\ (s.act <=> z)
  BY DEF Looks

LEMMA SampleKeeps ==
  ASSUME BusInv, Sample
  PROVE  BusInv'
<1> USE DEF BusInv
<1>1. /\ i2c \in Drivers /\ ctl \in Controllers /\ i2c.pc = "sample"
      /\ i2c' = [i2c EXCEPT !.pc = "act", !.st = Status] /\ ctl' = ctl /\ mem' = mem /\ ghost' = ghost
  BY DEF BusTypes, Sample
<1> DEFINE st == Status
<1>2. /\ st \in Looks /\ (st.rfne <=> ctl.rxf # <<>>) /\ (st.tfe <=> ctl.txf = <<>>)
      /\ (st.act <=> (ctl.cur # None \/ ctl.open # "no"))
  <2>1. st = [rfne |-> (ctl.rxf # <<>>), tfnf |-> (Len(ctl.txf) < Depth), tfe |-> (ctl.txf = <<>>),
              act |-> (ctl.cur # None \/ ctl.open # "no")]
    BY DEF Status
  <2>2. st.rfne = (ctl.rxf # <<>>)
    BY <2>1, Zenon
  <2>3. st.tfe = (ctl.txf = <<>>)
    BY <2>1, Zenon
  <2>4. st.act = (ctl.cur # None \/ ctl.open # "no")
    BY <2>1, Zenon
  <2>5. st \in Looks
    <3>1. (ctl.rxf # <<>>) \in BOOLEAN
      OBVIOUS
    <3>2. (Len(ctl.txf) < Depth) \in BOOLEAN
      OBVIOUS
    <3>3. (ctl.txf = <<>>) \in BOOLEAN
      OBVIOUS
    <3>4. (ctl.cur # None \/ ctl.open # "no") \in BOOLEAN
      OBVIOUS
    <3> QED BY <2>1, <3>1, <3>2, <3>3, <3>4 DEF Looks
  <2> QED BY <2>2, <2>3, <2>4, <2>5
<1> HIDE DEF st
<1>3. /\ i2c' \in Drivers /\ i2c'.pc = "act" /\ i2c'.st = st /\ i2c'.tx = i2c.tx /\ i2c'.n = i2c.n
      /\ i2c'.txed = i2c.txed /\ i2c'.rx = i2c.rx
  BY <1>1, <1>2 DEF Drivers, st
<1>4. BusTypes'
  BY <1>1, <1>3 DEF BusTypes
<1>5. Running'
  BY <1>1, <1>3 DEF Running, Transfers
<1>6. Looked'
  BY <1>1, <1>2, <1>3 DEF Looked
<1> QED BY <1>3, <1>4, <1>5, <1>6 DEF Stopped, Quiet

LEMMA ReceiveByteKeeps ==
  ASSUME BusInv, ReceiveByte
  PROVE  BusInv'
<1> USE DEF BusInv
<1>1. /\ i2c \in Drivers /\ ctl \in Controllers /\ ghost.fault \in BOOLEAN /\ i2c.pc = "act" /\ i2c.st.rfne
      /\ i2c' = [i2c EXCEPT !.pc = "sample", !.rx = Append(@, Head(ctl.rxf))]
      /\ ctl' = [ctl EXCEPT !.rxf = Tail(@)] /\ mem' = mem /\ ghost' = ghost
  BY DEF BusTypes, ReceiveByte, Receiving
<1>2. ctl.rxf \in Seq(Cell) /\ ctl.rxf # <<>> /\ i2c.rx \in Seq(Cell) /\ i2c.tx \in Seq(Cell)
  BY <1>1 DEF Looked, Controllers, Drivers
<1>3. Head(ctl.rxf) \in Cell /\ Tail(ctl.rxf) \in Seq(Cell) /\ Append(i2c.rx, Head(ctl.rxf)) \in Seq(Cell)
  BY <1>2
<1>4. /\ i2c' \in Drivers /\ i2c'.pc = "sample" /\ i2c'.tx = i2c.tx /\ i2c'.n = i2c.n
      /\ i2c'.txed = i2c.txed /\ i2c'.rx = Append(i2c.rx, Head(ctl.rxf))
  BY <1>1, <1>3 DEF Drivers
<1>5. /\ ctl' \in Controllers /\ ctl'.rxf = Tail(ctl.rxf) /\ ctl'.txf = ctl.txf /\ ctl'.cur = ctl.cur /\ ctl'.open = ctl.open
      /\ (ctl'.abrt <=> ctl.abrt) /\ ctl'.hold = ctl.hold
  BY <1>1, <1>3 DEF Controllers
<1>6. BusTypes'
  BY <1>1, <1>4, <1>5 DEF BusTypes
<1>7. ASSUME ~ctl.abrt
      PROVE  \E d \in Nat : Transfers(i2c', ctl', mem', ghost', d)
  <2>1. PICK d \in Nat : Transfers(i2c, ctl, mem, ghost, d)
    BY <1>1, <1>7 DEF Running
  <2>2. Delivered(i2c.tx, d, i2c'.rx, ctl'.rxf, ghost.from, ghost.fault)
    BY <1>1, <1>2, <1>4, <1>5, <2>1, TakenDelivered DEF Transfers
  <2> QED BY <1>1, <1>4, <1>5, <2>1, <2>2 DEF Transfers
<1>8. Running'
  BY <1>1, <1>5, <1>7 DEF Running
<1> QED BY <1>4, <1>6, <1>8 DEF Looked, Stopped, Quiet

LEMMA PushKeeps ==
  ASSUME BusInv, Push
  PROVE  BusInv'
<1> USE DEF BusInv
<1>1. /\ i2c \in Drivers /\ ctl \in Controllers /\ i2c.pc = "act" /\ ~ctl.abrt /\ i2c.txed < Len(i2c.tx) + i2c.n
      /\ i2c' = [i2c EXCEPT !.pc = "sample", !.txed = @ + 1]
      /\ ctl' = [ctl EXCEPT !.txf = Append(@, Command)] /\ mem' = mem /\ ghost' = ghost
  BY DEF BusTypes, Push, Total
<1>2. i2c.tx \in Seq(Cell) /\ i2c.n \in Nat /\ i2c.txed \in Nat /\ ctl.txf \in Seq(Commands) /\ Len(i2c.tx) \in Nat
  BY <1>1 DEF Controllers, Drivers
<1>3. Command = Cmd(i2c.tx, i2c.n, i2c.txed + 1)
  BY DEF Command, Cmd, Total
<1>4. Command \in Commands
  <2>1. i2c.txed + 1 \in Nat /\ 1 <= i2c.txed + 1 /\ i2c.txed + 1 <= Len(i2c.tx) + i2c.n
    BY <1>1, <1>2
  <2> QED BY <1>2, <1>3, <2>1, CmdFacts
<1>5. /\ i2c' \in Drivers /\ i2c'.pc = "sample" /\ i2c'.tx = i2c.tx /\ i2c'.n = i2c.n
      /\ i2c'.txed = i2c.txed + 1 /\ i2c'.rx = i2c.rx
  <2>1. i2c.txed + 1 \in Nat /\ i2c' = [i2c EXCEPT !.pc = "sample", !.txed = i2c.txed + 1]
    BY <1>1, <1>2
  <2> QED BY <1>1, <2>1 DEF Drivers
<1>6. /\ ctl' \in Controllers /\ ctl'.rxf = ctl.rxf /\ ctl'.txf = Append(ctl.txf, Command) /\ ctl'.cur = ctl.cur
      /\ ctl'.open = ctl.open /\ (ctl'.abrt <=> ctl.abrt) /\ ctl'.hold = ctl.hold
  <2> DEFINE u == Append(ctl.txf, Command)
  <2>1. u \in Seq(Commands) /\ ctl' = [ctl EXCEPT !.txf = u]
    BY <1>1, <1>2, <1>4
  <2> HIDE DEF u
  <2>2. /\ ctl' \in Controllers /\ ctl'.rxf = ctl.rxf /\ ctl'.txf = u /\ ctl'.cur = ctl.cur
        /\ ctl'.open = ctl.open /\ (ctl'.abrt <=> ctl.abrt) /\ ctl'.hold = ctl.hold
    BY <1>1, <2>1 DEF Controllers
  <2> QED BY <2>2 DEF u
<1>7. BusTypes'
  BY <1>1, <1>5, <1>6 DEF BusTypes
<1>8. PICK d \in Nat : Transfers(i2c, ctl, mem, ghost, d)
  BY <1>1 DEF Running
<1>9. Queued(i2c.tx, i2c.n, i2c'.txed, ctl'.txf, ctl.cur, d)
  BY <1>1, <1>2, <1>3, <1>5, <1>6, <1>8, PushQueued DEF Transfers
<1>10. Transfers(i2c', ctl', mem', ghost', d)
  BY <1>1, <1>5, <1>6, <1>8, <1>9 DEF Transfers
<1> QED BY <1>1, <1>5, <1>6, <1>7, <1>10 DEF Running, Looked, Stopped, Quiet

LEMMA FailFields ==
  ASSUME BusTypes, Fail
  PROVE  i2c' \in Drivers /\ i2c'.pc = "stop" /\ i2c'.ret = -1 /\ i2c'.tx = i2c.tx /\ i2c'.n = i2c.n
<1>1. \A r \in Int, i \in Drivers : LET j == [i EXCEPT !.pc = "stop", !.ret = r]
                                    IN j \in Drivers /\ j.pc = "stop" /\ j.ret = r /\ j.tx = i.tx /\ j.n = i.n
  BY DEF Drivers
<1>2. -1 \in Int
  OBVIOUS
<1> QED BY <1>1, <1>2, Zenon DEF BusTypes, Fail

LEMMA AbortKeeps ==
  ASSUME BusInv, Abort
  PROVE  BusInv'
<1>1. i2c.pc = "act" /\ ctl.abrt /\ Fail /\ ctl' = ctl /\ mem' = mem /\ ghost' = ghost
  BY DEF Abort
<1>2. ghost.fault
  BY <1>1 DEF BusInv, Running
<1> QED BY <1>1, <1>2, FailFields DEF BusInv, BusTypes, Running, Looked, Stopped, Quiet

LEMMA AgainKeeps ==
  ASSUME BusInv, Again
  PROVE  BusInv'
<1> USE DEF BusInv
<1>1. i2c.pc = "act" /\ i2c \in Drivers /\ ctl' = ctl /\ mem' = mem
  BY DEF Again, BusTypes
<1>2. CASE i2c' = [i2c EXCEPT !.pc = "sample"] /\ ghost' = ghost
  <2>1. /\ i2c' \in Drivers /\ i2c'.pc = "sample" /\ i2c'.tx = i2c.tx /\ i2c'.n = i2c.n
        /\ i2c'.txed = i2c.txed /\ i2c'.rx = i2c.rx
    BY <1>1, <1>2 DEF Drivers
  <2>2. Running'
    BY <1>1, <1>2, <2>1 DEF Running, Transfers
  <2> QED BY <1>1, <1>2, <2>1, <2>2 DEF BusTypes, Looked, Stopped, Quiet
<1>3. CASE Fail /\ ghost' = [ghost EXCEPT !.fault = TRUE]
  <2>1. ghost' \in [from : Memory, fault : BOOLEAN] /\ ghost'.fault
    BY <1>3 DEF BusTypes
  <2> QED BY <1>1, <1>3, <2>1, FailFields DEF BusTypes, Running, Looked, Stopped, Quiet
<1> QED BY <1>2, <1>3 DEF Again

LEMMA WrittenFacts ==
  ASSUME NEW wr \in Seq(Cell), wr # <<>>, NEW from \in Memory
  PROVE  /\ Written(from, wr).ptr = (wr[1] + Len(wr) - 1) % MemSize
         /\ Written(from, wr).cell = [a \in Cell |-> CellAfter(wr, from, Len(wr), a)]
<1> DEFINE p == (wr[1] + Len(wr) - 1) % MemSize
           c == [a \in Cell |-> CellAfter(wr, from, Len(wr), a)]
<1>1. Written(from, wr) = [from EXCEPT !.ptr = p, !.cell = c]
  BY Zenon DEF Written, CellAfter, Cell
<1> HIDE DEF p, c
<1>2. Written(from, wr).ptr = p /\ Written(from, wr).cell = c
  BY <1>1 DEF Memory
<1> QED BY <1>2 DEF p, c

\* All commands are carried out: what the driver has received, and what the memory holds, is the outcome.
LEMMA AllDone ==
  ASSUME NEW i \in Drivers, NEW c \in Controllers, NEW m \in Memory, NEW g \in [from : Memory, fault : BOOLEAN],
         Len(i.tx) > 1 => i.n = 0, Transfers(i, c, m, g, Len(i.tx) + i.n), i.ret = Len(i.rx),
         Len(i.rx) < i.n => c.rxf = <<>>
  PROVE  Outcome(i, c, m, g)
<1> DEFINE w == IF i.tx = <<>> THEN g.from ELSE Written(g.from, i.tx)
           d == Len(i.tx) + i.n
<1>1. /\ i.tx \in Seq(Cell) /\ i.rx \in Seq(Cell) /\ i.n \in Nat /\ c.rxf \in Seq(Cell) /\ g.from \in Memory
      /\ Len(i.tx) \in Nat /\ Len(i.rx) \in Nat /\ Len(c.rxf) \in Nat /\ (c.rxf = <<>> => Len(c.rxf) = 0)
  BY DEF Drivers, Controllers
<1>2. ReadOf(i.tx, d) = i.n
  BY <1>1 DEF ReadOf
<1>3. Delivered(i.tx, d, i.rx, c.rxf, g.from, g.fault)
  BY DEF Transfers
<1>4. ASSUME ~g.fault PROVE i.ret = i.n
  <2>1. Len(i.rx) + Len(c.rxf) = i.n
    BY <1>2, <1>3, <1>4 DEF Delivered
  <2>2. Len(i.rx) < i.n => Len(c.rxf) = 0
    BY <1>1
  <2>3. Len(i.rx) = i.n
    BY <1>1, <2>1, <2>2, Exactly, Zenon
  <2> QED BY <2>3
<1>5. ASSUME i.ret = i.n, NEW k \in 1..i.n
      PROVE  i.rx[k] = w.cell[(w.ptr + k - 1) % MemSize]
  <2>1. Len(c.rxf) = 0 /\ Len(i.rx) + Len(c.rxf) = i.n
    BY <1>1, <1>2, <1>3, <1>5 DEF Delivered
  <2>2. i.rx[k] = Expected(i.tx, g.from, k)
    BY <1>1, <1>2, <1>3, <1>5, <2>1 DEF Delivered
  <2>3. CASE i.tx = <<>>
    BY <2>2, <2>3 DEF Expected, StartOf
  <2>4. CASE i.tx # <<>>
    <3>1. Len(i.tx) <= 1
      BY <1>1, <1>5
    <3>2. Len(i.tx) = 1 /\ i.tx[1] \in Cell
      BY <1>1, <2>4, <3>1, AtMostOne
    <3>3. i.tx[1] \in Nat /\ i.tx[1] + Len(i.tx) - 1 = i.tx[1] /\ i.tx[1] % MemSize = i.tx[1]
      <4>1. i.tx[1] \in Nat /\ i.tx[1] % MemSize = i.tx[1]
        BY <3>2, CellFacts, Zenon
      <4> QED BY <3>2, <4>1
    <3>4. w.ptr = i.tx[1] /\ w.cell = [a \in Cell |-> CellAfter(i.tx, g.from, 1, a)]
      <4>1. w.ptr = (i.tx[1] + Len(i.tx) - 1) % MemSize /\ w.cell = [a \in Cell |-> CellAfter(i.tx, g.from, Len(i.tx), a)]
        BY <1>1, <2>4, WrittenFacts
      <4> QED BY <3>2, <3>3, <4>1
    <3>5. (i.tx[1] + k - 1) % MemSize \in Cell
      <4>1. i.tx[1] + k - 1 \in Int
        BY <1>5, <3>3
      <4> QED BY <4>1, CellFacts, Zenon
    <3>6. w.cell[(i.tx[1] + k - 1) % MemSize] = g.from.cell[(i.tx[1] + k - 1) % MemSize]
      <4> HIDE DEF w, d
      <4>1. \A a : CellAfter(i.tx, g.from, 1, a) = g.from.cell[a]
        <5>1. 2..1 = {}
          OBVIOUS
        <5> QED BY <5>1 DEF CellAfter
      <4> QED BY <3>4, <3>5, <4>1
    <3> QED BY <2>2, <2>4, <3>4, <3>6 DEF Expected, StartOf
  <2> QED BY <2>3, <2>4
<1>6. ASSUME c.hold PROVE m.cell = w.cell
  <2>1. \A a \in Cell : m.cell[a] = CellAfter(i.tx, g.from, Len(i.tx), a)
    <3>1. (IF d < Len(i.tx) THEN d ELSE Len(i.tx)) = Len(i.tx)
      BY <1>1
    <3> QED BY <1>6, <3>1 DEF Transfers, Stored
  <2>2. m.cell \in [Cell -> Cell] /\ g.from.cell \in [Cell -> Cell]
    BY <1>1 DEF Memory
  <2>3. CASE i.tx = <<>>
    <3>1. \A a \in Cell : m.cell[a] = g.from.cell[a]
      BY <2>1, <2>3, CellAtFirst
    <3> QED BY <2>2, <2>3, <3>1
  <2>4. CASE i.tx # <<>>
    <3>1. w.cell = [a \in Cell |-> CellAfter(i.tx, g.from, Len(i.tx), a)]
      BY <1>1, <2>4, WrittenFacts
    <3> QED BY <2>1, <2>2, <3>1
  <2> QED BY <2>3, <2>4
<1> QED BY <1>4, <1>5, <1>6 DEF Outcome

LEMMA FinishKeeps ==
  ASSUME BusInv, Finish
  PROVE  BusInv'
<1> USE DEF BusInv
<1>1. /\ i2c \in Drivers /\ ctl \in Controllers /\ mem \in Memory /\ ghost \in [from : Memory, fault : BOOLEAN]
      /\ i2c.pc = "act" /\ ~ctl.abrt /\ ~Receiving /\ i2c.txed = Len(i2c.tx) + i2c.n /\ i2c.st.tfe /\ ~i2c.st.act
      /\ i2c' = [i2c EXCEPT !.pc = "stop", !.ret = Len(i2c.rx)] /\ ctl' = ctl /\ mem' = mem /\ ghost' = ghost
      /\ (Len(i2c.tx) > 1 => i2c.n = 0)
  BY DEF BusTypes, Finish, Total, BusIdle
<1>2. Len(i2c.rx) \in Nat /\ Len(i2c.tx) \in Nat /\ i2c.n \in Nat /\ Len(ctl.txf) \in Nat
  BY <1>1 DEF Drivers, Controllers
<1>3. /\ i2c' \in Drivers /\ i2c'.pc = "stop" /\ i2c'.tx = i2c.tx /\ i2c'.n = i2c.n /\ i2c'.ret = Len(i2c.rx)
      /\ i2c'.txed = i2c.txed /\ i2c'.rx = i2c.rx
  <2>1. Len(i2c.rx) \in Int
    BY <1>2
  <2> QED BY <1>1, <2>1 DEF Drivers
<1>4. ctl.txf = <<>> /\ ctl.cur = None /\ (ctl.rxf # <<>> => i2c.st.rfne)
  BY <1>1 DEF Looked
<1>5. PICK d \in Nat : Transfers(i2c, ctl, mem, ghost, d)
  BY <1>1 DEF Running
<1>6. d = Len(i2c.tx) + i2c.n
  BY <1>1, <1>2, <1>4, <1>5 DEF Transfers, Queued
<1>7. Transfers(i2c', ctl, mem, ghost, Len(i2c'.tx) + i2c'.n)
  BY <1>3, <1>5, <1>6 DEF Transfers
<1>8. Len(i2c'.rx) < i2c'.n => ctl.rxf = <<>>
  BY <1>1, <1>3, <1>4 DEF Receiving
<1>9. Outcome(i2c', ctl, mem, ghost)
  BY <1>1, <1>3, <1>7, <1>8, AllDone
<1>10. BusTypes'
  BY <1>1, <1>3 DEF BusTypes
<1> QED BY <1>1, <1>3, <1>4, <1>9, <1>10 DEF Running, Looked, Stopped, Quiet

LEMMA LeaveKeeps ==
  ASSUME BusInv, Leave
  PROVE  BusInv'
<1> USE DEF BusInv
<1>1. /\ i2c \in Drivers /\ ctl \in Controllers /\ mem \in Memory /\ i2c.pc = "stop"
      /\ i2c' = [i2c EXCEPT !.pc = "ret"] /\ ctl' = Disable(ctl) /\ mem' = [mem EXCEPT !.first = FALSE] /\ ghost' = ghost
  BY DEF BusTypes, Leave
<1>2. /\ i2c' \in Drivers /\ i2c'.pc = "ret" /\ i2c'.tx = i2c.tx /\ i2c'.n = i2c.n /\ i2c'.ret = i2c.ret /\ i2c'.rx = i2c.rx
      /\ i2c.n \in Nat
  BY <1>1 DEF Drivers
<1>3. /\ ctl' \in Controllers /\ ~ctl'.en /\ ctl'.txf = <<>> /\ ctl'.rxf = <<>> /\ ctl'.cur = None /\ ctl'.open = "no"
      /\ ~ctl'.abrt /\ (ctl'.hold <=> ctl.hold)
  <2>1. <<>> \in Seq(Commands) /\ <<>> \in Seq(Cell)
    OBVIOUS
  <2> QED BY <1>1, <2>1 DEF Disable, Controllers
<1>4. mem' \in Memory /\ mem'.cell = mem.cell /\ ~mem'.first
  BY <1>1 DEF Memory
<1>5. Outcome(i2c', ctl', mem', ghost')
  <2>1. CASE i2c.ret = -1
    <3>1. ghost.fault /\ i2c.ret # i2c.n
      BY <1>1, <1>2, <2>1 DEF Stopped
    <3>2. ghost'.fault
      BY <1>1, <3>1
    <3>3. i2c'.ret # i2c'.n
      BY <1>2, <3>1
    <3> QED BY <3>2, <3>3, Zenon DEF Outcome
  <2>2. CASE i2c.ret # -1
    <3>1. Outcome(i2c, ctl, mem, ghost)
      BY <1>1, <2>2 DEF Stopped
    <3>2. /\ i2c'.tx = i2c.tx /\ i2c'.n = i2c.n /\ i2c'.ret = i2c.ret /\ i2c'.rx = i2c.rx /\ (ctl'.hold <=> ctl.hold)
          /\ mem'.cell = mem.cell /\ ghost' = ghost
      BY <1>1, <1>2, <1>3, <1>4
    <3> QED BY <3>1, <3>2, ZenonT(60) DEF Outcome
  <2> QED BY <2>1, <2>2
<1>6. BusTypes'
  BY <1>1, <1>2, <1>3, <1>4 DEF BusTypes
<1> QED BY <1>2, <1>3, <1>4, <1>5, <1>6 DEF Running, Looked, Stopped, Quiet

----------------------------------------------------------------------------
(* The steps of the controller and of the memory. *)

LEMMA TakeKeeps ==
  ASSUME BusInv, Take
  PROVE  BusInv'
<1> USE DEF BusInv
<1> DEFINE h == Head(ctl.txf)
<1>1. /\ i2c \in Drivers /\ ctl \in Controllers /\ mem \in Memory /\ ctl.en /\ ctl.cur = None /\ ctl.txf # <<>> /\ ~ctl.abrt
      /\ ctl' = [ctl EXCEPT !.cur = h, !.txf = Tail(ctl.txf), !.open = h.op]
      /\ mem' = (IF h.op = "wr" /\ ctl.open # "wr" THEN [mem EXCEPT !.first = TRUE] ELSE mem)
      /\ i2c' = i2c /\ ghost' = ghost
  BY DEF BusTypes, Take
<1>2. h \in Commands /\ h.op \in {"rd", "wr"} /\ Tail(ctl.txf) \in Seq(Commands) /\ ctl.txf \in Seq(Commands)
  <2>1. ctl.txf \in Seq(Commands)
    BY <1>1 DEF Controllers
  <2>2. h \in Commands /\ Tail(ctl.txf) \in Seq(Commands)
    BY <1>1, <2>1
  <2> HIDE DEF h
  <2>3. h.op \in {"rd", "wr"}
    BY <2>2 DEF Commands
  <2> QED BY <2>1, <2>2, <2>3
<1> HIDE DEF h
<1>3. /\ ctl' \in Controllers /\ ctl'.txf = Tail(ctl.txf) /\ ctl'.rxf = ctl.rxf /\ ctl'.cur = h /\ ctl'.open = h.op
      /\ ~ctl'.abrt /\ ctl'.hold = ctl.hold
  <2>1. h \in Commands \cup {None} /\ h.op \in {"no", "rd", "wr"}
    BY <1>2
  <2> QED BY <1>1, <1>2, <2>1 DEF Controllers
<1>4. /\ mem' \in Memory /\ mem'.cell = mem.cell /\ mem'.ptr = mem.ptr
      /\ (mem'.first <=> (h.op = "wr" /\ ctl.open # "wr") \/ mem.first)
  BY <1>1 DEF Memory
<1>5. i2c.pc \notin {"idle", "ret"} /\ ~(i2c.pc = "stop" /\ i2c.ret # -1)
  BY <1>1 DEF Quiet, Stopped
<1>6. ASSUME i2c.pc \in {"sample", "act"}
      PROVE  \E d \in Nat : Transfers(i2c', ctl', mem', ghost', d)
  <2>1. PICK d \in Nat : Transfers(i2c, ctl, mem, ghost, d)
    BY <1>1, <1>6 DEF Running
  <2>2. i2c.tx \in Seq(Cell) /\ i2c.n \in Nat /\ i2c.txed \in Nat /\ Len(i2c.tx) \in Nat
    BY <1>1 DEF Drivers
  <2>3. Queued(i2c.tx, i2c.n, i2c.txed, ctl.txf, None, d)
    BY <1>1, <2>1 DEF Transfers
  <2>4. h = Cmd(i2c.tx, i2c.n, d + 1) /\ d + 1 <= Len(i2c.tx) + i2c.n /\ Queued(i2c.tx, i2c.n, i2c.txed, ctl'.txf, h, d)
    BY <1>1, <1>2, <1>3, <2>2, <2>3, TakeQueued DEF h
  <2>5. h # None /\ (h.op = "wr" => d + 1 <= Len(i2c.tx))
    BY <2>2, <2>4, CmdFacts
  <2>6. OnBus(i2c.tx, d, None, ctl.open, mem.first, ctl.hold)
    BY <1>1, <2>1 DEF Transfers
  <2>7. d = 0 => (mem'.first <=> h.op = "wr")
    BY <1>4, <2>6 DEF OnBus
  <2>8. d > 0 /\ (Len(i2c.tx) <= 1 \/ ctl.hold) => ~mem'.first
    <3>1. d > 0 /\ h.op = "wr" => d < Len(i2c.tx) /\ ~(Len(i2c.tx) <= 1)
      BY <2>2, <2>5
    <3> QED BY <1>4, <2>6, <3>1 DEF OnBus
  <2>9. OnBus(i2c.tx, d, h, h.op, mem'.first, ctl.hold)
    BY <2>5, <2>7, <2>8 DEF OnBus
  <2> QED BY <1>1, <1>3, <1>4, <2>1, <2>4, <2>9 DEF Transfers
<1>7. BusTypes'
  BY <1>1, <1>3, <1>4 DEF BusTypes
<1>8. Running'
  BY <1>1, <1>3, <1>6 DEF Running
<1>9. Looked'
  BY <1>1, <1>3 DEF Looked
<1>10. Stopped' /\ Quiet'
  BY <1>1, <1>5 DEF Stopped, Quiet
<1> QED BY <1>7, <1>8, <1>9, <1>10

LEMMA NackKeeps ==
  ASSUME BusInv, Nack
  PROVE  BusInv'
<1> USE DEF BusInv
<1>1. /\ ctl \in Controllers /\ ghost \in [from : Memory, fault : BOOLEAN] /\ ctl.en /\ ctl.cur # None
      /\ ctl' = [ctl EXCEPT !.cur = None, !.open = "no", !.abrt = TRUE, !.txf = <<>>]
      /\ ghost' = [ghost EXCEPT !.fault = TRUE] /\ i2c' = i2c /\ mem' = mem
  BY DEF BusTypes, Nack
<1>2. ctl' \in Controllers /\ ctl'.abrt /\ ctl'.rxf = ctl.rxf
  <2>1. <<>> \in Seq(Commands)
    OBVIOUS
  <2> QED BY <1>1, <2>1 DEF Controllers
<1>3. ghost' \in [from : Memory, fault : BOOLEAN] /\ ghost'.fault
  BY <1>1
<1>4. i2c.pc \notin {"idle", "ret"} /\ ~(i2c.pc = "stop" /\ i2c.ret # -1)
  BY <1>1 DEF Quiet, Stopped
<1>5. BusTypes'
  BY <1>1, <1>2, <1>3 DEF BusTypes
<1>6. Running'
  BY <1>2, <1>3 DEF Running
<1>7. Looked'
  BY <1>1, <1>2 DEF Looked
<1>8. Stopped' /\ Quiet'
  BY <1>1, <1>3, <1>4 DEF Stopped, Quiet
<1> QED BY <1>5, <1>6, <1>7, <1>8

LEMMA RanEmptyKeeps ==
  ASSUME BusInv, RanEmpty
  PROVE  BusInv'
<1> USE DEF BusInv
<1>1. /\ ctl \in Controllers /\ ~ctl.hold /\ ctl.cur = None /\ ctl.en
      /\ ctl' = [ctl EXCEPT !.open = "no"] /\ i2c' = i2c /\ mem' = mem /\ ghost' = ghost
  BY DEF BusTypes, RanEmpty
<1>2. /\ ctl' \in Controllers /\ ctl'.txf = ctl.txf /\ ctl'.rxf = ctl.rxf /\ ctl'.cur = None /\ ctl'.open = "no"
      /\ (ctl'.abrt <=> ctl.abrt) /\ ~ctl'.hold
  BY <1>1 DEF Controllers
<1>3. ASSUME NEW d \in Nat, Transfers(i2c, ctl, mem, ghost, d)
      PROVE  Transfers(i2c', ctl', mem', ghost', d)
  <2>1. OnBus(i2c.tx, d, None, "no", mem.first, ctl'.hold)
    BY <1>1, <1>2, <1>3 DEF Transfers, OnBus
  <2> QED BY <1>1, <1>2, <1>3, <2>1 DEF Transfers
<1>4. BusTypes'
  BY <1>1, <1>2 DEF BusTypes
<1>5. Running'
  BY <1>1, <1>2, <1>3 DEF Running
<1>6. Looked'
  BY <1>1, <1>2 DEF Looked
<1>7. Stopped'
  BY <1>1, <1>2 DEF Stopped, Outcome
<1>8. Quiet'
  BY <1>1, <1>2 DEF Quiet
<1> QED BY <1>4, <1>5, <1>6, <1>7, <1>8

\* A byte of a write: the first one is the address, the others go to the cells.
LEMMA WriteStep ==
  ASSUME BusTypes, ctl.cur # None, NEW d \in Nat, Transfers(i2c, ctl, mem, ghost, d), ctl.cur.op = "wr", mem' = Store(mem, ctl.cur.byte),
         NEW c, c.txf = ctl.txf, c.rxf = ctl.rxf, c.cur = None, c.open = After, c.hold = ctl.hold
  PROVE  mem' \in Memory /\ Transfers(i2c, c, mem', ghost, d + 1)
<1>1. /\ i2c.tx \in Seq(Cell) /\ i2c.n \in Nat /\ i2c.txed \in Nat /\ Len(i2c.tx) \in Nat /\ ctl.txf \in Seq(Commands)
      /\ mem \in Memory /\ ghost.from \in Memory /\ d + 1 \in Nat /\ 1 <= d + 1 /\ d + 1 # 0
  BY DEF BusTypes, Drivers, Controllers
<1>2. /\ ctl.cur = Cmd(i2c.tx, i2c.n, d + 1) /\ d + 1 <= Len(i2c.tx) + i2c.n
      /\ Queued(i2c.tx, i2c.n, i2c.txed, ctl.txf, None, d + 1)
  BY <1>1, DoneQueued DEF Transfers
<1>3. d + 1 <= Len(i2c.tx)
  BY <1>1, <1>2, CmdFacts
<1>4. ctl.cur.byte = i2c.tx[d + 1] /\ (ctl.cur.stop <=> d + 1 = Len(i2c.tx) + i2c.n) /\ i2c.tx[d + 1] \in Cell
  BY <1>1, <1>2, <1>3, CmdFacts
<1> DEFINE b == i2c.tx[d + 1]
<1> HIDE DEF b
<1>5. b \in Cell /\ mem' = Store(mem, b) /\ mem.ptr \in Cell /\ mem.cell \in [Cell -> Cell] /\ (mem.ptr + 1) % MemSize \in Cell
  BY <1>1, <1>4, CellFacts DEF b, Memory
<1>6. mem.first => mem' \in Memory /\ ~mem'.first /\ mem'.ptr = b /\ mem'.cell = mem.cell
  BY <1>1, <1>5 DEF Store, Memory
<1>7. ~mem.first => mem' \in Memory /\ ~mem'.first /\ mem'.ptr = (mem.ptr + 1) % MemSize /\ mem'.cell = [mem.cell EXCEPT ![mem.ptr] = b]
  <2> DEFINE e == [mem.cell EXCEPT ![mem.ptr] = b]
             p == (mem.ptr + 1) % MemSize
  <2>1. e \in [Cell -> Cell] /\ p \in Cell
    BY <1>5
  <2>2. ~mem.first => mem' = [mem EXCEPT !.cell = e, !.ptr = p]
    BY <1>1, <1>5 DEF Store, Memory
  <2> HIDE DEF e, p
  <2>3. ~mem.first => mem' \in Memory /\ ~mem'.first /\ mem'.ptr = p /\ mem'.cell = e
    BY <1>1, <2>1, <2>2 DEF Memory
  <2> QED BY <2>3 DEF e, p
<1>8. mem' \in Memory /\ ~mem'.first
  BY <1>6, <1>7
<1>9. OnBus(i2c.tx, d, ctl.cur, ctl.open, mem.first, ctl.hold)
  BY DEF Transfers
<1>10. OnBus(i2c.tx, d + 1, None, After, mem'.first, ctl.hold)
  <2>1. ctl.open = "wr"
    BY <1>9 DEF OnBus
  <2>2. d + 1 < Len(i2c.tx) => After = "wr"
    <3>1. d + 1 < Len(i2c.tx) => d + 1 # Len(i2c.tx) + i2c.n
      BY <1>1
    <3> QED BY <1>4, <2>1, <3>1 DEF After
  <2> QED BY <1>1, <1>8, <2>2 DEF OnBus
<1>11. ASSUME Len(i2c.tx) <= 1 \/ ctl.hold
       PROVE  Stored(i2c.tx, d + 1, ghost.from, mem'.cell, mem'.ptr)
  <2>1. Stored(i2c.tx, d, ghost.from, mem.cell, mem.ptr)
    BY <1>11 DEF Transfers
  <2>2. CASE d = 0
    <3>1. mem.first
      BY <1>9, <2>2 DEF OnBus
    <3>2. mem'.ptr = i2c.tx[1] /\ mem'.cell = mem.cell /\ d + 1 = 1
      BY <1>6, <2>2, <3>1 DEF b
    <3>3. Stored(i2c.tx, 1, ghost.from, mem.cell, i2c.tx[1])
      BY <1>1, <1>3, <2>1, <2>2, AddressStored
    <3> QED BY <3>2, <3>3
  <2>3. CASE d # 0
    <3>1. ~mem.first
      BY <1>9, <1>11, <2>3 DEF OnBus
    <3>2. mem'.ptr = (mem.ptr + 1) % MemSize /\ mem'.cell = [mem.cell EXCEPT ![mem.ptr] = i2c.tx[d + 1]]
      BY <1>7, <3>1 DEF b
    <3>3. d >= 1 /\ d < Len(i2c.tx)
      BY <1>1, <1>3, <2>3
    <3>4. Stored(i2c.tx, d + 1, ghost.from, [mem.cell EXCEPT ![mem.ptr] = i2c.tx[d + 1]], (mem.ptr + 1) % MemSize)
      BY <1>1, <1>5, <2>1, <3>3, DataStored
    <3> QED BY <3>2, <3>4
  <2> QED BY <2>2, <2>3
<1>12. Delivered(i2c.tx, d + 1, i2c.rx, ctl.rxf, ghost.from, ghost.fault)
  <2>1. ReadOf(i2c.tx, d + 1) = ReadOf(i2c.tx, d)
    <3>1. ~(d + 1 > Len(i2c.tx)) /\ ~(d > Len(i2c.tx))
      BY <1>1, <1>3
    <3> QED BY <3>1 DEF ReadOf
  <2>2. Delivered(i2c.tx, d, i2c.rx, ctl.rxf, ghost.from, ghost.fault)
    BY DEF Transfers
  <2> QED BY <2>1, <2>2 DEF Delivered
<1> QED BY <1>2, <1>8, <1>10, <1>11, <1>12 DEF Transfers

\* A byte that is read: into the queue if there is room.
LEMMA ReadStep ==
  ASSUME BusTypes, ctl.cur # None, NEW d \in Nat, Transfers(i2c, ctl, mem, ghost, d), ctl.cur.op = "rd",
         mem' = [mem EXCEPT !.ptr = (mem.ptr + 1) % MemSize],
         NEW c, c.txf = ctl.txf, c.cur = None, c.open = After, c.hold = ctl.hold,
         c.rxf = IF Len(ctl.rxf) < Depth THEN Append(ctl.rxf, mem.cell[mem.ptr]) ELSE ctl.rxf,
         NEW g, g.from = ghost.from, g.fault = (ghost.fault \/ Len(ctl.rxf) = Depth)
  PROVE  Transfers(i2c, c, mem', g, d + 1)
<1>1. /\ i2c.tx \in Seq(Cell) /\ i2c.n \in Nat /\ i2c.txed \in Nat /\ Len(i2c.tx) \in Nat /\ ctl.txf \in Seq(Commands)
      /\ i2c.rx \in Seq(Cell) /\ ctl.rxf \in Seq(Cell) /\ ghost.fault \in BOOLEAN
      /\ mem \in Memory /\ ghost.from \in Memory /\ d + 1 \in Nat /\ 1 <= d + 1 /\ d + 1 # 0 /\ (Len(i2c.tx) > 1 => i2c.n = 0)
  BY DEF BusTypes, Drivers, Controllers
<1>2. /\ ctl.cur = Cmd(i2c.tx, i2c.n, d + 1) /\ d + 1 <= Len(i2c.tx) + i2c.n
      /\ Queued(i2c.tx, i2c.n, i2c.txed, ctl.txf, None, d + 1)
  BY <1>1, DoneQueued DEF Transfers
<1>3. ~(d + 1 <= Len(i2c.tx))
  BY <1>1, <1>2, CmdFacts
<1>4. Len(i2c.tx) <= 1 /\ d >= Len(i2c.tx)
  BY <1>1, <1>2, <1>3
<1>5. /\ mem'.first = mem.first /\ mem'.cell = mem.cell /\ mem'.ptr = (mem.ptr + 1) % MemSize
      /\ mem.ptr \in Cell /\ mem.cell[mem.ptr] \in Cell
  BY <1>1 DEF Memory
<1>6. OnBus(i2c.tx, d, ctl.cur, ctl.open, mem.first, ctl.hold)
  BY DEF Transfers
<1>7. OnBus(i2c.tx, d + 1, None, After, mem'.first, ctl.hold)
  <2>1. ~mem.first
    BY <1>4, <1>6 DEF OnBus
  <2> QED BY <1>1, <1>3, <1>5, <2>1 DEF OnBus
<1>8. Stored(i2c.tx, d, ghost.from, mem.cell, mem.ptr)
  BY <1>4 DEF Transfers
<1>9. /\ mem.cell[mem.ptr] = Expected(i2c.tx, ghost.from, ReadOf(i2c.tx, d) + 1)
      /\ ReadOf(i2c.tx, d + 1) = ReadOf(i2c.tx, d) + 1
      /\ Stored(i2c.tx, d + 1, ghost.from, mem.cell, (mem.ptr + 1) % MemSize)
  BY <1>1, <1>4, <1>5, <1>8, ReadStored
<1>10. Delivered(i2c.tx, d, i2c.rx, ctl.rxf, ghost.from, ghost.fault)
  BY DEF Transfers
<1>11. Delivered(i2c.tx, d + 1, i2c.rx, c.rxf, g.from, g.fault)
  <2> DEFINE b == mem.cell[mem.ptr]
             v == IF Len(ctl.rxf) < Depth THEN Append(ctl.rxf, b) ELSE ctl.rxf
             f == ghost.fault \/ Len(ctl.rxf) = Depth
  <2>1. b \in Cell /\ b = Expected(i2c.tx, ghost.from, ReadOf(i2c.tx, d) + 1)
    BY <1>5, <1>9
  <2> HIDE DEF b
  <2>2. Delivered(i2c.tx, d + 1, i2c.rx, v, ghost.from, f)
    BY <1>1, <1>9, <1>10, <2>1, ReadDelivered
  <2>3. c.rxf = v /\ g.fault = f
    BY DEF b
  <2> HIDE DEF v, f
  <2> QED BY <2>2, <2>3
<1> QED BY <1>2, <1>5, <1>7, <1>9, <1>11 DEF Transfers

LEMMA ByteKeeps ==
  ASSUME BusInv, Byte
  PROVE  BusInv'
<1> USE DEF BusInv
<1> DEFINE q == IF ctl.cur.op = "wr" \/ ~(Len(ctl.rxf) < Depth) THEN ctl.rxf ELSE Append(ctl.rxf, mem.cell[mem.ptr])
           f == ghost.fault \/ (ctl.cur.op # "wr" /\ Len(ctl.rxf) = Depth)
<1>1. /\ i2c \in Drivers /\ ctl \in Controllers /\ mem \in Memory /\ ghost \in [from : Memory, fault : BOOLEAN]
      /\ ctl.en /\ ctl.cur # None /\ i2c' = i2c
  BY DEF BusTypes, Byte
<1>2. ctl.cur \in Commands /\ ctl.cur.op \in {"wr", "rd"} /\ ctl.rxf \in Seq(Cell) /\ mem.cell[mem.ptr] \in Cell /\ After \in {"no", "rd", "wr"}
  <2>1. ctl.cur \in Commands /\ ctl.rxf \in Seq(Cell) /\ ctl.open \in {"no", "rd", "wr"}
    BY <1>1 DEF Controllers
  <2>2. ctl.cur.op \in {"wr", "rd"}
    BY <2>1 DEF Commands
  <2>3. mem.cell[mem.ptr] \in Cell
    BY <1>1 DEF Memory
  <2> QED BY <2>1, <2>2, <2>3 DEF After
<1>3. q \in Seq(Cell) /\ (ctl.rxf # <<>> => q # <<>>)
  BY <1>2
<1>4. ctl' = [ctl EXCEPT !.cur = None, !.open = After, !.rxf = q]
  <2>1. CASE ctl.cur.op = "wr"
    <3>1. ctl' = [ctl EXCEPT !.cur = None, !.open = After]
      BY <2>1 DEF Byte
    <3>2. q = ctl.rxf
      BY <2>1
    <3> HIDE DEF q
    <3> QED BY <1>1, <3>1, <3>2 DEF Controllers
  <2>2. CASE ctl.cur.op # "wr"
    BY <2>2 DEF Byte
  <2> QED BY <2>1, <2>2
<1> HIDE DEF q
<1>5. /\ ctl' \in Controllers /\ ctl'.txf = ctl.txf /\ ctl'.rxf = q /\ ctl'.cur = None /\ ctl'.open = After
      /\ (ctl'.abrt <=> ctl.abrt) /\ ctl'.hold = ctl.hold
  BY <1>1, <1>2, <1>3, <1>4 DEF Controllers
<1>6. i2c.pc \notin {"idle", "ret"} /\ ~(i2c.pc = "stop" /\ i2c.ret # -1)
  BY <1>1 DEF Quiet, Stopped
<1>7. ghost' \in [from : Memory, fault : BOOLEAN] /\ (ghost.fault => ghost'.fault) /\ ghost'.from = ghost.from
  <2>1. CASE ctl.cur.op = "wr"
    BY <1>1, <2>1 DEF Byte
  <2>2. CASE ctl.cur.op # "wr"
    <3>1. ghost' = [ghost EXCEPT !.fault = ghost.fault \/ Len(ctl.rxf) = Depth]
      BY <2>2 DEF Byte
    <3>2. (ghost.fault \/ Len(ctl.rxf) = Depth) \in BOOLEAN
      OBVIOUS
    <3> QED BY <1>1, <3>1, <3>2
  <2> QED BY <2>1, <2>2
<1>8. ASSUME i2c.pc \in {"sample", "act"}, ~ctl.abrt
      PROVE  \E d \in Nat : Transfers(i2c', ctl', mem', ghost', d)
  <2>1. PICK d \in Nat : Transfers(i2c, ctl, mem, ghost, d)
    BY <1>8 DEF Running
  <2>2. CASE ctl.cur.op = "wr"
    <3>1. q = ctl.rxf /\ mem' = Store(mem, ctl.cur.byte) /\ ghost' = ghost
      BY <2>2 DEF Byte, q
    <3>2. Transfers(i2c, ctl', mem', ghost, d + 1)
      BY <1>1, <1>5, <2>1, <2>2, <3>1, WriteStep DEF BusInv
    <3> QED BY <1>1, <3>1, <3>2
  <2>3. CASE ctl.cur.op # "wr"
    <3>1. /\ mem' = [mem EXCEPT !.ptr = (mem.ptr + 1) % MemSize]
          /\ ghost' = [ghost EXCEPT !.fault = ghost.fault \/ Len(ctl.rxf) = Depth]
      BY <2>3 DEF Byte
    <3>2. q = IF Len(ctl.rxf) < Depth THEN Append(ctl.rxf, mem.cell[mem.ptr]) ELSE ctl.rxf
      BY <2>3 DEF q
    <3>3. ghost'.fault = (ghost.fault \/ Len(ctl.rxf) = Depth)
      BY <1>1, <3>1
    <3>4. ctl.cur.op = "rd"
      BY <1>2, <2>3
    <3>5. Transfers(i2c, ctl', mem', ghost', d + 1)
      BY <1>1, <1>5, <1>7, <2>1, <3>1, <3>2, <3>3, <3>4, ReadStep DEF BusInv
    <3> QED BY <1>1, <3>5
  <2> QED BY <2>2, <2>3
<1>9. mem' \in Memory
  <2>1. CASE ctl.cur.op = "wr"
    <3>1. mem' = Store(mem, ctl.cur.byte) /\ ctl.cur.byte \in Cell
      BY <1>2, <2>1 DEF Byte, Commands
    <3>2. mem.ptr \in Cell /\ mem.cell \in [Cell -> Cell] /\ (mem.ptr + 1) % MemSize \in Cell
      BY <1>1, CellFacts DEF Memory
    <3> QED BY <1>1, <3>1, <3>2 DEF Store, Memory
  <2>2. CASE ctl.cur.op # "wr"
    <3>1. mem.ptr \in Cell /\ (mem.ptr + 1) % MemSize \in Cell
      BY <1>1, CellFacts DEF Memory
    <3> QED BY <1>1, <2>2, <3>1 DEF Byte, Memory
  <2> QED BY <2>1, <2>2
<1>10. BusTypes'
  BY <1>1, <1>5, <1>7, <1>9 DEF BusTypes
<1>11. Running'
  BY <1>1, <1>5, <1>7, <1>8 DEF Running
<1>12. Looked'
  BY <1>1, <1>3, <1>5 DEF Looked
<1>13. Stopped' /\ Quiet'
  BY <1>1, <1>6, <1>7 DEF Stopped, Quiet
<1> QED BY <1>10, <1>11, <1>12, <1>13

LEMMA BusStep == BusInv /\ [I2cNext]_i2cVars => BusInv'
<1> SUFFICES ASSUME BusInv, [I2cNext]_i2cVars PROVE BusInv'
  OBVIOUS
<1>1. CASE UNCHANGED i2cVars
  BY <1>1 DEF i2cVars, BusInv, BusTypes, Running, Looked, Stopped, Quiet
<1> QED BY <1>1, BeginKeeps, SampleKeeps, ReceiveByteKeeps, AbortKeeps, PushKeeps, FinishKeeps, AgainKeeps, LeaveKeeps,
           TakeKeeps, ByteKeeps, NackKeeps, RanEmptyKeeps DEF I2cNext

\* TransferHonest for every memory, depth of the queues and length of a request: what I2cTxRx returns can be relied on.
THEOREM I2cTransfersHonest == I2cSpec => []TransferHonest
<1>1. BusInv => TransferHonest
  BY Zenon DEF BusInv, Quiet, Outcome, TransferHonest
<1> QED BY <1>1, InitBus, BusStep, PTL DEF I2cSpec

----------------------------------------------------------------------------
(* The clock. *)

Bytes == 0..255
Images == [0..6 -> Bytes]
Times == [Year : Nat, Month : Nat, Day : Nat, Hour : Nat, Minute : Nat, Second : Nat]

\* Two digits go into a register and come back, and leave its upper bits free.
LEMMA Digits ==
  ASSUME NEW v \in 0..99
  PROVE  /\ Bin2Bcd(v) \in Bytes /\ Bcd2Bin(Bin2Bcd(v)) = v
         /\ v < 80 => Bin2Bcd(v) % 128 = Bin2Bcd(v)
         /\ v < 40 => Bin2Bcd(v) % 64 = Bin2Bcd(v) /\ ~Bit(Bin2Bcd(v), 64)
         /\ v < 20 => Bin2Bcd(v) % 32 = Bin2Bcd(v)
<1>1. PICK q \in 0..9, k \in 0..9 : v \div 10 = q /\ v % 10 = k /\ v = 10 * q + k
  OBVIOUS
<1>2. Bin2Bcd(v) = q * 16 + k
  BY <1>1 DEF Bin2Bcd
<1>3. (q * 16 + k) \div 16 = q /\ (q * 16 + k) % 16 = k
  BY <1>1
<1> QED BY <1>1, <1>2, <1>3 DEF Bcd2Bin, Bit, Bytes

LEMMA ValidFields ==
  ASSUME NEW x \in Times, IsTimeValid(x)
  PROVE  /\ x.Month \in 1..12 /\ x.Day \in 1..31 /\ x.Hour \in 0..23 /\ x.Minute \in 0..59 /\ x.Second \in 0..59
         /\ x.Year \in Nat
<1>1. \A y, mo : DayMax(y, mo) \in {28, 29, 30, 31}
  BY Zenon DEF DayMax
<1>2. x.Month \in 1..12
  BY DEF IsTimeValid
<1>3. x.Day \in 1..DayMax(x.Year, x.Month)
  BY DEF IsTimeValid
<1>4. x.Hour \in 0..23
  BY DEF IsTimeValid
<1>5. x.Minute \in 0..59
  BY DEF IsTimeValid
<1>6. x.Second \in 0..59
  BY DEF IsTimeValid
<1>7. x.Year \in Nat
  BY DEF Times
<1>8. x.Day \in 1..31
  <2>1. DayMax(x.Year, x.Month) \in {28, 29, 30, 31}
    BY <1>1
  <2> QED BY <1>3, <2>1
<1> QED BY <1>2, <1>4, <1>5, <1>6, <1>7, <1>8

\* The image of a time that may be set, in a chip that counts to 24.
LEMMA ImageOf ==
  ASSUME NEW x \in Times, IsTimeValid(x), x.Year >= 2000, x.Year <= 2099, NEW w \in {0, 255}
  PROVE  /\ Encode(x, w) \in Images
         /\ LET e == Encode(x, w)
            IN e[0] = Bin2Bcd(x.Second) /\ e[1] = Bin2Bcd(x.Minute) /\ e[2] = Bin2Bcd(x.Hour) /\ e[3] = Bin2Bcd(x.Day)
               /\ e[5] = Bin2Bcd(x.Month) /\ e[6] = Bin2Bcd(x.Year - 2000)
<1>1. /\ x.Second \in 0..99 /\ x.Minute \in 0..99 /\ x.Hour \in 0..99 /\ x.Day \in 0..99 /\ x.Month \in 0..99
      /\ x.Year - 2000 \in 0..99
  BY ValidFields
<1>2. /\ Bin2Bcd(x.Second) \in Bytes /\ Bin2Bcd(x.Minute) \in Bytes /\ Bin2Bcd(x.Hour) \in Bytes /\ Bin2Bcd(x.Day) \in Bytes
      /\ Bin2Bcd(x.Month) \in Bytes /\ Bin2Bcd(x.Year - 2000) \in Bytes /\ w \in Bytes
  <2>1. \A v \in 0..99 : Bin2Bcd(v) \in Bytes
    BY Digits
  <2>2. w \in Bytes
    BY DEF Bytes
  <2>3. Bin2Bcd(x.Second) \in Bytes /\ Bin2Bcd(x.Minute) \in Bytes /\ Bin2Bcd(x.Hour) \in Bytes
    BY <1>1, <2>1
  <2>4. Bin2Bcd(x.Day) \in Bytes /\ Bin2Bcd(x.Month) \in Bytes /\ Bin2Bcd(x.Year - 2000) \in Bytes
    BY <1>1, <2>1
  <2> QED BY <2>2, <2>3, <2>4
<1> QED BY <1>2 DEF Encode, Images

\* What was stored is what is read, unless the chip is an Abeoz9 in its eighties, and but for the hour if it was
\* left to count to 12.
LEMMA ImageRead ==
  ASSUME NEW x \in Times, IsTimeValid(x), x.Year >= 2000, x.Year <= 2099, NEW w \in {0, 255},
         reg = Encode(x, w), rtcType = "Abeoz9" => x.Year < 2080, rtcType \in {"Abeoz9", "Pcf212x"}, hour12 \in BOOLEAN
  PROVE  /\ IsTimeValid(Decode(reg)) /\ Decode(reg) \in Times
         /\ Decode(reg) = IF HourUnsure THEN [x EXCEPT !.Hour = Decode(reg).Hour] ELSE x
<1>1. /\ reg[0] = Bin2Bcd(x.Second) /\ reg[1] = Bin2Bcd(x.Minute) /\ reg[2] = Bin2Bcd(x.Hour) /\ reg[3] = Bin2Bcd(x.Day)
      /\ reg[5] = Bin2Bcd(x.Month) /\ reg[6] = Bin2Bcd(x.Year - 2000)
  BY ImageOf
<1>2. /\ x.Month \in 0..19 /\ x.Day \in 0..39 /\ x.Hour \in 0..39 /\ x.Minute \in 0..79 /\ x.Second \in 0..79
      /\ x.Year - 2000 \in 0..99 /\ (rtcType = "Abeoz9" => x.Year - 2000 \in 0..79) /\ x.Year - 2000 + 2000 = x.Year
  BY ValidFields
<1>3. /\ \A v \in 0..79 : Bcd2Bin(Bin2Bcd(v) % 128) = v
      /\ \A v \in 0..39 : Bcd2Bin(Bin2Bcd(v) % 64) = v /\ ~Bit(Bin2Bcd(v), 64)
      /\ \A v \in 0..19 : Bcd2Bin(Bin2Bcd(v) % 32) = v
      /\ \A v \in 0..99 : Bcd2Bin(Bin2Bcd(v)) = v
  <2>1. \A v \in 0..99 : Bcd2Bin(Bin2Bcd(v)) = v
    BY Digits
  <2>2. \A v \in 0..79 : Bcd2Bin(Bin2Bcd(v) % 128) = v
    BY <2>1, Digits
  <2>3. \A v \in 0..39 : Bcd2Bin(Bin2Bcd(v) % 64) = v /\ ~Bit(Bin2Bcd(v), 64)
    BY <2>1, Digits
  <2>4. \A v \in 0..19 : Bcd2Bin(Bin2Bcd(v) % 32) = v
    BY <2>1, Digits
  <2> QED BY <2>1, <2>2, <2>3, <2>4
<1>4. Mode12 <=> HourUnsure
  BY <1>1, <1>2, <1>3 DEF Mode12, HourUnsure
<1> DEFINE h == HourOf(reg, Mode12)
<1>5. (~HourUnsure => h = x.Hour) /\ h \in 0 .. 23
  <2>1. CASE ~HourUnsure
    <3>1. h = x.Hour
      BY <1>1, <1>2, <1>3, <1>4, <2>1 DEF HourOf
    <3> QED BY <2>1, <3>1, ValidFields
  <2>2. CASE HourUnsure
    <3>1. x.Hour \in 0 .. 23 /\ h = HourOf(reg, TRUE)
      BY <1>4, <2>2, ValidFields
    <3>2. \A v \in 0 .. 23 : Bcd2Bin(Bin2Bcd(v) % 32) \in 0 .. 19 /\ (Bit(Bin2Bcd(v), 32) => v \in 20 .. 23 /\ Bcd2Bin(Bin2Bcd(v) % 32) \in 0 .. 3)
      BY DEF Bcd2Bin, Bin2Bcd, Bit
    <3> DEFINE k == Bcd2Bin(Bin2Bcd(x.Hour) % 32)
    <3>3. k \in 0 .. 19 /\ (Bit(Bin2Bcd(x.Hour), 32) => k \in 0 .. 3)
      BY <3>1, <3>2
    <3>4. h = IF Bit(Bin2Bcd(x.Hour), 32) /\ k # 12 THEN k + 12 ELSE k
      BY <1>1, <3>1 DEF HourOf
    <3> HIDE DEF k, h
    <3> QED BY <2>2, <3>3, <3>4
  <2> QED BY <2>1, <2>2
<1>6. Bcd2Bin(IF rtcType = "Abeoz9" THEN reg[6] % 128 ELSE reg[6]) = x.Year - 2000
  BY <1>1, <1>2, <1>3
<1>7. Decode(reg) = Time(x.Year, x.Month, x.Day, h, x.Minute, x.Second)
  BY <1>1, <1>2, <1>3, <1>6 DEF Decode
<1> HIDE DEF h
<1>8. Decode(reg) = [x EXCEPT !.Hour = h] /\ Decode(reg).Hour = h /\ Decode(reg) \in Times
  BY <1>5, <1>7 DEF Time, Times
<1>9. ~HourUnsure => Decode(reg) = x
  BY <1>5, <1>7 DEF Time, Times
<1>10. IsTimeValid(Decode(reg))
  <2>1. /\ Decode(reg).Year = x.Year /\ Decode(reg).Month = x.Month /\ Decode(reg).Day = x.Day /\ Decode(reg).Hour = h
        /\ Decode(reg).Minute = x.Minute /\ Decode(reg).Second = x.Second
    BY <1>7 DEF Time
  <2>2. h \in 0..23
    BY <1>5
  <2> QED BY <2>1, <2>2 DEF IsTimeValid
<1> QED BY <1>8, <1>9, <1>10

RtcInv ==
  /\ rtcType \in {"Abeoz9", "Pcf212x"} /\ hour12 \in BOOLEAN
  /\ last # NoTime => /\ last \in Times /\ Settable(last) /\ \E w \in {0, 255} : reg = Encode(last, w)
  /\ got # NoTime => /\ IsTimeValid(got)
                     /\ last # NoTime /\ (rtcType = "Abeoz9" => last.Year < 2080) =>
                          got = IF HourUnsure THEN [last EXCEPT !.Hour = got.Hour] ELSE last

LEMMA SetKeeps == ASSUME RtcInv, LibSetTime PROVE RtcInv'
<1>1. /\ got' = NoTime /\ rtcType' = rtcType /\ hour12' = hour12
      /\ \/ reg' = reg /\ last' = last
         \/ \E x \in Times : /\ Settable(x) /\ last' = x /\ \E w \in {0, 255} : reg' = Encode(x, w)
  <2>1. PICK y \in Years, mo \in Months, d \in Days, h \in Hours, mi \in Minutes, s \in Seconds, z \in Zones :
          LET x == Time(y, mo, d, h, mi, s) IN
          /\ Settable(x) /\ got' = NoTime
          /\ \/ UNCHANGED <<tz, dl, reg, last>>
             \/ tz' = z /\ dl' \in {dl, 0} /\ UNCHANGED <<reg, last>>
             \/ tz' = z /\ dl' = 0 /\ last' = x /\ \E w \in {0, 255} : reg' = Encode(x, w)
          /\ UNCHANGED <<rtcType, hour12>>
    BY Zenon DEF LibSetTime
  <2>2. Time(y, mo, d, h, mi, s) \in Times
    BY RtcAssumption DEF RtcAssumption, Time, Times
  <2> QED BY <2>1, <2>2
<1>2. CASE reg' = reg /\ last' = last
  BY <1>1, <1>2 DEF RtcInv, Settable, YearMax, HourUnsure
<1>3. CASE ~(reg' = reg /\ last' = last)
  <2>1. PICK x \in Times : Settable(x) /\ last' = x /\ \E w \in {0, 255} : reg' = Encode(x, w)
    BY <1>1, <1>3
  <2>2. Settable(x)'
    BY <1>1, <2>1 DEF Settable, YearMax
  <2> QED BY <1>1, <2>1, <2>2 DEF RtcInv
<1> QED BY <1>2, <1>3

LEMMA GetKeeps == ASSUME RtcInv, LibGetTime PROVE RtcInv'
<1>1. rtcType' = rtcType /\ hour12' = hour12 /\ reg' = reg /\ last' = last
  BY DEF LibGetTime
<1>2. IsTimeValid(Default)
  BY DEF IsTimeValid, ValidYears, Default, Time, DayMax, BuildYear
<1>3. got' = NoTime \/ got' = IF IsTimeValid(Decode(reg)) THEN Decode(reg) ELSE Default
  BY DEF LibGetTime
<1>4. got' # NoTime => IsTimeValid(got')
  BY <1>2, <1>3
<1>5. ASSUME got' # NoTime, last # NoTime, rtcType = "Abeoz9" => last.Year < 2080
      PROVE  got' = IF HourUnsure THEN [last EXCEPT !.Hour = got'.Hour] ELSE last
  <2>1. last \in Times /\ IsTimeValid(last) /\ last.Year >= 2000 /\ last.Year <= 2099
    <3>1. last \in Times /\ Settable(last)
      BY <1>5 DEF RtcInv
    <3> QED BY <3>1 DEF Settable, YearMax, Times
  <2>2. PICK w \in {0, 255} : reg = Encode(last, w)
    BY <1>5 DEF RtcInv
  <2>3. IsTimeValid(Decode(reg)) /\ Decode(reg) = IF HourUnsure THEN [last EXCEPT !.Hour = Decode(reg).Hour] ELSE last
    BY <1>5, <2>1, <2>2, ImageRead DEF RtcInv
  <2> QED BY <1>3, <1>5, <2>3
<1>6. Settable(last)' <=> Settable(last)
  BY <1>1 DEF Settable, YearMax
<1>7. HourUnsure' <=> HourUnsure
  BY <1>1 DEF HourUnsure
<1> QED BY <1>1, <1>4, <1>5, <1>6, <1>7 DEF RtcInv

LEMMA RtcStep == RtcInv /\ [RtcNext]_rtcVars => RtcInv'
<1> SUFFICES ASSUME RtcInv, [RtcNext]_rtcVars PROVE RtcInv'
  OBVIOUS
<1>1. CASE UNCHANGED rtcVars
  BY <1>1 DEF rtcVars, RtcInv, Settable, YearMax, HourUnsure
<1> QED BY <1>1, SetKeeps, GetKeeps DEF RtcNext

\* ReadsBackWhatWasSet for every time that may be set and whatever the registers held before: LibGetTime delivers
\* the time LibSetTime stored.  There are two exceptions: an Abeoz9 set to a year from 2080 on, which its year mask
\* cuts, and, inside the property, a Pcf212x left in 12-hour mode, which LibSetTime does not end: there the hour may
\* be another (20 is read back as 12), nothing else.
THEOREM TimeReadsBack == RtcSpec => [](ReadsBackWhatWasSet \/ (rtcType = "Abeoz9" /\ last.Year >= 2080))
<1>1. RtcInit => RtcInv
  BY DEF RtcInit, RtcInv
<1>2. RtcInv => ReadsBackWhatWasSet \/ (rtcType = "Abeoz9" /\ last.Year >= 2080)
  <2> SUFFICES ASSUME RtcInv, ~(rtcType = "Abeoz9" /\ last.Year >= 2080) PROVE ReadsBackWhatWasSet
    OBVIOUS
  <2>1. last # NoTime => last.Year \in Nat
    BY DEF RtcInv, Times
  <2>2. last # NoTime => (rtcType = "Abeoz9" => last.Year < 2080)
    BY <2>1
  <2>3. ASSUME got # NoTime
        PROVE  IsTimeValid(got) /\ (last # NoTime => got = IF HourUnsure THEN [last EXCEPT !.Hour = got.Hour] ELSE last)
    BY <2>2, <2>3 DEF RtcInv
  <2> QED BY <2>3 DEF ReadsBackWhatWasSet
<1> QED BY <1>1, <1>2, RtcStep, PTL DEF RtcSpec

----------------------------------------------------------------------------
(* The display. *)

\* Every set of numbers has a least one.
LEMMA NatMin ==
  ASSUME NEW T, T \subseteq Nat, T # {}
  PROVE  \E x \in T : \A y \in T : x <= y
<1> DEFINE R == {ss \in Nat \X Nat : ss[1] < ss[2]}
<1>1. IsWellFoundedOn(R, Nat)
  BY NatLessThanWellFounded DEF OpToRel
<1> HIDE DEF R
<1>2. PICK x \in T : \A y \in T : ~(<<y, x>> \in R)
  BY <1>1, WFMin
<1>3. ASSUME NEW y \in T PROVE x <= y
  <2>1. x \in Nat /\ y \in Nat /\ ~(<<y, x>> \in R)
    BY <1>2
  <2> QED BY <2>1 DEF R
<1> QED BY <1>3

Source == {"none", "table", "panel", "monitor"}
Lanes == {0, 1, 2, 4}
Timings == [res : Resolutions, by : Source, osc : Source]
DisplayModes == [res : Resolutions, by : Source, osc : Source, active : BOOLEAN]
Panels == [res : Resolutions, by : Source, osc : Source, ports : Lanes, bpp : {0, 18, 24}]
VduControllers == [on : BOOLEAN, base : Nat, end : Nat, timing : Timings, ports : Lanes]
Transmitters == [res : Resolutions, phy : Nat, path : BOOLEAN]

VduTypes ==
  /\ gop \in {"off", "asked", "ready", "gone"} /\ tree \in Trees /\ modes \in [Modes -> DisplayModes]
  /\ panel \in Panels /\ lvds \in Panels /\ active \in Nat /\ shown \in Nat /\ pcd \in Resolutions
  /\ vdu \in [hdmi : VduControllers, lvds : VduControllers] /\ hdmi \in Transmitters /\ denied \in BOOLEAN
  /\ pll \in [hdmi : Timings, lvds : Timings]

\* The table keeps its resolutions, and nothing is shown before the driver is ready.  A panel from the table is the
\* one of LVDS and its mode the only one.
VduInv ==
  /\ VduTypes
  /\ \A m \in Modes : modes[m].res = Table[m] /\ modes[m].by = modes[m].osc
  /\ active = Cardinality(ActiveModes(modes))
  /\ gop = "off" => ActiveModes(modes) = {} /\ panel = NoPanel /\ lvds = NoPanel
  /\ gop # "ready" => ~vdu.hdmi.on /\ ~vdu.lvds.on
  /\ vdu.lvds.on => vdu.hdmi.on
  /\ gop = "ready" => vdu.hdmi.base = VramBase /\ vdu.lvds.base = VramBase
  /\ \A m \in Modes : Table[m] = panel.res =>
       lvds = panel /\ ActiveModes(modes) = {m} /\ pcd = panel.res /\ panel.ports # 0
  /\ PictureAsReported

LEMMA TableFacts ==
  /\ Modes = 1 .. 10
  /\ \A m \in Modes : Table[m] \in Resolutions /\ Table[m] # Nothing
  /\ \A m, k \in Modes : Table[m] = Table[k] => m = k
<1>1. Modes = 1 .. 10
  BY DEF Modes, Table
<1>2. \A m \in Modes : m \in {1, 2, 3, 4, 5, 6, 7, 8, 9, 10}
  BY <1>1
<1>3. \A m \in Modes : Table[m] \in Resolutions /\ Table[m] # Nothing
  BY <1>2 DEF Table, Resolutions, Nothing
<1>4. \A m, k \in Modes : Table[m] = Table[k] => m = k
  BY <1>2 DEF Table
<1> QED BY <1>1, <1>3, <1>4

LEMMA FrameFits ==
  ASSUME NEW m \in Modes, NEW t, t.res = Table[m]
  PROVE  FrameEnd(t) \in Nat /\ FrameEnd(t) >= VramBase /\ FrameEnd(t) + 8 <= VramBase + VramSize
<1>1. m \in {1, 2, 3, 4, 5, 6, 7, 8, 9, 10}
  BY TableFacts
<1> DEFINE p == 4 * t.res[1] * t.res[2]
<1>2. p \in Nat /\ 8 <= p /\ p <= 16777216
  BY <1>1 DEF Table
<1> HIDE DEF p
<1>3. FrameEnd(t) = (16777216 + p - 1) - ((16777216 + p - 1) % 8)
  BY DEF FrameEnd, VramBase, p
<1> QED BY <1>2, <1>3 DEF VramBase, VramSize

----------------------------------------------------------------------------
\* The panel that the tree tells.
LEMMA PanelTypes ==
  ASSUME NEW t \in Trees
  PROVE  /\ FdtGetPanelTimings(t) \in Panels
         /\ \A m \in Modes : Table[m] = FdtGetPanelTimings(t).res => FdtGetPanelTimings(t).ports # 0
<1> DEFINE p == FdtGetPanelTimings(t)
<1>1. t.res \in Resolutions /\ Nothing \in Resolutions /\ Table[HD] \in Resolutions
  <2>1. HD \in Modes
    BY TableFacts DEF HD
  <2>2. Nothing \in Resolutions
    BY DEF Nothing, Resolutions
  <2> QED BY <2>1, <2>2, VduAssumption, TableFacts DEF VduAssumption
<1>2. NoPanel \in Panels /\ NoPanel.res = Nothing
  BY <1>1 DEF NoPanel, Panels, Source, Lanes
<1>3. CASE p = NoPanel
  BY <1>2, <1>3, TableFacts
<1>4. CASE p # NoPanel
  <2>1. t.lanes \in {1, 2, 4} /\ (p = BridgeNode(t) \/ p = PanelNode(t))
    <3>1. p = IF ~t.vdu \/ t.lanes \notin {1, 2, 4} THEN NoPanel
              ELSE CASE t.panel = "none" -> IF Elpitech THEN BridgeNode(t) ELSE NoPanel
                     [] t.panel = "off"  -> NoPanel
                     [] t.panel = "on"   -> IF t.map = "odd" \/ ~t.whole THEN NoPanel ELSE PanelNode(t)
      BY DEF FdtGetPanelTimings
    <3> HIDE DEF p
    <3>2. t.panel \in {"none", "off", "on"}
      BY VduAssumption DEF VduAssumption
    <3> QED BY <1>4, <3>1, <3>2
  <2> QED BY <2>1, <1>1, <1>2, <1>4, TableFacts DEF BridgeNode, PanelNode, Panels, Source, Lanes
<1> QED BY <1>3, <1>4

----------------------------------------------------------------------------
\* The largest of some indices is one of them.
LEMMA MaxIn ==
  ASSUME NEW n \in Nat, NEW S, S \subseteq 1 .. n, S # {}
  PROVE  Max(S) \in S
<1> DEFINE T == {u \in Nat : \A y \in S : u >= y}
<1>1. n \in T
  OBVIOUS
<1>2. PICK x \in T : \A y \in T : x <= y
  <2>1. T \subseteq Nat /\ T # {}
    BY <1>1
  <2> HIDE DEF T
  <2> QED BY <2>1, NatMin
<1>3. x \in Nat /\ \A y \in S : x >= y
  BY DEF T
<1>4. x \in S
  <2> SUFFICES ASSUME x \notin S PROVE FALSE
    OBVIOUS
  <2>1. PICK s \in S : s \in 1 .. n
    OBVIOUS
  <2>2. x - 1 \in Nat
    BY <1>3, <2>1
  <2>3. \A y \in S : x - 1 >= y
    BY <1>3
  <2>4. x - 1 \in T /\ ~(x <= x - 1)
    BY <2>2, <2>3
  <2> HIDE DEF T
  <2> QED BY <1>2, <2>4
<1>5. \E z \in S : \A y \in S : z >= y
  BY <1>3, <1>4
<1> QED BY <1>5 DEF Max

\* What the monitor tells leaves a mode its resolution and gives it one source.
LEMMA DetailedTypes ==
  ASSUME NEW mode \in DisplayModes, mode.by = mode.osc, NEW ds \in Seq([res : Resolutions, by : {"monitor"}])
  PROVE  /\ WithDetailed(mode, ds) \in DisplayModes /\ WithDetailed(mode, ds).res = mode.res
         /\ WithDetailed(mode, ds).by = WithDetailed(mode, ds).osc
<1> DEFINE own == {i \in DOMAIN ds : ds[i].res = mode.res}
           w == WithDetailed(mode, ds)
<1>1. w = IF own = {} THEN mode ELSE Detailed(mode, ds[Max(own)])
  BY DEF WithDetailed
<1>2. CASE own = {}
  BY <1>1, <1>2
<1>3. CASE own # {}
  <2>1. Len(ds) \in Nat /\ own \subseteq 1 .. Len(ds)
    OBVIOUS
  <2>2. Max(own) \in own
    <3> HIDE DEF own
    <3> QED BY <1>3, <2>1, MaxIn
  <2> DEFINE d == ds[Max(own)]
  <2>3. d \in [res : Resolutions, by : {"monitor"}] /\ d.res = mode.res
    <3>1. \A i \in own : ds[i] \in [res : Resolutions, by : {"monitor"}] /\ ds[i].res = mode.res
      <4> DEFINE R == [res : Resolutions, by : {"monitor"}]
      <4>1. ds \in Seq(R)
        OBVIOUS
      <4> HIDE DEF R
      <4>2. \A i \in 1 .. Len(ds) : ds[i] \in R
        BY <4>1, ElementOfSeq
      <4> QED BY <2>1, <4>2 DEF R
    <3> HIDE DEF own
    <3> QED BY <2>2, <3>1
  <2>4. w = Detailed(mode, d)
    BY <1>1, <1>3
  <2> HIDE DEF d, w, own
  <2>5. w \in DisplayModes /\ w.res = mode.res /\ w.by = w.osc
    BY <2>3, <2>4 DEF Detailed, DisplayModes, Source
  <2> QED BY <2>5 DEF w
<1> QED BY <1>2, <1>3

LEMMA ActivateTypes ==
  ASSUME NEW ms \in [Modes -> DisplayModes], NEW S
  PROVE  /\ Activate(ms, S) \in [Modes -> DisplayModes]
         /\ \A m \in Modes : /\ Activate(ms, S)[m].res = ms[m].res /\ Activate(ms, S)[m].by = ms[m].by
                             /\ Activate(ms, S)[m].osc = ms[m].osc
         /\ ActiveModes(Activate(ms, S)) = ActiveModes(ms) \cup (Modes \cap S)
<1> DEFINE e(m) == [ms[m] EXCEPT !.active = @ \/ m \in S]
           a == Activate(ms, S)
<1> SUFFICES /\ a \in [Modes -> DisplayModes]
             /\ \A m \in Modes : a[m].res = ms[m].res /\ a[m].by = ms[m].by /\ a[m].osc = ms[m].osc
             /\ ActiveModes(a) = ActiveModes(ms) \cup (Modes \cap S)
  OBVIOUS
<1>1. a = [m \in Modes |-> e(m)]
  BY DEF Activate
<1>2. ASSUME NEW m \in Modes
      PROVE  /\ e(m) \in DisplayModes /\ e(m).res = ms[m].res /\ e(m).by = ms[m].by /\ e(m).osc = ms[m].osc
             /\ e(m).active <=> ms[m].active \/ m \in S
  <2>1. ms[m] \in DisplayModes
    OBVIOUS
  <2> DEFINE o == ms[m]
             b == o.active \/ m \in S
  <2>2. o \in DisplayModes /\ b \in BOOLEAN
    BY <2>1
  <2> HIDE DEF o
  <2>3. [o EXCEPT !.active = b] = [res |-> o.res, by |-> o.by, osc |-> o.osc, active |-> b]
    BY <2>2 DEF DisplayModes
  <2> QED BY <2>2, <2>3 DEF DisplayModes, o
<1> HIDE DEF e
<1>3. a \in [Modes -> DisplayModes] /\ \A m \in Modes : a[m] = e(m)
  BY <1>1, <1>2
<1> HIDE DEF a
<1>4. \A m \in Modes : a[m].res = ms[m].res /\ a[m].by = ms[m].by /\ a[m].osc = ms[m].osc
  BY <1>2, <1>3
<1>5. \A m \in Modes : a[m].active <=> ms[m].active \/ m \in S
  <2> SUFFICES ASSUME NEW m \in Modes PROVE a[m].active <=> ms[m].active \/ m \in S
    OBVIOUS
  <2>1. a[m] = e(m)
    BY <1>3
  <2>2. e(m).active <=> ms[m].active \/ m \in S
    BY <1>2
  <2> QED BY <2>1, <2>2, Zenon
<1>6. ActiveModes(a) = ActiveModes(ms) \cup (Modes \cap S)
  BY <1>5, Zenon DEF ActiveModes
<1> QED BY <1>3, <1>4, <1>6

\* The transmitter after its set-up.
LEMMA HdmiTypes ==
  ASSUME NEW x \in Transmitters, NEW t, t.res \in Resolutions, NEW m \in Nat, NEW r \in HdmiInit(x, t, m)
  PROVE  r.tx \in Transmitters /\ r.tx.res = t.res
<1> DEFINE x1 == HdmiInitAvComposer(x, t)
<1>1. x1 \in Transmitters /\ x1.res = t.res
  BY DEF HdmiInitAvComposer, Transmitters
<1>2. ASSUME NEW y \in Transmitters, y.res = t.res, NEW z \in HdmiPhyConfigure(y, m)
      PROVE  z \in Transmitters /\ z.res = t.res
  BY <1>2 DEF HdmiPhyConfigure, Transmitters, Mixture
<1> HIDE DEF x1
<1>3. PICK q \in HdmiPhyInit(x1, m) : r = [q EXCEPT !.tx = IF q.ok THEN HdmiEnableVideoPath(@) ELSE @]
  BY DEF HdmiInit, x1
<1> DEFINE Out(y) == {[tx |-> y, ok |-> FALSE]} \cup {[tx |-> z, ok |-> o] : z \in HdmiPhyConfigure(y, m), o \in BOOLEAN}
<1>4. PICK y \in HdmiPhyConfigure(x1, m) : q \in Out(y)
  <2>1. q \in UNION {Out(y) : y \in HdmiPhyConfigure(x1, m)}
    BY <1>3 DEF HdmiPhyInit
  <2> HIDE DEF Out
  <2> QED BY <2>1
<1>5. y \in Transmitters /\ y.res = t.res
  BY <1>1, <1>2
<1>6. PICK z \in HdmiPhyConfigure(y, m) \cup {y}, o \in BOOLEAN : q = [tx |-> z, ok |-> o]
  <2>1. CASE q = [tx |-> y, ok |-> FALSE]
    BY <2>1
  <2>2. CASE \E z \in HdmiPhyConfigure(y, m), o \in BOOLEAN : q = [tx |-> z, ok |-> o]
    BY <2>2
  <2> QED BY <1>4, <2>1, <2>2
<1>7. z \in Transmitters /\ z.res = t.res
  BY <1>2, <1>5
<1>8. r.tx = HdmiEnableVideoPath(z) \/ r.tx = z
  BY <1>3, <1>6
<1>9. HdmiEnableVideoPath(z) \in Transmitters /\ HdmiEnableVideoPath(z).res = t.res
  BY <1>7 DEF HdmiEnableVideoPath, Transmitters
<1> QED BY <1>7, <1>8, <1>9

\* Every number below that of the active modes is the number of one.
LEMMA ActiveFound ==
  ASSUME NEW n \in Nat, n < Cardinality(ActiveModes(modes))
  PROVE  FindActiveDisplayMode(n) \in ActiveModes(modes)
<1> DEFINE A == ActiveModes(modes)
           B(m) == {k \in A : k < m}
           T == {m \in Nat : Cardinality(B(m)) > n}
<1>1. A \subseteq 1 .. 10 /\ IsFiniteSet(A)
  <2>1. A \subseteq 1 .. 10
    BY TableFacts DEF ActiveModes
  <2>2. IsFiniteSet(1 .. 10)
    <3>1. \A a, b \in Int : IsFiniteSet(a .. b)
      BY FS_Interval
    <3>2. 1 \in Int /\ 10 \in Int
      OBVIOUS
    <3> QED BY <3>1, <3>2, Zenon
  <2> QED BY <2>1, <2>2, FS_Subset
<1> HIDE DEF A
<1>2. \A m \in Nat : IsFiniteSet(B(m)) /\ Cardinality(B(m)) \in Nat
  BY <1>1, FS_Subset, FS_CardinalityType
<1>3. B(0) = {} /\ B(11) = A
  <2>1. \A k \in A : k \in 1 .. 10
    BY <1>1
  <2>2. \A k \in A : ~(k < 0) /\ k < 11
    BY <2>1
  <2> QED BY <2>2
<1>4. Cardinality(B(0)) = 0
  BY <1>3, FS_EmptySet
<1>5. \A m \in Nat : B(m + 1) = IF m \in A THEN B(m) \cup {m} ELSE B(m)
  <2> SUFFICES ASSUME NEW m \in Nat PROVE B(m + 1) = IF m \in A THEN B(m) \cup {m} ELSE B(m)
    OBVIOUS
  <2>1. \A k \in A : k \in 1 .. 10
    BY <1>1
  <2>2. \A k \in A : k < m + 1 <=> k < m \/ k = m
    BY <2>1
  <2> QED BY <2>2
<1>6. \A m \in Nat : m \notin B(m)
  BY <1>1
<1>7. ASSUME NEW m \in Nat
      PROVE  Cardinality(B(m + 1)) = IF m \in A THEN Cardinality(B(m)) + 1 ELSE Cardinality(B(m))
  <2>1. CASE m \in A
    <3>1. Cardinality(B(m) \cup {m}) = Cardinality(B(m)) + 1
      <4> HIDE DEF B
      <4> QED BY <1>2, <1>6, FS_AddElement
    <3> QED BY <2>1, <3>1, <1>5
  <2>2. CASE m \notin A
    BY <2>2, <1>5
  <2> QED BY <2>1, <2>2
<1>8. 11 \in T
  BY <1>3 DEF A
<1> HIDE DEF B
<1>9. PICK x \in T : \A y \in T : x <= y
  <2>1. T \subseteq Nat /\ T # {}
    BY <1>8
  <2> HIDE DEF T
  <2> QED BY <2>1, NatMin
<1>10. x \in Nat /\ Cardinality(B(x)) > n
  BY DEF T
<1>11. x # 0
  BY <1>4, <1>10
<1> DEFINE w == x - 1
<1>12. w \in Nat /\ w + 1 = x /\ ~(x <= w)
  BY <1>10, <1>11
<1> HIDE DEF w
<1>13. ~(Cardinality(B(w)) > n)
  BY <1>9, <1>12 DEF T
<1>14. w \in A /\ Cardinality(B(w)) = n
  BY <1>2, <1>7, <1>10, <1>12, <1>13
<1>15. \E m \in A : Cardinality({k \in A : k < m}) = n
  BY <1>14 DEF B
<1> QED BY <1>15 DEF FindActiveDisplayMode, A

----------------------------------------------------------------------------
\* The first question of the driver: panel or monitor.
LEMMA AskedKeeps ==
  ASSUME VduInv, GetMaxMode
  PROVE  VduInv'
<1>1. /\ gop = "off" /\ gop' = "asked" /\ panel' = FdtGetPanelTimings(tree)
      /\ active' = Cardinality(ActiveModes(modes)')
      /\ UNCHANGED <<tree, shown, pll, denied>>
  BY DEF GetMaxMode, ActiveModes
<1>2. /\ VduTypes /\ ActiveModes(modes) = {} /\ lvds = NoPanel /\ ~vdu.hdmi.on /\ ~vdu.lvds.on
      /\ \A m \in Modes : modes[m].res = Table[m] /\ modes[m].by = modes[m].osc
  BY <1>1 DEF VduInv
<1>3. panel' \in Panels /\ \A m \in Modes : Table[m] = panel'.res => panel'.ports # 0
  BY <1>1, <1>2, PanelTypes DEF VduTypes
<1>4. ASSUME NEW S
      PROVE  /\ Activate(modes, S) \in [Modes -> DisplayModes]
             /\ \A m \in Modes : Activate(modes, S)[m].res = Table[m] /\ Activate(modes, S)[m].by = Activate(modes, S)[m].osc
             /\ ActiveModes(Activate(modes, S)) = Modes \cap S
  BY <1>2, ActivateTypes DEF VduTypes
<1>5. Fallback(modes) = Activate(modes, {SVGA}) /\ Table[SVGA] \in Resolutions
  BY TableFacts DEF Fallback, SVGA
<1> DEFINE Half == /\ modes' \in [Modes -> DisplayModes] /\ lvds' \in Panels /\ pcd' \in Resolutions /\ hdmi' \in Transmitters
                   /\ vdu' \in [hdmi : VduControllers, lvds : VduControllers] /\ ~vdu'.hdmi.on /\ ~vdu'.lvds.on
                   /\ \A m \in Modes : modes'[m].res = Table[m] /\ modes'[m].by = modes'[m].osc
                   /\ \A m \in Modes : Table[m] = panel'.res =>
                        lvds' = panel' /\ ActiveModes(modes') = {m} /\ pcd' = panel'.res /\ panel'.ports # 0
<1>6. ASSUME panel'.ports # 0 PROVE Half
  <2>1. WithPanel(panel') /\ UNCHANGED <<vdu, hdmi>>
    BY <1>6 DEF GetMaxMode
  <2> DEFINE match == {m \in Modes : Table[m] = panel'.res}
  <2>2. CASE match = {}
    <3>1. modes' = Activate(modes, {SVGA}) /\ pcd' = Table[SVGA] /\ lvds' = lvds
      BY <1>5, <2>1, <2>2 DEF WithPanel
    <3> QED BY <1>2, <1>4, <1>5, <2>1, <2>2, <3>1 DEF VduTypes
  <2>3. CASE match # {}
    <3>1. modes' = Activate(modes, {Min(match)}) /\ pcd' = panel'.res /\ lvds' = panel'
      BY <2>1, <2>3 DEF WithPanel
    <3>2. PICK k \in Modes : match = {k} /\ Table[k] = panel'.res
      BY <2>3, TableFacts
    <3>3. Min(match) = k
      BY <3>2, TableFacts DEF Min
    <3>4. ActiveModes(modes') = {k}
      BY <1>4, <3>1, <3>3
    <3>5. \A m \in Modes : Table[m] = panel'.res => m = k
      BY <3>2
    <3>6. panel'.res \in Resolutions
      BY <1>3 DEF Panels
    <3> QED BY <1>2, <1>3, <1>4, <2>1, <3>1, <3>4, <3>5, <3>6 DEF VduTypes
  <2> QED BY <2>2, <2>3
<1>7. ASSUME panel'.ports = 0 PROVE Half
  <2>1. WithMonitor
    BY <1>7 DEF GetMaxMode
  <2>2. \A m \in Modes : Table[m] # panel'.res
    BY <1>3, <1>7
  <2>3. vdu' = LvdsShutdown(vdu) /\ lvds' = lvds
    BY <2>1 DEF WithMonitor
  <2>4. vdu' \in [hdmi : VduControllers, lvds : VduControllers] /\ ~vdu'.hdmi.on /\ ~vdu'.lvds.on
    BY <1>2, <2>3 DEF LvdsShutdown, VduTypes, VduControllers
  <2>5. PICK r \in ReadOutcomes(hdmi) :
          /\ hdmi' = r.tx
          /\ IF r.edid = NoEdid THEN modes' = Fallback(modes) /\ pcd' = Table[SVGA]
             ELSE modes' = ParseEdidData(modes, r.edid) /\ UNCHANGED pcd
    BY <2>1 DEF WithMonitor
  <2>6. PICK q \in HdmiInit(hdmi, modes[VGA], VGA), e \in Edids \cup {NoEdid} :
          r.tx = q.tx /\ (r.edid = e \/ r.edid = NoEdid)
    <3>1. PICK c \in HdmiReadEdid(hdmi), o \in BOOLEAN : r = [c EXCEPT !.edid = IF o THEN @ ELSE NoEdid]
      BY DEF ReadOutcomes
    <3>2. PICK q \in HdmiInit(hdmi, modes[VGA], VGA), e \in Edids \cup {NoEdid} : c = [tx |-> q.tx, edid |-> e]
      BY DEF HdmiReadEdid
    <3> QED BY <3>1, <3>2
  <2>7. hdmi' \in Transmitters
    <3>1. VGA \in Modes /\ VGA \in Nat
      BY TableFacts DEF VGA
    <3>2. modes[VGA].res \in Resolutions
      BY <1>2, <3>1, TableFacts
    <3> QED BY <1>2, <2>5, <2>6, <3>1, <3>2, HdmiTypes DEF VduTypes
  <2>8. CASE r.edid = NoEdid
    <3>1. modes' = Activate(modes, {SVGA}) /\ pcd' = Table[SVGA]
      BY <1>5, <2>5, <2>8
    <3> QED BY <1>2, <1>4, <1>5, <2>2, <2>3, <2>4, <2>7, <3>1 DEF VduTypes
  <2>9. CASE r.edid # NoEdid
    <3>1. r.edid \in Edids /\ pcd' = pcd /\ modes' = ParseEdidData(modes, r.edid)
      BY <2>5, <2>6, <2>9
    <3> DEFINE ds == r.edid.detailed
               d == [m \in Modes |-> WithDetailed(modes[m], ds)]
               S == Standard(r.edid) \cup r.edid.established
    <3>2. ds \in Seq([res : Resolutions, by : {"monitor"}])
      BY <3>1, VduAssumption DEF VduAssumption
    <3>3. \A m \in Modes : modes[m] \in DisplayModes /\ modes[m].by = modes[m].osc
      BY <1>2 DEF VduTypes
    <3>4. modes' = Activate(d, S)
      BY <3>1 DEF ParseEdidData
    <3> HIDE DEF ds, S
    <3>5. d \in [Modes -> DisplayModes] /\ \A m \in Modes : d[m].res = Table[m] /\ d[m].by = d[m].osc
      BY <1>2, <3>2, <3>3, DetailedTypes
    <3> HIDE DEF d
    <3>6. /\ modes' \in [Modes -> DisplayModes]
          /\ \A m \in Modes : modes'[m].res = d[m].res /\ modes'[m].by = d[m].by /\ modes'[m].osc = d[m].osc
      BY <3>4, <3>5, ActivateTypes
    <3>7. \A m \in Modes : modes'[m].res = Table[m] /\ modes'[m].by = modes'[m].osc
      BY <3>5, <3>6
    <3> QED BY <1>2, <2>2, <2>3, <2>4, <2>7, <3>1, <3>6, <3>7 DEF VduTypes
  <2> QED BY <2>8, <2>9
<1>8. Half
  <2> HIDE DEF Half
  <2>1. panel'.ports = 0 \/ panel'.ports # 0
    OBVIOUS
  <2> QED BY <1>6, <1>7, <2>1 DEF Half
<1>9. active' \in Nat
  <2>1. ActiveModes(modes)' \subseteq 1 .. 10
    BY TableFacts DEF ActiveModes
  <2>2. IsFiniteSet(ActiveModes(modes)')
    <3>1. IsFiniteSet(1 .. 10)
      <4>1. \A a, b \in Int : IsFiniteSet(a .. b)
        BY FS_Interval
      <4>2. 1 \in Int /\ 10 \in Int
        OBVIOUS
      <4> QED BY <4>1, <4>2, Zenon
    <3> QED BY <2>1, <3>1, FS_Subset
  <2> QED BY <1>1, <2>2, FS_CardinalityType
<1>10. VduTypes'
  BY <1>1, <1>2, <1>3, <1>8, <1>9 DEF VduTypes
<1>11. PictureAsReported'
  BY <1>8 DEF PictureAsReported, MonitorDriven, PanelDriven
<1>12. ActiveModes(modes') = ActiveModes(modes)'
  BY DEF ActiveModes
<1> QED BY <1>1, <1>8, <1>10, <1>11, <1>12 DEF VduInv

----------------------------------------------------------------------------
\* The registers of a controller that is given a timing.
SwitchedOn(c, t, ports) == LcdSetTimings(c, t, TRUE, ports)

LEMMA TimingsSet ==
  ASSUME NEW c \in VduControllers, NEW t \in Timings, NEW ports \in Lanes
  PROVE  /\ SwitchedOn(c, t, ports) \in VduControllers
         /\ SwitchedOn(c, t, ports).on
         /\ SwitchedOn(c, t, ports).base = c.base /\ SwitchedOn(c, t, ports).end = FrameEnd(t)
         /\ SwitchedOn(c, t, ports).timing = t /\ SwitchedOn(c, t, ports).ports = ports
<1> DEFINE p == 4 * t.res[1] * t.res[2]
<1>1. p \in Nat
  <2>1. t.res[1] \in Nat /\ t.res[2] \in Nat
    BY DEF Timings, Resolutions
  <2> QED BY <2>1
<1> HIDE DEF p
<1>2. FrameEnd(t) = (16777216 + p - 1) - ((16777216 + p - 1) % 8)
  BY DEF FrameEnd, VramBase, p
<1>3. FrameEnd(t) \in Nat
  BY <1>1, <1>2
<1> QED BY <1>3 DEF SwitchedOn, LcdSetTimings, VduControllers

LEMMA SetModeKeeps ==
  ASSUME VduInv, NEW n \in Nat, SetMode(n)
  PROVE  VduInv'
<1> DEFINE m == FindActiveDisplayMode(n)
           t == TimingOf(m)
           pt == PanelTiming
<1>1. /\ gop = "ready" /\ shown' = n /\ pll' \in BothClocks(m)
      /\ denied' = (pll' # [hdmi |-> t, lvds |-> pt] \/ hdmi'.phy # m)
      /\ vdu' = SetOutputs(vdu, m) /\ n < active
      /\ UNCHANGED <<gop, tree, modes, panel, lvds, active, pcd>>
  BY DEF SetMode
<1>2. PICK r \in HdmiInit(hdmi, t, m) : hdmi' = r.tx
  BY DEF SetMode
<1>3. /\ VduTypes /\ active = Cardinality(ActiveModes(modes))
      /\ vdu.hdmi.base = VramBase /\ vdu.lvds.base = VramBase
      /\ \A k \in Modes : modes[k].res = Table[k] /\ modes[k].by = modes[k].osc
      /\ \A k \in Modes : Table[k] = panel.res =>
           lvds = panel /\ ActiveModes(modes) = {k} /\ pcd = panel.res /\ panel.ports # 0
      /\ (\E k \in Modes : Table[k] = panel.res) => active = 1
  <2>1. /\ VduTypes /\ active = Cardinality(ActiveModes(modes))
        /\ vdu.hdmi.base = VramBase /\ vdu.lvds.base = VramBase
        /\ \A k \in Modes : modes[k].res = Table[k] /\ modes[k].by = modes[k].osc
        /\ \A k \in Modes : Table[k] = panel.res =>
             lvds = panel /\ ActiveModes(modes) = {k} /\ pcd = panel.res /\ panel.ports # 0
    BY <1>1 DEF VduInv
  <2>2. (\E k \in Modes : Table[k] = panel.res) => active = 1
    <3>1. \A k : Cardinality({k}) = 1
      BY FS_Singleton
    <3> QED BY <2>1, <3>1
  <2> QED BY <2>1, <2>2
<1>4. m \in ActiveModes(modes) /\ m \in Modes /\ m \in Nat
  <2>1. m \in ActiveModes(modes)
    BY <1>1, <1>3, ActiveFound
  <2> HIDE DEF m
  <2>2. m \in Modes
    BY <2>1 DEF ActiveModes
  <2> QED BY <2>1, <2>2, TableFacts
<1>5. QueryMode(shown)' = modes[m].res
  BY <1>1 DEF QueryMode, FindActiveDisplayMode, ActiveModes
<1> HIDE DEF m
<1>6. t \in Timings /\ t.res = Table[m] /\ t.by = t.osc
  BY <1>3, <1>4 DEF TimingOf, Timings, VduTypes, DisplayModes
<1>7. pt \in Timings /\ pt = [res |-> lvds.res, by |-> lvds.by, osc |-> lvds.osc]
  BY <1>3 DEF PanelTiming, Timings, VduTypes, Panels
<1>8. hdmi' \in Transmitters /\ hdmi'.res = Table[m]
  <2>1. t.res \in Resolutions
    BY <1>6 DEF Timings
  <2> HIDE DEF t
  <2> QED BY <1>2, <1>3, <1>4, <1>6, <2>1, HdmiTypes DEF VduTypes
<1>9. pll' \in [hdmi : Timings, lvds : Timings]
  <2>1. PICK h \in {pll.hdmi, t}, l \in {pll.lvds, pt} : pll' = [hdmi |-> h, lvds |-> l]
    BY <1>1 DEF BothClocks, SetClock
  <2>2. pll.hdmi \in Timings /\ pll.lvds \in Timings
    BY <1>3 DEF VduTypes
  <2> HIDE DEF t, pt
  <2> QED BY <1>6, <1>7, <2>1, <2>2
<1>10. denied' \/ (pll'.hdmi = t /\ pll'.lvds = pt)
  <2> HIDE DEF t, pt
  <2>1. CASE pll' = [hdmi |-> t, lvds |-> pt]
    BY <2>1
  <2>2. CASE pll' # [hdmi |-> t, lvds |-> pt]
    BY <1>1, <2>2
  <2> QED BY <2>1, <2>2
<1>11. denied' \in BOOLEAN
  BY <1>1
<1> DEFINE h == SwitchedOn(vdu.hdmi, t, 0)
           l == SwitchedOn(vdu.lvds, pt, lvds.ports)
<1>12. /\ vdu.hdmi \in VduControllers /\ vdu.lvds \in VduControllers /\ lvds.ports \in Lanes /\ 0 \in Lanes
       /\ vdu = [hdmi |-> vdu.hdmi, lvds |-> vdu.lvds] /\ panel.ports \in Lanes
  BY <1>3 DEF VduTypes, Panels, Lanes
<1>13. vdu' = [hdmi |-> h, lvds |-> IF LvdsEnabled THEN l ELSE vdu.lvds]
  <2> HIDE DEF h, l
  <2>1. \A a, b : [[vdu EXCEPT !.hdmi = a] EXCEPT !.lvds = b] = [hdmi |-> a, lvds |-> b]
    <3> DEFINE x == vdu.hdmi
               y == vdu.lvds
    <3>1. vdu = [hdmi |-> x, lvds |-> y]
      BY <1>12
    <3> HIDE DEF x, y
    <3>2. \A a : [vdu EXCEPT !.hdmi = a] = [hdmi |-> a, lvds |-> y]
      BY <3>1
    <3>3. \A a, b : [[hdmi |-> a, lvds |-> y] EXCEPT !.lvds = b] = [hdmi |-> a, lvds |-> b]
      OBVIOUS
    <3> QED BY <3>2, <3>3
  <2>2. \A a : [vdu EXCEPT !.hdmi = a] = [hdmi |-> a, lvds |-> vdu.lvds]
    <3> DEFINE x == vdu.hdmi
               y == vdu.lvds
    <3>1. vdu = [hdmi |-> x, lvds |-> y]
      BY <1>12
    <3> HIDE DEF x, y
    <3>2. \A a : [vdu EXCEPT !.hdmi = a] = [hdmi |-> a, lvds |-> y]
      BY <3>1
    <3> QED BY <3>2 DEF y
  <2>3. vdu' = IF LvdsEnabled THEN [[vdu EXCEPT !.hdmi = h] EXCEPT !.lvds = l] ELSE [vdu EXCEPT !.hdmi = h]
    BY <1>1, <2>2 DEF SetOutputs, SwitchedOn, h, l
  <2> QED BY <2>1, <2>2, <2>3
<1>14. /\ h \in VduControllers /\ h.on /\ h.base = VramBase /\ h.end = FrameEnd(t) /\ h.timing = t
       /\ l \in VduControllers /\ l.on /\ l.base = VramBase /\ l.end = FrameEnd(pt) /\ l.timing = pt /\ l.ports = lvds.ports
  <2> HIDE DEF t, pt
  <2>1. /\ h \in VduControllers /\ h.on /\ h.base = vdu.hdmi.base /\ h.end = FrameEnd(t) /\ h.timing = t
    BY <1>6, <1>12, TimingsSet
  <2>2. /\ l \in VduControllers /\ l.on /\ l.base = vdu.lvds.base /\ l.end = FrameEnd(pt) /\ l.timing = pt
        /\ l.ports = lvds.ports
    <3> DEFINE q == lvds.ports
    <3>1. q \in Lanes /\ vdu.lvds \in VduControllers /\ pt \in Timings
      BY <1>7, <1>12
    <3> HIDE DEF q
    <3> QED BY <3>1, TimingsSet DEF q
  <2> HIDE DEF h, l
  <2> QED BY <1>3, <2>1, <2>2
<1>15. Inside(h)
  <2> HIDE DEF t, h
  <2> QED BY <1>4, <1>6, <1>14, FrameFits DEF Inside
<1> HIDE DEF h, l
<1>16. VduTypes'
  BY <1>1, <1>3, <1>8, <1>9, <1>11, <1>12, <1>13, <1>14 DEF VduTypes
<1>17. vdu'.hdmi = h /\ vdu'.lvds = IF LvdsEnabled THEN l ELSE vdu.lvds
  BY <1>13
<1>18. MonitorDriven'
  <2> HIDE DEF t
  <2> QED BY <1>1, <1>3, <1>4, <1>5, <1>6, <1>8, <1>10, <1>14, <1>15, <1>17 DEF MonitorDriven, Inside
<1>19. ASSUME NEW k \in Modes, Table[k] = panel.res
       PROVE  /\ vdu'.lvds.timing = [res |-> panel.res, by |-> panel.by, osc |-> panel.osc] /\ vdu'.lvds.ports = panel.ports
              /\ Inside(vdu'.lvds) /\ vdu'.lvds.timing.res = vdu'.hdmi.timing.res
              /\ active = 1 /\ pcd = panel.res
              /\ denied' \/ pll'.lvds = vdu'.lvds.timing
  <2>1. lvds = panel /\ ActiveModes(modes) = {k} /\ pcd = panel.res /\ panel.ports # 0 /\ active = 1
    BY <1>3, <1>19
  <2>2. m = k
    BY <1>4, <2>1
  <2>3. LvdsEnabled
    BY <1>12, <2>1 DEF LvdsEnabled, Lanes
  <2>4. pt.res = Table[k]
    BY <1>7, <1>19, <2>1
  <2>5. Inside(l)
    <3> HIDE DEF pt
    <3> QED BY <1>14, <2>4, FrameFits DEF Inside
  <2> QED BY <1>6, <1>7, <1>10, <1>14, <1>17, <2>1, <2>2, <2>3, <2>4, <2>5
<1>20. PanelDriven'
  <2> HIDE DEF t, pt
  <2> QED BY <1>1, <1>19 DEF PanelDriven, Inside
<1>21. vdu'.hdmi.on
  BY <1>14, <1>17
<1> QED BY <1>1, <1>3, <1>16, <1>17, <1>14, <1>18, <1>20, <1>21 DEF VduInv, PictureAsReported, ActiveModes

\* Nothing is shown any more, or not yet.
LEMMA OffKeeps ==
  ASSUME VduInv, LcdIdentify \/ GetVram \/ ExitBootServicesEvent
  PROVE  VduInv'
<1>1. UNCHANGED <<tree, modes, panel, lvds, active, pcd, shown, hdmi, pll, denied>> /\ gop' \in {"gone", "ready"}
  BY DEF LcdIdentify, GetVram, ExitBootServicesEvent
<1>2. VduTypes /\ vdu.hdmi \in VduControllers /\ vdu.lvds \in VduControllers /\ vdu = [hdmi |-> vdu.hdmi, lvds |-> vdu.lvds]
  BY DEF VduInv, VduTypes
<1>3. VramBase \in Nat
  BY DEF VramBase
<1>4. /\ vdu' \in [hdmi : VduControllers, lvds : VduControllers] /\ ~vdu'.hdmi.on /\ ~vdu'.lvds.on
      /\ gop' = "ready" => vdu'.hdmi.base = VramBase /\ vdu'.lvds.base = VramBase
  <2>1. CASE vdu' = LcdShutdown(vdu) /\ gop' = "gone"
    BY <1>2, <2>1 DEF LcdShutdown, VduControllers
  <2>2. CASE vdu' = LcdInitialize(vdu) /\ gop = "asked"
    BY <1>2, <1>3, <2>2 DEF LcdInitialize, VduControllers, VduInv
  <2>3. CASE vdu' = vdu /\ gop = "off" /\ gop' = "gone"
    BY <1>2, <2>3 DEF VduInv
  <2> QED BY <2>1, <2>2, <2>3 DEF LcdIdentify, GetVram, ExitBootServicesEvent
<1>5. VduTypes'
  BY <1>1, <1>2, <1>4 DEF VduTypes
<1>6. PictureAsReported'
  BY <1>4 DEF PictureAsReported, MonitorDriven, PanelDriven
<1>7. gop' # "off" /\ ActiveModes(modes)' = ActiveModes(modes)
  BY <1>1 DEF ActiveModes
<1> QED BY <1>1, <1>4, <1>5, <1>6, <1>7 DEF VduInv

\* Whatever device tree, monitor and transmitter say and whichever clocks and writes are refused, what the controllers
\* show has the size that the driver was told, lies in its memory and has clock and syncs of one source, on the monitor
\* and, if its resolution is in the table, on a panel (InitializeDisplay, LcdPlatformQueryMode, LcdSetMode).
THEOREM PictureIsAsReported == VduSpec => []PictureAsReported
<1>1. VduInit => VduInv
  <2> SUFFICES ASSUME VduInit PROVE VduInv
    OBVIOUS
  <2>1. Nothing \in Resolutions /\ NoTiming \in Timings /\ NoPanel \in Panels /\ \A m \in Modes : Table[m] # NoPanel.res
    BY TableFacts DEF Nothing, Resolutions, NoTiming, NoPanel, Timings, Panels, Source, Lanes
  <2>2. Off \in VduControllers /\ ~Off.on
    BY <2>1 DEF Off, VduControllers, Lanes
  <2>3. modes \in [Modes -> DisplayModes] /\ \A m \in Modes : modes[m].res = Table[m] /\ modes[m].by = modes[m].osc /\ ~modes[m].active
    BY TableFacts DEF VduInit, DisplayModes, Source
  <2>4. ActiveModes(modes) = {}
    BY <2>3 DEF ActiveModes
  <2>5. /\ gop = "off" /\ tree \in Trees /\ active = 0 /\ pcd = Nothing /\ shown = 0 /\ denied = FALSE
        /\ panel = NoPanel /\ lvds = NoPanel
        /\ vdu = [hdmi |-> Off, lvds |-> Off] /\ pll = [hdmi |-> NoTiming, lvds |-> NoTiming]
        /\ hdmi = [res |-> Nothing, phy |-> 0, path |-> FALSE]
    BY DEF VduInit
  <2>6. hdmi \in Transmitters
    BY <2>1, <2>5 DEF Transmitters
  <2>7. VduTypes
    BY <2>1, <2>2, <2>3, <2>5, <2>6 DEF VduTypes
  <2>8. PictureAsReported
    BY <2>2, <2>5 DEF PictureAsReported, MonitorDriven, PanelDriven
  <2>9. Cardinality(ActiveModes(modes)) = 0
    BY <2>4, FS_EmptySet
  <2> QED BY <2>1, <2>2, <2>3, <2>4, <2>5, <2>7, <2>8, <2>9 DEF VduInv
<1>2. VduInv /\ [VduNext]_vduVars => VduInv'
  <2> SUFFICES ASSUME VduInv, [VduNext]_vduVars PROVE VduInv'
    OBVIOUS
  <2>1. CASE UNCHANGED vduVars
    BY <2>1 DEF vduVars, VduInv, VduTypes, ActiveModes, PictureAsReported, MonitorDriven, PanelDriven, QueryMode,
       FindActiveDisplayMode
  <2>2. ASSUME NEW n \in 0 .. 9, SetMode(n) PROVE VduInv'
    BY <2>2, SetModeKeeps
  <2> QED BY <2>1, <2>2, OffKeeps, AskedKeeps DEF VduNext
<1>3. VduInv => PictureAsReported
  BY DEF VduInv
<1> QED BY <1>1, <1>2, <1>3, PTL DEF VduSpec

----------------------------------------------------------------------------
(* The boot manager (PlatformBootManager). *)

BootOptions == [of : Devices \cup {"none", "UEFI Shell", "menu"}, active : BOOLEAN]
OptionsMade == {Menu, Shell, [Shell EXCEPT !.active = TRUE]} \cup {OptionOf(d) : d \in Devices \ Displays}
BootVariables == [opt : [Num -> BootOptions], order : Seq(Num), key : [{"s", "F2"} -> Num \cup {NoNum}],
                  policy : Policies, old : Policies, out : SUBSET Devices, err : SUBSET Devices]
\* The variables as the firmware leaves them: the boot order names each option once, each option is one of those
\* the firmware makes, and no two numbers stand for the same option.
ListOK(v) ==
  /\ v \in BootVariables
  /\ \A i, j \in DOMAIN v.order : v.order[i] = v.order[j] => i = j
  /\ \A k \in Numbers(v) : v.opt[k] \in OptionsMade
  /\ \A j, k \in Numbers(v) : v.opt[j] = v.opt[k] => j = k
Stages == {"off", "before", "options", "policy", "capsules", "shell", "key", "sort", "boot", "unable", "in shell",
           "reset", "menu", "os"}
BootTypes == /\ pc \in Stages /\ emu \in BOOLEAN /\ present \in SUBSET Devices /\ linked \in SUBSET Devices
             /\ hobs \in Nat /\ count \in Nat /\ resets \in Nat /\ ListOK(nv)
OpensShell(v, k) == k \in Numbers(v) /\ v.opt[k].of = "UEFI Shell"
Unbound == {"off", "before", "options", "policy", "capsules", "shell", "reset"}
\* A bound key S belongs to a listed shell; it is unbound only as long as no shell is listed, unless power was
\* cut between the two; and the step that binds it carries the number of the shell.
KeyInv ==
  /\ nv.key["s"] # NoNum => OpensShell(nv, nv.key["s"])
  /\ ~CutAtKey /\ nv.key["s"] = NoNum /\ pc # "key" => pc \in Unbound /\ \A k \in Numbers(nv) : ~OpensShell(nv, k)
  /\ pc = "key" => OpensShell(nv, count)
Synced(v, P) == /\ \A k \in Numbers(v) : v.opt[k].of \notin Devices \ P
                /\ \A d \in P \ Displays : Find(v, OptionOf(d)) # {}
One(b) == IF b THEN 1 ELSE 0
Pending == pc = "reset" \/ (pc = "in shell" /\ ~emu /\ Len(nv.order) # count)
Due(v) == v.policy \in {"net", "all"} /\ v.old # v.policy
\* The resets made since the last change from outside, and one for each reason there still is for another: a reset
\* on its way, a capsule, a changed policy not yet obeyed, options that do not match the devices plugged in.
ResetInv ==
  /\ hobs > 0 => pc \in {"off", "before", "options", "policy", "capsules"}
  /\ resets + One(Pending) + One(hobs > 0) + One(~emu /\ Due(nv)) + One(~emu /\ ~Synced(nv, present)) <= 3
BootInv == BootTypes /\ KeyInv /\ ResetInv

\* Two versions of the variables list the same options, under the same numbers.
SameOptions(v, w) == /\ Numbers(w) = Numbers(v) /\ w.opt = v.opt /\ w.key = v.key /\ w.policy = v.policy /\ w.old = v.old
                     /\ Len(w.order) = Len(v.order)

LEMMA SeqsOf ==
  ASSUME NEW S, IsFiniteSet(S), NEW s \in SetToSeqs(S)
  PROVE  /\ s \in Seq(S) /\ Len(s) = Cardinality(S) /\ DOMAIN s = 1 .. Cardinality(S)
         /\ \A i \in DOMAIN s : s[i] \in S
         /\ \A x \in S : \E i \in DOMAIN s : s[i] = x
         /\ \A i, j \in DOMAIN s : s[i] = s[j] => i = j
<1> DEFINE n == Cardinality(S)
<1>1. n \in Nat
  BY FS_CardinalityType
<1>2. s \in [1 .. n -> S] /\ \A i, j \in 1 .. n : i # j => s[i] # s[j]
  BY DEF SetToSeqs
<1>3. IsFiniteSet(1 .. n) /\ Cardinality(1 .. n) = n
  BY <1>1, FS_Interval
<1>4. s \in Injection(1 .. n, S)
  BY <1>2 DEF Injection, IsInjective
<1>5. s \in Surjection(1 .. n, S)
  BY <1>3, <1>4, FS_Injection
<1>6. s \in Seq(S) /\ Len(s) = n /\ DOMAIN s = 1 .. n
  BY <1>1, <1>2
<1>7. \A x \in S : \E i \in 1 .. n : s[i] = x
  BY <1>5 DEF Surjection
<1> QED BY <1>2, <1>6, <1>7

\* There is a number left for every option that may be added.
LEMMA FreeNumber ==
  ASSUME NEW v, ListOK(v)
  PROVE  /\ Numbers(v) \subseteq Num /\ IsFiniteSet(Numbers(v))
         /\ Free(v) \in Num /\ Free(v) \notin Numbers(v)
<1> DEFINE N == Numbers(v)
           f == [k \in N |-> v.opt[k]]
           O == Devices \ Displays
<1>1. N \subseteq Num
  BY DEF ListOK, BootVariables, Numbers
<1>2. IsFiniteSet(N)
  BY <1>1, BootAssumption, FS_Subset DEF BootAssumption
<1>3. IsFiniteSet(O) /\ Cardinality(O) \in Nat
  <2>1. IsFiniteSet(Devices) /\ O \in SUBSET Devices
    BY BootAssumption DEF BootAssumption
  <2> HIDE DEF O
  <2> QED BY <2>1, FS_Subset, FS_CardinalityType
<1>4. IsFiniteSet(OptionsMade) /\ Cardinality(OptionsMade) <= Cardinality(O) + 3
  <2> DEFINE A == {OptionOf(d) : d \in O}
             g == [d \in O |-> OptionOf(d)]
             B == (A \cup {Menu}) \cup {Shell}
  <2>1. g \in Surjection(O, A)
    BY DEF Surjection
  <2>2. IsFiniteSet(A) /\ Cardinality(A) <= Cardinality(O)
    <3> HIDE DEF A, g, O
    <3> QED BY <1>3, <2>1, FS_Surjection
  <2>3. Cardinality(A) \in Nat
    BY <2>2, FS_CardinalityType
  <2> HIDE DEF A
  <2>4. IsFiniteSet(A \cup {Menu}) /\ Cardinality(A \cup {Menu}) \in Nat /\ Cardinality(A \cup {Menu}) <= Cardinality(A) + 1
    <3>1. /\ IsFiniteSet(A \cup {Menu})
          /\ Cardinality(A \cup {Menu}) = IF Menu \in A THEN Cardinality(A) ELSE Cardinality(A) + 1
      BY <2>2, FS_AddElement
    <3>2. Cardinality(A \cup {Menu}) \in Nat
      BY <3>1, FS_CardinalityType
    <3> QED BY <2>3, <3>1, <3>2
  <2> DEFINE C == A \cup {Menu}
  <2>5. IsFiniteSet(B) /\ Cardinality(B) \in Nat /\ Cardinality(B) <= Cardinality(C) + 1
    <3>1. B = C \cup {Shell}
      OBVIOUS
    <3>2. IsFiniteSet(C) /\ Cardinality(C) \in Nat
      BY <2>4
    <3> HIDE DEF C, B
    <3> QED BY <3>1, <3>2, FS_AddElement, FS_CardinalityType
  <2>6. OptionsMade = B \cup {[Shell EXCEPT !.active = TRUE]}
    BY DEF OptionsMade, A, O
  <2>7. IsFiniteSet(OptionsMade) /\ Cardinality(OptionsMade) \in Nat /\ Cardinality(OptionsMade) <= Cardinality(B) + 1
    <3> DEFINE x == [Shell EXCEPT !.active = TRUE]
    <3>1. IsFiniteSet(B) /\ Cardinality(B) \in Nat /\ OptionsMade = B \cup {x}
      BY <2>5, <2>6
    <3> HIDE DEF B, x
    <3>2. IsFiniteSet(B \cup {x}) /\ Cardinality(B \cup {x}) = IF x \in B THEN Cardinality(B) ELSE Cardinality(B) + 1
      BY <3>1, FS_AddElement
    <3>3. Cardinality(B \cup {x}) \in Nat
      BY <3>2, FS_CardinalityType
    <3> QED BY <3>1, <3>2, <3>3
  <2> HIDE DEF B, O
  <2> QED BY <1>3, <2>2, <2>3, <2>4, <2>5, <2>7
<1>5. f \in Injection(N, OptionsMade)
  <2>1. f \in [N -> OptionsMade]
    BY DEF ListOK
  <2>2. \A j, k \in N : f[j] = f[k] => j = k
    BY DEF ListOK
  <2> QED BY <2>1, <2>2 DEF Injection, IsInjective
<1>6. Cardinality(N) <= Cardinality(OptionsMade)
  <2> HIDE DEF f, N
  <2> QED BY <1>4, <1>5, FS_Injection
<1>7. ~(Num \subseteq N)
  <2> SUFFICES ASSUME Num \subseteq N PROVE FALSE
    OBVIOUS
  <2>1. Num = N
    BY <1>1
  <2>2. Cardinality(Num) \in Nat /\ Cardinality(OptionsMade) \in Nat
    BY <1>4, BootAssumption, FS_CardinalityType DEF BootAssumption
  <2>3. Cardinality(Num) > Cardinality(O) + 3
    BY BootAssumption DEF BootAssumption
  <2> HIDE DEF O, N
  <2> QED BY <1>3, <1>4, <1>6, <2>1, <2>2, <2>3
<1>8. Min(Num \ N) \in Num \ N
  <2> DEFINE S == Num \ N
  <2>1. S \subseteq Nat /\ S # {}
    BY <1>7, BootAssumption DEF BootAssumption
  <2> HIDE DEF S
  <2>2. \E x \in S : \A y \in S : x <= y
    BY <2>1, NatMin
  <2>3. Min(S) \in S
    BY <2>2 DEF Min
  <2> QED BY <2>3 DEF S
<1> QED BY <1>1, <1>2, <1>8 DEF Free

LEMMA AddKeeps ==
  ASSUME NEW v, ListOK(v), NEW o \in OptionsMade, Find(v, o) = {}
  PROVE  /\ ListOK(Add(v, o)) /\ Numbers(Add(v, o)) = Numbers(v) \cup {Free(v)}
         /\ Free(v) \in Num /\ Free(v) \notin Numbers(v) /\ Add(v, o).opt[Free(v)] = o
         /\ \A k \in Numbers(v) : Add(v, o).opt[k] = v.opt[k]
         /\ Add(v, o).key = v.key /\ Add(v, o).policy = v.policy /\ Add(v, o).old = v.old
<1> DEFINE k0 == Free(v)
           w == Add(v, o)
           opt1 == [v.opt EXCEPT ![k0] = o]
           order1 == Append(v.order, k0)
<1>1. Numbers(v) \subseteq Num /\ k0 \in Num /\ k0 \notin Numbers(v)
  BY FreeNumber
<1>2. v \in BootVariables
  BY DEF ListOK
<1>3. v.opt \in [Num -> BootOptions] /\ v.order \in Seq(Num)
  BY <1>2 DEF BootVariables
<1>4. o \in BootOptions
  <2>1. Menu \in BootOptions /\ Shell \in BootOptions /\ [Shell EXCEPT !.active = TRUE] \in BootOptions
    BY DEF BootOptions, Menu, Shell
  <2>2. \A d \in Devices : OptionOf(d) \in BootOptions
    BY DEF BootOptions, OptionOf
  <2> QED BY <2>1, <2>2 DEF OptionsMade
<1>5. opt1 \in [Num -> BootOptions] /\ opt1[k0] = o /\ \A k \in Numbers(v) : opt1[k] = v.opt[k]
  <2> HIDE DEF k0
  <2> QED BY <1>1, <1>3, <1>4
<1>6. /\ order1 \in Seq(Num) /\ Len(order1) = Len(v.order) + 1 /\ DOMAIN order1 = 1 .. Len(v.order) + 1
      /\ order1[Len(v.order) + 1] = k0 /\ \A i \in 1 .. Len(v.order) : order1[i] = v.order[i]
  <2> HIDE DEF k0
  <2> QED BY <1>1, <1>3
<1>7. w = [v EXCEPT !.opt = opt1, !.order = order1]
  BY DEF Add
<1>8. w \in BootVariables /\ w.opt = opt1 /\ w.order = order1 /\ w.key = v.key /\ w.policy = v.policy /\ w.old = v.old
  <2> HIDE DEF opt1, order1, w
  <2> QED BY <1>2, <1>5, <1>6, <1>7 DEF BootVariables
<1>9. \A k \in Numbers(v) : \E i \in 1 .. Len(v.order) : v.order[i] = k
  BY <1>3 DEF Numbers
<1>10. \A i \in 1 .. Len(v.order) : v.order[i] \in Numbers(v)
  BY <1>3 DEF Numbers
<1> HIDE DEF w, opt1, order1, k0
<1>11. Numbers(w) = Numbers(v) \cup {k0}
  <2>1. Numbers(w) = {order1[i] : i \in 1 .. Len(v.order) + 1}
    BY <1>6, <1>8 DEF Numbers
  <2>2. Len(v.order) \in Nat
    BY <1>3
  <2> QED BY <1>6, <1>9, <1>10, <2>1, <2>2
<1>12. \A i, j \in DOMAIN order1 : order1[i] = order1[j] => i = j
  <2>1. \A i, j \in 1 .. Len(v.order) : v.order[i] = v.order[j] => i = j
    BY <1>3 DEF ListOK
  <2>2. Len(v.order) \in Nat
    BY <1>3
  <2>3. \A i \in DOMAIN order1 : i \in 1 .. Len(v.order) \/ i = Len(v.order) + 1
    BY <1>6, <2>2
  <2> QED BY <1>1, <1>6, <1>10, <2>1, <2>3
<1>13. \A k \in Numbers(v) : v.opt[k] # o /\ v.opt[k] \in OptionsMade
  BY DEF Find, ListOK
<1>14. \A k \in Numbers(w) : w.opt[k] \in OptionsMade
  BY <1>5, <1>8, <1>11, <1>13
<1>15. \A j, k \in Numbers(w) : w.opt[j] = w.opt[k] => j = k
  <2>1. \A j, k \in Numbers(v) : v.opt[j] = v.opt[k] => j = k
    BY DEF ListOK
  <2> QED BY <1>5, <1>8, <1>11, <1>13, <2>1
<1>16. ListOK(w)
  BY <1>8, <1>12, <1>14, <1>15 DEF ListOK
<1> QED BY <1>1, <1>5, <1>8, <1>11, <1>16 DEF w, k0

\* The list holds every option once, so it is as long as there are options.
LEMMA ListLength ==
  ASSUME NEW v, ListOK(v)
  PROVE  Len(v.order) = Cardinality(Numbers(v))
<1> DEFINE n == Len(v.order)
<1>1. v.order \in Seq(Num) /\ \A i, j \in DOMAIN v.order : v.order[i] = v.order[j] => i = j
  BY DEF ListOK, BootVariables
<1>2. n \in Nat /\ DOMAIN v.order = 1 .. n
  BY <1>1
<1>3. v.order \in Injection(1 .. n, Numbers(v))
  BY <1>1, <1>2 DEF Injection, IsInjective, Numbers
<1>4. v.order \in Surjection(1 .. n, Numbers(v))
  BY <1>1, <1>2 DEF Surjection, Numbers
<1>5. IsFiniteSet(Numbers(v))
  BY FreeNumber
<1>6. Cardinality(1 .. n) = n
  BY <1>2, FS_Interval
<1>7. Cardinality(1 .. n) = Cardinality(Numbers(v))
  <2> HIDE DEF n
  <2> QED BY <1>3, <1>4, <1>5, FS_Injection
<1> QED BY <1>6, <1>7

\* Some of the options in another order.
LEMMA Relisted ==
  ASSUME NEW v, ListOK(v), NEW S, S \subseteq Numbers(v), NEW t \in SetToSeqs(S)
  PROVE  /\ ListOK([v EXCEPT !.order = t]) /\ Numbers([v EXCEPT !.order = t]) = S
         /\ [v EXCEPT !.order = t].opt = v.opt /\ [v EXCEPT !.order = t].key = v.key
         /\ [v EXCEPT !.order = t].policy = v.policy /\ [v EXCEPT !.order = t].old = v.old
         /\ [v EXCEPT !.order = t].order = t
<1> DEFINE w == [v EXCEPT !.order = t]
<1>1. Numbers(v) \subseteq Num /\ IsFiniteSet(S)
  BY FreeNumber, FS_Subset
<1>2. /\ t \in Seq(S) /\ \A i \in DOMAIN t : t[i] \in S
      /\ \A x \in S : \E i \in DOMAIN t : t[i] = x
      /\ \A i, j \in DOMAIN t : t[i] = t[j] => i = j
  BY <1>1, SeqsOf
<1>3. t \in Seq(Num)
  <2>1. S \subseteq Num
    BY <1>1
  <2> QED BY <1>2, <2>1
<1>4. v \in BootVariables
  BY DEF ListOK
<1>5. /\ w \in BootVariables /\ w.order = t /\ w.opt = v.opt /\ w.key = v.key /\ w.policy = v.policy
      /\ w.old = v.old
  BY <1>3, <1>4 DEF BootVariables
<1> HIDE DEF w
<1>6. Numbers(w) = S
  BY <1>2, <1>5 DEF Numbers
<1>7. ListOK(w)
  <2>1. \A k \in S : w.opt[k] \in OptionsMade
    BY <1>5 DEF ListOK
  <2>2. \A j, k \in S : w.opt[j] = w.opt[k] => j = k
    BY <1>5 DEF ListOK
  <2> QED BY <1>2, <1>5, <1>6, <2>1, <2>2 DEF ListOK
<1> QED BY <1>5, <1>6, <1>7 DEF w

LEMMA SortedKeeps ==
  ASSUME NEW v, ListOK(v), NEW w \in Sorted(v)
  PROVE  ListOK(w) /\ SameOptions(v, w)
<1>1. PICK t \in SetToSeqs(Numbers(v)) : w = [v EXCEPT !.order = t]
  BY DEF Sorted
<1>2. /\ ListOK(w) /\ Numbers(w) = Numbers(v) /\ w.opt = v.opt /\ w.key = v.key /\ w.policy = v.policy
      /\ w.old = v.old
  BY <1>1, Relisted
<1>3. Len(w.order) = Len(v.order)
  BY <1>2, ListLength
<1> QED BY <1>2, <1>3 DEF SameOptions

\* New options have numbers of their own and are one for each device.
LEMMA ExtendedKeeps ==
  ASSUME NEW v, ListOK(v), NEW M, M \subseteq Devices \ Displays, \A d \in M : Find(v, OptionOf(d)) = {},
         NEW r \in Extended(v, M)
  PROVE  /\ ListOK(r) /\ Numbers(v) \subseteq Numbers(r) /\ \A k \in Numbers(v) : r.opt[k] = v.opt[k]
         /\ \A k \in Numbers(r) \ Numbers(v) : r.opt[k].of \in M
         /\ \A d \in M : Find(r, OptionOf(d)) # {}
         /\ M = {} => Numbers(r) = Numbers(v)
         /\ r.key = v.key /\ r.policy = v.policy /\ r.old = v.old
<1> DEFINE F == LowestFree(v, Cardinality(M))
           N == Numbers(v)
<1>1. N \subseteq Num /\ IsFiniteSet(N) /\ F \subseteq Num \ N /\ IsFiniteSet(F)
  <2>1. F \subseteq Num \ N
    BY DEF LowestFree
  <2>2. IsFiniteSet(Num)
    BY BootAssumption DEF BootAssumption
  <2>3. F \in SUBSET Num
    BY <2>1
  <2>4. IsFiniteSet(F)
    <3> HIDE DEF F
    <3> QED BY <2>2, <2>3, FS_Subset
  <2> QED BY <2>1, <2>4, FreeNumber
<1>2. M = {} => F = {}
  <2>1. SUFFICES ASSUME M = {}, NEW k \in F PROVE FALSE
    OBVIOUS
  <2> DEFINE B == {j \in Num \ N : j < k}
  <2>2. Cardinality(M) = 0
    BY <2>1, FS_EmptySet
  <2>3. IsFiniteSet(B)
    <3>1. IsFiniteSet(Num) /\ B \in SUBSET Num
      BY BootAssumption DEF BootAssumption
    <3> HIDE DEF B
    <3> QED BY <3>1, FS_Subset
  <2>4. Cardinality(B) \in Nat
    <3> HIDE DEF B
    <3> QED BY <2>3, FS_CardinalityType
  <2>5. Cardinality(B) < Cardinality(M)
    BY <2>1 DEF LowestFree
  <2> HIDE DEF B
  <2> QED BY <2>2, <2>4, <2>5
<1> HIDE DEF F
<1>3. PICK u \in SetToSeqs(F), own \in Bijection(F, M) :
        r = [v EXCEPT !.order = @ \o u, !.opt = [k \in Num |-> IF k \in F THEN OptionOf(own[k]) ELSE v.opt[k]]]
  <2>1. \E u \in Ascending(F), own \in Bijection(F, M) : r = Numbered(v, u, own)
    BY DEF Extended, F
  <2>2. Ascending(F) \subseteq SetToSeqs(F)
    BY DEF Ascending
  <2>3. PICK u \in SetToSeqs(F), own \in Bijection(F, M) : r = Numbered(v, u, own)
    BY <2>1, <2>2
  <2>4. DOMAIN own = F
    BY DEF Bijection, Injection
  <2> QED BY <2>3, <2>4 DEF Numbered
<1> DEFINE opt1 == [k \in Num |-> IF k \in F THEN OptionOf(own[k]) ELSE v.opt[k]]
           order1 == v.order \o u
<1>4. /\ u \in Seq(F) /\ \A i \in DOMAIN u : u[i] \in F
      /\ \A x \in F : \E i \in DOMAIN u : u[i] = x
      /\ \A i, j \in DOMAIN u : u[i] = u[j] => i = j
  BY <1>1, SeqsOf
<1>5. /\ own \in [F -> M] /\ \A j, k \in F : own[j] = own[k] => j = k
      /\ \A d \in M : \E k \in F : own[k] = d
  BY DEF Bijection, Injection, Surjection, IsInjective
<1>6. v \in BootVariables /\ v.opt \in [Num -> BootOptions] /\ v.order \in Seq(Num)
  BY DEF ListOK, BootVariables
<1>7. \A d \in M : OptionOf(d) \in BootOptions /\ OptionOf(d).of = d /\ OptionOf(d) \in OptionsMade
  <2>1. \A d \in M : OptionOf(d) \in BootOptions /\ OptionOf(d).of = d
    BY DEF BootOptions, OptionOf
  <2> QED BY <2>1 DEF OptionsMade
<1>8. opt1 \in [Num -> BootOptions]
  BY <1>5, <1>6, <1>7
<1>9. /\ \A k \in F : opt1[k] = OptionOf(own[k]) /\ own[k] \in M
      /\ \A k \in N : opt1[k] = v.opt[k]
  BY <1>1, <1>5
<1>10. /\ order1 \in Seq(Num) /\ Len(order1) = Len(v.order) + Len(u)
       /\ \A i \in 1 .. Len(v.order) : order1[i] = v.order[i]
       /\ \A i \in 1 .. Len(u) : order1[Len(v.order) + i] = u[i]
  <2>1. u \in Seq(Num)
    BY <1>1, <1>4
  <2> QED BY <1>6, <2>1
<1>11. r = [v EXCEPT !.order = order1, !.opt = opt1]
  BY <1>3
<1> HIDE DEF opt1, order1
<1>12. /\ r \in BootVariables /\ r.order = order1 /\ r.opt = opt1 /\ r.key = v.key /\ r.policy = v.policy
       /\ r.old = v.old
  BY <1>6, <1>8, <1>10, <1>11 DEF BootVariables
<1> DEFINE n == Len(v.order)
           m == Len(u)
<1>13. /\ n \in Nat /\ m \in Nat /\ DOMAIN order1 = 1 .. n + m /\ DOMAIN u = 1 .. m /\ DOMAIN v.order = 1 .. n
       /\ \A i \in 1 .. n : order1[i] = v.order[i]
       /\ \A i \in 1 .. m : order1[n + i] = u[i]
  BY <1>4, <1>6, <1>10
<1> HIDE DEF n, m
<1>14. \A i \in 1 .. n + m : (i \in 1 .. n) \/ \E j \in 1 .. m : i = n + j
  <2> SUFFICES ASSUME NEW i \in 1 .. n + m, i \notin 1 .. n PROVE \E j \in 1 .. m : i = n + j
    OBVIOUS
  <2>1. i - n \in 1 .. m /\ i = n + (i - n)
    BY <1>13
  <2> QED BY <2>1
<1>15. /\ \A i \in 1 .. n : v.order[i] \in N
       /\ \A k \in N : \E i \in 1 .. n : v.order[i] = k
       /\ \A i, j \in 1 .. n : v.order[i] = v.order[j] => i = j
  BY <1>13 DEF Numbers, ListOK
<1>22. \A i \in 1 .. m : u[i] \in F
  BY <1>4, <1>13
<1>16. Numbers(r) = N \cup F
  <2>1. Numbers(r) = {order1[i] : i \in 1 .. n + m}
    BY <1>12, <1>13 DEF Numbers
  <2>2. ASSUME NEW i \in 1 .. n + m PROVE order1[i] \in N \cup F
    <3>1. CASE i \in 1 .. n
      BY <1>13, <1>15, <3>1
    <3>2. CASE i \notin 1 .. n
      <4>1. PICK j \in 1 .. m : i = n + j
        BY <1>14, <3>2
      <4> QED BY <1>13, <1>22, <4>1
    <3> QED BY <3>1, <3>2
  <2>3. ASSUME NEW k \in N PROVE \E i \in 1 .. n + m : order1[i] = k
    <3>1. PICK i \in 1 .. n : v.order[i] = k
      BY <1>15
    <3>2. i \in 1 .. n + m
      BY <1>13
    <3> QED BY <1>13, <3>1, <3>2
  <2>4. ASSUME NEW k \in F PROVE \E i \in 1 .. n + m : order1[i] = k
    <3>1. PICK i \in 1 .. m : u[i] = k
      BY <1>4, <1>13
    <3>2. n + i \in 1 .. n + m
      BY <1>13
    <3> QED BY <1>13, <3>1, <3>2
  <2> HIDE DEF N
  <2> QED BY <2>1, <2>2, <2>3, <2>4
<1>17. \A i, j \in 1 .. n + m : order1[i] = order1[j] => i = j
  <2> SUFFICES ASSUME NEW i \in 1 .. n + m, NEW j \in 1 .. n + m, order1[i] = order1[j] PROVE i = j
    OBVIOUS
  <2>1. CASE i \in 1 .. n /\ j \in 1 .. n
    BY <1>13, <1>15, <2>1
  <2>2. CASE i \notin 1 .. n /\ j \notin 1 .. n
    <3>1. PICK a \in 1 .. m : i = n + a
      BY <1>14, <2>2
    <3>2. PICK b \in 1 .. m : j = n + b
      BY <1>14, <2>2
    <3>3. order1[i] = u[a] /\ order1[j] = u[b] /\ a \in DOMAIN u /\ b \in DOMAIN u
      BY <1>13, <3>1, <3>2
    <3> QED BY <1>4, <3>1, <3>2, <3>3
  <2>3. CASE i \in 1 .. n /\ j \notin 1 .. n
    <3>1. PICK b \in 1 .. m : j = n + b
      BY <1>14, <2>3
    <3>2. order1[i] \in N /\ order1[j] \in F
      BY <1>4, <1>13, <1>15, <2>3, <3>1
    <3> QED BY <1>1, <3>2
  <2>4. CASE i \notin 1 .. n /\ j \in 1 .. n
    <3>1. PICK b \in 1 .. m : i = n + b
      BY <1>14, <2>4
    <3>2. order1[j] \in N /\ order1[i] \in F
      BY <1>4, <1>13, <1>15, <2>4, <3>1
    <3> QED BY <1>1, <3>2
  <2> QED BY <2>1, <2>2, <2>3, <2>4
<1>18. /\ \A k \in N : v.opt[k] \in OptionsMade
       /\ \A j, k \in N : v.opt[j] = v.opt[k] => j = k
       /\ \A k \in N : \A d \in M : v.opt[k] # OptionOf(d)
  BY DEF ListOK, Find
<1> HIDE DEF N
<1>19. ListOK(r)
  <2>1. \A k \in Numbers(r) : r.opt[k] \in OptionsMade
    BY <1>7, <1>9, <1>12, <1>16, <1>18
  <2>2. \A j, k \in Numbers(r) : r.opt[j] = r.opt[k] => j = k
    <3> SUFFICES ASSUME NEW j \in N \cup F, NEW k \in N \cup F, opt1[j] = opt1[k] PROVE j = k
      BY <1>12, <1>16
    <3>1. CASE j \in N /\ k \in N
      BY <1>9, <1>18, <3>1
    <3>2. CASE j \in F /\ k \in F
      <4>1. own[j] = own[k]
        BY <1>7, <1>9, <3>2
      <4> QED BY <1>5, <3>2, <4>1
    <3>3. CASE j \in N /\ k \in F
      BY <1>9, <1>18, <3>3
    <3>4. CASE j \in F /\ k \in N
      BY <1>9, <1>18, <3>4
    <3> QED BY <3>1, <3>2, <3>3, <3>4
  <2> QED BY <1>12, <1>13, <1>17, <2>1, <2>2 DEF ListOK
<1>20. \A d \in M : Find(r, OptionOf(d)) # {}
  <2> SUFFICES ASSUME NEW d \in M PROVE \E k \in Numbers(r) : r.opt[k] = OptionOf(d)
    BY DEF Find
  <2>1. PICK k \in F : own[k] = d
    BY <1>5
  <2> QED BY <1>9, <1>12, <1>16, <2>1
<1>21. \A k \in Numbers(r) \ N : r.opt[k].of \in M
  BY <1>7, <1>9, <1>12, <1>16
<1> QED BY <1>2, <1>9, <1>12, <1>16, <1>19, <1>20, <1>21 DEF N

\* After a refresh the options the library made are those of the devices; the others are as they were.
LEMMA RefreshedKeeps ==
  ASSUME NEW v, ListOK(v), NEW D \in SUBSET Devices, NEW r \in Refreshed(v, D)
  PROVE  /\ ListOK(r) /\ Synced(r, D)
         /\ \A k : OpensShell(r, k) <=> OpensShell(v, k)
         /\ Synced(v, D) => Len(r.order) = Len(v.order)
         /\ r.key = v.key /\ r.policy = v.policy /\ r.old = v.old
<1> DEFINE S == {k \in Numbers(v) : v.opt[k].of \notin Devices \ D}
<1>1. PICK w \in Kept(v, D) : r \in Extended(w, {d \in D \ Displays : Find(w, OptionOf(d)) = {}})
  BY DEF Refreshed
<1> DEFINE M == {d \in D \ Displays : Find(w, OptionOf(d)) = {}}
<1>2. PICK t \in SetToSeqs(S) : w = [v EXCEPT !.order = t]
  BY DEF Kept
<1>3. S \subseteq Numbers(v)
  OBVIOUS
<1>4. /\ ListOK(w) /\ Numbers(w) = S /\ w.opt = v.opt /\ w.key = v.key /\ w.policy = v.policy
      /\ w.old = v.old
  <2> HIDE DEF S
  <2> QED BY <1>2, <1>3, Relisted
<1>5. M \subseteq Devices \ Displays /\ \A d \in M : Find(w, OptionOf(d)) = {}
  OBVIOUS
<1>6. r \in Extended(w, M)
  BY <1>1
<1> HIDE DEF M, S
<1>7. /\ ListOK(r) /\ Numbers(w) \subseteq Numbers(r) /\ \A k \in Numbers(w) : r.opt[k] = w.opt[k]
      /\ \A k \in Numbers(r) \ Numbers(w) : r.opt[k].of \in M
      /\ \A d \in M : Find(r, OptionOf(d)) # {}
      /\ M = {} => Numbers(r) = Numbers(w)
      /\ r.key = w.key /\ r.policy = w.policy /\ r.old = w.old
  BY <1>4, <1>5, <1>6, ExtendedKeeps
<1>8. Synced(r, D)
  <2>1. \A k \in Numbers(r) : r.opt[k].of \notin Devices \ D
    <3> SUFFICES ASSUME NEW k \in Numbers(r) PROVE r.opt[k].of \notin Devices \ D
      OBVIOUS
    <3>1. CASE k \in S
      BY <1>4, <1>7, <3>1 DEF S
    <3>2. CASE k \notin S
      <4>1. r.opt[k].of \in M
        BY <1>4, <1>7, <3>2
      <4> QED BY <4>1 DEF M
    <3> QED BY <3>1, <3>2
  <2>2. ASSUME NEW d \in D \ Displays PROVE Find(r, OptionOf(d)) # {}
    <3>1. CASE d \in M
      BY <1>7, <3>1
    <3>2. CASE d \notin M
      <4>1. PICK k \in Numbers(w) : w.opt[k] = OptionOf(d)
        BY <3>2 DEF M, Find
      <4> QED BY <1>7, <4>1 DEF Find
    <3> QED BY <3>1, <3>2
  <2> QED BY <2>1, <2>2 DEF Synced
<1>9. ASSUME NEW k PROVE OpensShell(r, k) <=> OpensShell(v, k)
  <2>1. "UEFI Shell" \notin Devices
    BY BootAssumption DEF BootAssumption
  <2>2. OpensShell(r, k) => OpensShell(v, k)
    <3> SUFFICES ASSUME k \in Numbers(r), r.opt[k].of = "UEFI Shell" PROVE k \in Numbers(v) /\ v.opt[k].of = "UEFI Shell"
      BY DEF OpensShell
    <3>1. k \in Numbers(w)
      <4> SUFFICES ASSUME k \notin Numbers(w) PROVE FALSE
        OBVIOUS
      <4>1. r.opt[k].of \in M
        BY <1>7
      <4> QED BY <1>5, <2>1, <4>1
    <3> QED BY <1>3, <1>4, <1>7, <3>1
  <2>3. OpensShell(v, k) => OpensShell(r, k)
    <3> SUFFICES ASSUME k \in Numbers(v), v.opt[k].of = "UEFI Shell" PROVE k \in Numbers(r) /\ r.opt[k].of = "UEFI Shell"
      BY DEF OpensShell
    <3>1. k \in S
      BY <2>1 DEF S
    <3> QED BY <1>4, <1>7, <3>1
  <2> QED BY <2>2, <2>3
<1>10. ASSUME Synced(v, D) PROVE Len(r.order) = Len(v.order)
  <2>1. S = Numbers(v)
    BY <1>10 DEF S, Synced
  <2>2. M = {}
    <3> SUFFICES ASSUME NEW d \in M PROVE FALSE
      OBVIOUS
    <3>1. Find(w, OptionOf(d)) = {} /\ d \in D \ Displays
      BY DEF M
    <3>2. PICK k \in Numbers(v) : v.opt[k] = OptionOf(d)
      BY <1>10, <3>1 DEF Synced, Find
    <3> QED BY <1>4, <2>1, <3>1, <3>2 DEF Find
  <2>3. Numbers(r) = Numbers(v)
    BY <1>4, <1>7, <2>1, <2>2
  <2> QED BY <1>7, <2>3, ListLength
<1> QED BY <1>4, <1>7, <1>8, <1>9, <1>10

LEMMA SameView ==
  ASSUME NEW v, NEW w, SameOptions(v, w)
  PROVE  /\ \A P : Synced(w, P) <=> Synced(v, P)
         /\ \A k : OpensShell(w, k) <=> OpensShell(v, k)
         /\ Due(w) <=> Due(v)
<1>1. /\ Numbers(w) = Numbers(v) /\ w.opt = v.opt /\ w.policy = v.policy /\ w.old = v.old
  BY DEF SameOptions
<1>2. \A o : Find(w, o) = Find(v, o)
  BY <1>1 DEF Find
<1>3. \A P : Synced(w, P) <=> Synced(v, P)
  BY <1>1, <1>2 DEF Synced
<1>4. \A k : OpensShell(w, k) <=> OpensShell(v, k)
  BY <1>1 DEF OpensShell
<1>5. Due(w) <=> Due(v)
  BY <1>1 DEF Due
<1> QED BY <1>3, <1>4, <1>5

\* An option that belongs to no device.
LEMMA AddView ==
  ASSUME NEW v, ListOK(v), NEW o \in {Menu, Shell}, Find(v, o) = {}
  PROVE  /\ \A P : Synced(v, P) => Synced(Add(v, o), P)
         /\ Due(Add(v, o)) <=> Due(v)
         /\ \A k : OpensShell(v, k) => OpensShell(Add(v, o), k)
         /\ \A k : OpensShell(Add(v, o), k) => OpensShell(v, k) \/ o = Shell
         /\ o = Shell => OpensShell(Add(v, o), Free(v))
<1> DEFINE w == Add(v, o)
<1>1. o \in OptionsMade /\ o.of \notin Devices /\ (o = Shell <=> o.of = "UEFI Shell")
  <2>1. Menu.of = "menu" /\ Shell.of = "UEFI Shell"
    BY DEF Menu, Shell
  <2>2. "menu" \notin Devices /\ "UEFI Shell" \notin Devices
    BY BootAssumption DEF BootAssumption
  <2>3. o \in OptionsMade
    BY DEF OptionsMade
  <2> QED BY <2>1, <2>2, <2>3
<1>2. /\ Numbers(w) = Numbers(v) \cup {Free(v)} /\ w.opt[Free(v)] = o
      /\ \A k \in Numbers(v) : w.opt[k] = v.opt[k]
      /\ w.policy = v.policy /\ w.old = v.old
  BY <1>1, AddKeeps
<1> HIDE DEF w
<1>3. ASSUME NEW P, Synced(v, P) PROVE Synced(w, P)
  <2>1. \A k \in Numbers(w) : w.opt[k].of \notin Devices \ P
    BY <1>1, <1>2, <1>3 DEF Synced
  <2>2. \A d \in P \ Displays : Find(w, OptionOf(d)) # {}
    BY <1>2, <1>3 DEF Synced, Find
  <2> QED BY <2>1, <2>2 DEF Synced
<1>4. Due(w) <=> Due(v)
  BY <1>2 DEF Due
<1>5. \A k : OpensShell(v, k) => OpensShell(w, k)
  BY <1>2 DEF OpensShell
<1>6. \A k : OpensShell(w, k) => OpensShell(v, k) \/ o = Shell
  BY <1>1, <1>2 DEF OpensShell
<1>7. o = Shell => OpensShell(w, Free(v))
  BY <1>1, <1>2 DEF OpensShell
<1> QED BY <1>3, <1>4, <1>5, <1>6, <1>7 DEF w

\* Nothing adds to what may still lead to a reset.
LEMMA NoMoreResets ==
  ASSUME BootInv, BootTypes', emu' = emu, resets' = resets, hobs' = hobs,
         hobs' > 0 => pc' \in {"off", "before", "options", "policy", "capsules"},
         Pending' => Pending, Due(nv') => Due(nv), Synced(nv, present) => Synced(nv', present')
  PROVE  ResetInv'
<1>1. resets + One(Pending) + One(hobs > 0) + One(~emu /\ Due(nv)) + One(~emu /\ ~Synced(nv, present)) <= 3
  BY DEF BootInv, ResetInv
<1>2. resets \in Nat /\ resets' \in Nat /\ hobs \in Nat
  BY DEF BootInv, BootTypes
<1>3. /\ One(Pending') \in Nat /\ One(Pending) \in Nat /\ One(Pending') <= One(Pending)
      /\ One(hobs' > 0) = One(hobs > 0) /\ One(hobs > 0) \in Nat
      /\ One(~emu' /\ Due(nv')) \in Nat /\ One(~emu /\ Due(nv)) \in Nat
      /\ One(~emu' /\ Due(nv')) <= One(~emu /\ Due(nv))
      /\ One(~emu' /\ ~Synced(nv', present')) \in Nat /\ One(~emu /\ ~Synced(nv, present)) \in Nat
      /\ One(~emu' /\ ~Synced(nv', present')) <= One(~emu /\ ~Synced(nv, present))
  BY DEF One
<1>4. resets' + One(Pending') + One(hobs' > 0) + One(~emu' /\ Due(nv')) + One(~emu' /\ ~Synced(nv', present')) <= 3
  BY <1>1, <1>2, <1>3
<1> QED BY <1>4 DEF ResetInv

\* A change from outside starts the count again.
LEMMA FreshStart ==
  ASSUME BootTypes', resets' = 0, hobs' > 0 => pc' \in {"off", "before", "options", "policy", "capsules"}
  PROVE  ResetInv'
<1>1. hobs' \in Nat
  BY DEF BootTypes
<1>2. Pending' => ~(hobs' > 0)
  BY DEF Pending
<1>3. /\ One(Pending') + One(hobs' > 0) <= 1 /\ One(Pending') \in Nat /\ One(hobs' > 0) \in Nat
      /\ One(~emu' /\ Due(nv')) \in 0 .. 1 /\ One(~emu' /\ ~Synced(nv', present')) \in 0 .. 1
  BY <1>2 DEF One
<1>4. resets' + One(Pending') + One(hobs' > 0) + One(~emu' /\ Due(nv')) + One(~emu' /\ ~Synced(nv', present')) <= 3
  BY <1>3
<1> QED BY <1>4 DEF ResetInv

\* The shell keeps its number and its key.
LEMMA KeyStays ==
  ASSUME BootInv, nv'.key["s"] = nv.key["s"], \A k : OpensShell(nv', k) <=> OpensShell(nv, k),
         pc # "key" \/ CutAtKey, pc' # "key", nv.key["s"] # NoNum \/ pc' \in Unbound \/ CutAtKey
  PROVE  KeyInv'
<1>1. /\ nv.key["s"] # NoNum => OpensShell(nv, nv.key["s"])
      /\ ~CutAtKey /\ nv.key["s"] = NoNum => \A k \in Numbers(nv) : ~OpensShell(nv, k)
  BY DEF BootInv, KeyInv
<1>2. nv'.key["s"] # NoNum => OpensShell(nv', nv'.key["s"])
  BY <1>1
<1>3. ~CutAtKey /\ nv'.key["s"] = NoNum => \A k \in Numbers(nv') : ~OpensShell(nv', k)
  BY <1>1 DEF OpensShell
<1> QED BY <1>2, <1>3 DEF KeyInv

LEMMA EmptyList == ListOK(Empty) /\ Empty.key["s"] = NoNum /\ \A k : ~OpensShell(Empty, k)
<1>1. Numbers(Empty) = {}
  BY DEF Numbers, Empty
<1>2. Empty \in BootVariables
  <2>1. NoOption \in BootOptions
    BY DEF NoOption, BootOptions
  <2>2. <<>> \in Seq(Num) /\ "unset" \in Policies
    BY DEF Policies
  <2> QED BY <2>1, <2>2 DEF Empty, BootVariables
<1>3. Empty.order = <<>> /\ Empty.key["s"] = NoNum
  BY DEF Empty
<1>4. \A i \in DOMAIN Empty.order : FALSE
  BY <1>3
<1>5. ListOK(Empty)
  BY <1>1, <1>2, <1>4 DEF ListOK
<1> QED BY <1>1, <1>3, <1>5 DEF OpensShell

\* Steps that leave the variables alone.
LEMMA QuietKeeps ==
  ASSUME BootInv, PowerOn \/ Boot \/ ShellLeft
  PROVE  BootInv'
<1>1. /\ nv' = nv /\ emu' = emu /\ present' = present /\ hobs' = hobs /\ resets' = resets
      /\ pc # "key" /\ pc' # "key"
  BY DEF PowerOn, Boot, ShellLeft
<1>2. BootTypes'
  <2>1. pc' \in Stages /\ linked' \in {linked, {}} /\ count' \in {count, 0}
    BY DEF PowerOn, Boot, ShellLeft, Stages
  <2>2. BootTypes
    BY DEF BootInv
  <2> QED BY <1>1, <2>1, <2>2 DEF BootTypes
<1>3. KeyInv'
  <2>1. nv.key["s"] # NoNum \/ pc' \in Unbound \/ CutAtKey
    BY DEF BootInv, KeyInv, Unbound, PowerOn, Boot, ShellLeft
  <2> QED BY <1>1, <2>1, KeyStays
<1>4. ResetInv'
  <2>1. Pending' => Pending
    BY DEF Pending, PowerOn, Boot, ShellLeft, MayReset
  <2>2. hobs' > 0 => pc' \in {"off", "before", "options", "policy", "capsules"}
    BY DEF BootInv, ResetInv, PowerOn, Boot, ShellLeft
  <2> QED BY <1>1, <1>2, <2>1, <2>2, NoMoreResets
<1> QED BY <1>2, <1>3, <1>4 DEF BootInv

LEMMA ConsoleKeeps ==
  ASSUME BootInv, BeforeConsole
  PROVE  BootInv'
<1>1. /\ pc = "before" /\ pc' = "options"
      /\ UNCHANGED <<emu, present, hobs, count, resets, changes>>
  BY DEF BeforeConsole
<1>2. PICK D \in FilterAndProcess(present) :
        /\ linked' = D
        /\ \E outFails, errFails \in SUBSET D : nv' = AddOutput(nv, D, outFails, errFails)
  BY DEF BeforeConsole
<1>3. PICK outFails \in SUBSET D, errFails \in SUBSET D : nv' = AddOutput(nv, D, outFails, errFails)
  BY <1>2
<1>4. D \subseteq Devices /\ ListOK(nv)
  BY DEF FilterAndProcess, BootInv, BootTypes
<1>5. /\ nv' \in BootVariables /\ nv'.order = nv.order /\ nv'.opt = nv.opt /\ nv'.key = nv.key
      /\ nv'.policy = nv.policy /\ nv'.old = nv.old
  <2>1. nv \in BootVariables
    BY <1>4 DEF ListOK
  <2> DEFINE o1 == nv.out \cup (D \ outFails)
             e1 == nv.err \cup (D \ (outFails \cup errFails))
  <2>2. o1 \in SUBSET Devices /\ e1 \in SUBSET Devices
    BY <1>4, <2>1 DEF BootVariables
  <2>3. nv' = [nv EXCEPT !.out = o1, !.err = e1]
    BY <1>3 DEF AddOutput
  <2> HIDE DEF o1, e1
  <2> QED BY <2>1, <2>2, <2>3 DEF BootVariables
<1>6. Numbers(nv') = Numbers(nv)
  BY <1>5 DEF Numbers
<1>7. SameOptions(nv, nv') /\ ListOK(nv')
  BY <1>4, <1>5, <1>6 DEF SameOptions, ListOK
<1>8. BootTypes'
  BY <1>1, <1>2, <1>4, <1>7 DEF BootInv, BootTypes, Stages
<1>9. /\ \A P : Synced(nv', P) <=> Synced(nv, P)
      /\ \A k : OpensShell(nv', k) <=> OpensShell(nv, k)
      /\ Due(nv') <=> Due(nv)
  BY <1>7, SameView
<1>10. KeyInv'
  BY <1>1, <1>5, <1>9, KeyStays DEF Unbound
<1>11. ResetInv'
  BY <1>1, <1>8, <1>9, NoMoreResets DEF Pending
<1> QED BY <1>8, <1>10, <1>11 DEF BootInv

LEMMA MenuKeeps ==
  ASSUME BootInv, RegisterOptionsAndKeys
  PROVE  BootInv'
<1> DEFINE v == IF Find(nv, Menu) = {} THEN Add(nv, Menu) ELSE nv
           k0 == CHOOSE k \in Find(v, Menu) : TRUE
<1>1. /\ pc = "options" /\ pc' = "policy" /\ nv' = BindKey(v, "F2", k0)
      /\ UNCHANGED <<emu, present, linked, hobs, count, resets, changes>>
  BY DEF RegisterOptionsAndKeys
<1>2. ListOK(nv)
  BY DEF BootInv, BootTypes
<1>3. Menu \in OptionsMade /\ Menu # Shell
  BY DEF OptionsMade, Menu, Shell
<1>4. /\ ListOK(v) /\ Find(v, Menu) # {} /\ v.key = nv.key
      /\ \A P : Synced(nv, P) => Synced(v, P)
      /\ \A k : OpensShell(v, k) <=> OpensShell(nv, k)
      /\ Due(v) <=> Due(nv)
  <2>1. CASE Find(nv, Menu) = {}
    <3>1. v = Add(nv, Menu)
      BY <2>1
    <3>2. /\ ListOK(v) /\ Numbers(v) = Numbers(nv) \cup {Free(nv)} /\ v.opt[Free(nv)] = Menu /\ v.key = nv.key
      BY <1>2, <1>3, <2>1, <3>1, AddKeeps
    <3>3. /\ \A P : Synced(nv, P) => Synced(v, P)
          /\ \A k : OpensShell(v, k) <=> OpensShell(nv, k)
          /\ Due(v) <=> Due(nv)
      BY <1>2, <1>3, <2>1, <3>1, AddView
    <3> HIDE DEF v
    <3>4. Find(v, Menu) # {}
      BY <3>2 DEF Find
    <3> QED BY <3>2, <3>3, <3>4
  <2>2. CASE Find(nv, Menu) # {}
    BY <1>2, <2>2
  <2> QED BY <2>1, <2>2
<1> HIDE DEF v
<1>5. k0 \in Num
  <2>1. k0 \in Find(v, Menu)
    BY <1>4
  <2>2. Numbers(v) \subseteq Num
    BY <1>4, FreeNumber
  <2> QED BY <2>1, <2>2 DEF Find
<1> HIDE DEF k0
<1>6. /\ nv' \in BootVariables /\ nv'.order = v.order /\ nv'.opt = v.opt /\ nv'.key["s"] = v.key["s"]
      /\ nv'.policy = v.policy /\ nv'.old = v.old
  <2>1. v \in BootVariables
    BY <1>4 DEF ListOK
  <2> DEFINE key1 == [v.key EXCEPT !["F2"] = k0]
  <2>2. key1 \in [{"s", "F2"} -> Num \cup {NoNum}] /\ key1["s"] = v.key["s"]
    BY <1>5, <2>1 DEF BootVariables
  <2>3. nv' = v \/ nv' = [v EXCEPT !.key = key1]
    BY <1>1 DEF BindKey
  <2> HIDE DEF key1
  <2> QED BY <2>1, <2>2, <2>3 DEF BootVariables
<1>7. Numbers(nv') = Numbers(v) /\ ListOK(nv')
  <2>1. Numbers(nv') = Numbers(v)
    BY <1>6 DEF Numbers
  <2> QED BY <1>4, <1>6, <2>1 DEF ListOK
<1>8. /\ \A P : Synced(nv, P) => Synced(nv', P)
      /\ \A k : OpensShell(nv', k) <=> OpensShell(nv, k)
      /\ Due(nv') <=> Due(nv)
  <2>1. \A o : Find(nv', o) = Find(v, o)
    BY <1>6, <1>7 DEF Find
  <2>2. \A P : Synced(v, P) => Synced(nv', P)
    BY <1>6, <1>7, <2>1 DEF Synced
  <2>3. \A k : OpensShell(nv', k) <=> OpensShell(v, k)
    BY <1>6, <1>7 DEF OpensShell
  <2>4. Due(nv') <=> Due(v)
    BY <1>6 DEF Due
  <2> QED BY <1>4, <2>2, <2>3, <2>4
<1>9. BootTypes'
  BY <1>1, <1>7 DEF BootInv, BootTypes, Stages
<1>10. KeyInv'
  BY <1>1, <1>4, <1>6, <1>8, KeyStays DEF Unbound
<1>11. ResetInv'
  BY <1>1, <1>8, <1>9, NoMoreResets DEF Pending
<1> QED BY <1>9, <1>10, <1>11 DEF BootInv

LEMMA CapsulesKeep ==
  ASSUME BootInv, HandleCapsules
  PROVE  BootInv'
<1>1. /\ pc = "capsules" /\ hobs' = 0 /\ pc' \in {"reset", "shell"} /\ (pc' = "reset" => hobs > 0)
      /\ UNCHANGED <<emu, nv, present, linked, count, resets, changes>>
  BY DEF HandleCapsules
<1>2. BootTypes'
  BY <1>1 DEF BootInv, BootTypes, Stages
<1>3. KeyInv'
  BY <1>1, KeyStays DEF Unbound
<1>4. ResetInv'
  <2>1. resets + One(Pending) + One(hobs > 0) + One(~emu /\ Due(nv)) + One(~emu /\ ~Synced(nv, present)) <= 3
    BY DEF BootInv, ResetInv
  <2>2. resets \in Nat /\ hobs \in Nat
    BY DEF BootInv, BootTypes
  <2>3. ~Pending /\ (Pending' => hobs > 0) /\ ~(hobs' > 0)
    <3>1. ~Pending
      BY <1>1 DEF Pending
    <3>2. Pending' => hobs > 0
      BY <1>1 DEF Pending
    <3> QED BY <1>1, <3>1, <3>2
  <2>4. One(Pending) = 0 /\ One(hobs' > 0) = 0 /\ One(Pending') <= One(hobs > 0)
    BY <2>3 DEF One
  <2>5. One(Pending') \in Nat /\ One(hobs > 0) \in Nat /\ One(~emu /\ Due(nv)) \in Nat /\ One(~emu /\ ~Synced(nv, present)) \in Nat
    BY DEF One
  <2>6. resets + One(Pending') + One(hobs' > 0) + One(~emu /\ Due(nv)) + One(~emu /\ ~Synced(nv, present)) <= 3
    BY <2>1, <2>2, <2>4, <2>5
  <2> QED BY <1>1, <2>6 DEF ResetInv
<1> QED BY <1>2, <1>3, <1>4 DEF BootInv

LEMMA PolicyKeeps ==
  ASSUME BootInv, PolicyHandler
  PROVE  BootInv'
<1> DEFINE asked == IF nv.policy = "unset" THEN [nv EXCEPT !.policy = "minimal"] ELSE nv
           p == asked.policy
<1>1. /\ pc = "policy" /\ pc' = "capsules"
      /\ UNCHANGED <<emu, present, hobs, count, resets, changes>>
  BY DEF PolicyHandler
<1>2. ListOK(nv) /\ nv \in BootVariables /\ present \in SUBSET Devices /\ linked \in SUBSET Devices
  BY DEF BootInv, BootTypes, ListOK
<1>3. /\ ListOK(asked) /\ asked.key = nv.key /\ asked.old = nv.old
      /\ \A P : Synced(asked, P) <=> Synced(nv, P)
      /\ \A k : OpensShell(asked, k) <=> OpensShell(nv, k)
      /\ Due(asked) <=> Due(nv)
      /\ p \in {"net", "all"} => asked = nv
  <2>1. CASE nv.policy = "unset"
    <3>1. asked = [nv EXCEPT !.policy = "minimal"]
      BY <2>1
    <3>2. /\ asked \in BootVariables /\ asked.order = nv.order /\ asked.opt = nv.opt /\ asked.key = nv.key
          /\ asked.old = nv.old /\ asked.policy = "minimal"
      <4> HIDE DEF asked
      <4> QED BY <1>2, <3>1 DEF BootVariables, Policies
    <3> HIDE DEF asked
    <3>3. Numbers(asked) = Numbers(nv) /\ \A o : Find(asked, o) = Find(nv, o)
      BY <3>2 DEF Numbers, Find
    <3>4. ListOK(asked)
      BY <1>2, <3>2, <3>3 DEF ListOK
    <3>5. \A P : Synced(asked, P) <=> Synced(nv, P)
      BY <3>2, <3>3 DEF Synced
    <3>6. \A k : OpensShell(asked, k) <=> OpensShell(nv, k)
      BY <3>2, <3>3 DEF OpensShell
    <3>7. Due(asked) <=> Due(nv)
      BY <2>1, <3>2 DEF Due
    <3> QED BY <3>2, <3>4, <3>5, <3>6, <3>7
  <2>2. CASE nv.policy # "unset"
    BY <1>2, <2>2
  <2> QED BY <2>1, <2>2
<1>4. /\ linked' \in SUBSET Devices
      /\ \/ nv' = asked
         \/ nv' = nv
         \/ /\ p \in {"net", "all"} /\ asked.old # p
            /\ \E v \in Refreshed(asked, linked') : nv' = StoreOld(v)
  <2>1. ClassOf(p) \cap present \subseteq Devices
    BY <1>2
  <2> HIDE DEF asked
  <2> QED BY <1>2, <2>1 DEF PolicyHandler, asked
<1> HIDE DEF asked
<1>5. CASE nv' = asked \/ nv' = nv
  <2>1. /\ ListOK(nv') /\ nv'.key = nv.key
        /\ \A P : Synced(nv, P) => Synced(nv', P)
        /\ \A k : OpensShell(nv', k) <=> OpensShell(nv, k)
        /\ Due(nv') => Due(nv)
    BY <1>2, <1>3, <1>5
  <2>2. BootTypes'
    BY <1>1, <1>4, <2>1 DEF BootInv, BootTypes, Stages
  <2>3. KeyInv'
    BY <1>1, <2>1, KeyStays DEF Unbound
  <2>4. ResetInv'
    BY <1>1, <2>1, <2>2, NoMoreResets DEF Pending
  <2> QED BY <2>2, <2>3, <2>4 DEF BootInv
<1>6. ASSUME p \in {"net", "all"}, asked.old # p, NEW v \in Refreshed(asked, linked'), nv' = StoreOld(v)
      PROVE  BootInv'
  <2>1. /\ ListOK(v) /\ \A k : OpensShell(v, k) <=> OpensShell(nv, k)
        /\ v.key = nv.key /\ v.policy = p
    BY <1>3, <1>4, <1>6, RefreshedKeeps
  <2>2. v \in BootVariables
    BY <2>1 DEF ListOK
  <2>3. /\ nv' \in BootVariables /\ nv'.order = v.order /\ nv'.opt = v.opt /\ nv'.key = v.key
        /\ nv'.policy = v.policy /\ nv'.old = v.policy
    BY <1>6, <2>2 DEF StoreOld, BootVariables
  <2>4. Numbers(nv') = Numbers(v)
    BY <2>3 DEF Numbers
  <2>5. ListOK(nv')
    BY <2>1, <2>3, <2>4 DEF ListOK
  <2>6. \A k : OpensShell(nv', k) <=> OpensShell(nv, k)
    BY <2>1, <2>3, <2>4 DEF OpensShell
  <2>7. BootTypes'
    BY <1>1, <1>4, <2>5 DEF BootInv, BootTypes, Stages
  <2>8. KeyInv'
    BY <1>1, <2>1, <2>3, <2>6, KeyStays DEF Unbound
  <2>9. ResetInv'
    <3>1. resets + One(Pending) + One(hobs > 0) + One(~emu /\ Due(nv)) + One(~emu /\ ~Synced(nv, present)) <= 3
      BY DEF BootInv, ResetInv
    <3>2. resets \in Nat /\ hobs \in Nat /\ (hobs' > 0 => pc' \in {"off", "before", "options", "policy", "capsules"})
      BY <1>1 DEF BootInv, BootTypes
    <3>3. ~Pending'
      BY <1>1 DEF Pending
    <3>4. ~Due(nv') /\ Due(nv)
      BY <1>3, <1>6, <2>3 DEF Due
    <3>5. /\ One(Pending') = 0 /\ One(Pending) \in Nat /\ One(hobs > 0) \in Nat /\ One(~emu /\ ~Synced(nv, present)) \in Nat
          /\ One(~emu /\ Due(nv')) = 0 /\ One(~emu /\ ~Synced(nv', present)) <= One(~emu /\ Due(nv))
          /\ One(~emu /\ ~Synced(nv', present)) \in Nat /\ One(~emu /\ Due(nv)) \in Nat
      BY <3>3, <3>4 DEF One
    <3>6. resets + One(Pending') + One(hobs > 0) + One(~emu /\ Due(nv')) + One(~emu /\ ~Synced(nv', present)) <= 3
      BY <3>1, <3>2, <3>5
    <3> QED BY <1>1, <3>2, <3>6 DEF ResetInv
  <2> QED BY <2>7, <2>8, <2>9 DEF BootInv
<1> QED BY <1>4, <1>5, <1>6

LEMMA ShellKeeps ==
  ASSUME BootInv, RegisterShell
  PROVE  BootInv'
<1>1. /\ pc = "shell" /\ pc' \in {"key", "sort"}
      /\ UNCHANGED <<emu, present, linked, hobs, resets, changes>>
  BY DEF RegisterShell
<1>2. ListOK(nv)
  BY DEF BootInv, BootTypes
<1>3. Shell \in OptionsMade
  BY DEF OptionsMade
<1>4. CASE Find(nv, Shell) = {}
  <2>1. nv' = Add(nv, Shell) /\ pc' = "key" /\ count' = Free(nv)
    BY <1>4 DEF RegisterShell
  <2>2. /\ ListOK(nv') /\ Free(nv) \in Num /\ nv'.key = nv.key
    BY <1>2, <1>3, <1>4, <2>1, AddKeeps
  <2>3. /\ \A P : Synced(nv, P) => Synced(nv', P)
        /\ Due(nv') <=> Due(nv)
        /\ \A k : OpensShell(nv, k) => OpensShell(nv', k)
        /\ OpensShell(nv', Free(nv))
    BY <1>2, <1>4, <2>1, AddView
  <2>4. count' \in Nat
    BY <2>1, <2>2, BootAssumption DEF BootAssumption
  <2>5. BootTypes'
    BY <1>1, <2>1, <2>2, <2>4 DEF BootInv, BootTypes, Stages
  <2>6. KeyInv'
    <3>1. nv'.key["s"] # NoNum => OpensShell(nv', nv'.key["s"])
      BY <2>2, <2>3 DEF BootInv, KeyInv
    <3> QED BY <2>1, <2>3, <3>1 DEF KeyInv
  <2>7. ResetInv'
    <3>1. hobs' > 0 => pc' \in {"off", "before", "options", "policy", "capsules"}
      BY <1>1 DEF BootInv, ResetInv
    <3> QED BY <1>1, <2>1, <2>3, <2>5, <3>1, NoMoreResets DEF Pending
  <2> QED BY <2>5, <2>6, <2>7 DEF BootInv
<1>5. CASE Find(nv, Shell) # {}
  <2>1. pc' = "sort" /\ nv' = nv /\ count' = count
    BY <1>5 DEF RegisterShell
  <2>2. nv.key["s"] # NoNum \/ CutAtKey
    <3>1. PICK k \in Numbers(nv) : nv.opt[k] = Shell
      BY <1>5 DEF Find
    <3>2. OpensShell(nv, k)
      <4>1. Shell.of = "UEFI Shell"
        BY DEF Shell
      <4> QED BY <3>1, <4>1, Zenon DEF OpensShell
    <3> QED BY <1>1, <3>1, <3>2 DEF BootInv, KeyInv
  <2>3. BootTypes'
    BY <1>1, <2>1 DEF BootInv, BootTypes, Stages
  <2>4. KeyInv'
    BY <1>1, <2>1, <2>2, KeyStays
  <2>5. ResetInv'
    <3>1. hobs' > 0 => pc' \in {"off", "before", "options", "policy", "capsules"}
      BY <1>1 DEF BootInv, ResetInv
    <3> QED BY <1>1, <2>1, <2>3, <3>1, NoMoreResets DEF Pending
  <2> QED BY <2>3, <2>4, <2>5 DEF BootInv
<1> QED BY <1>4, <1>5

LEMMA ShellKeyKeeps ==
  ASSUME BootInv, RegisterShellKey
  PROVE  BootInv'
<1>1. /\ pc = "key" /\ pc' = "sort" /\ nv' = BindKey(nv, "s", count)
      /\ UNCHANGED <<emu, present, linked, hobs, count, resets, changes>>
  BY DEF RegisterShellKey, ShellKey
<1>2. ListOK(nv) /\ nv \in BootVariables /\ OpensShell(nv, count)
  BY <1>1 DEF BootInv, BootTypes, ListOK, KeyInv
<1>3. count \in Num /\ count # NoNum
  <2>1. count \in Num
    BY <1>2, FreeNumber DEF OpensShell
  <2> QED BY <2>1, BootAssumption DEF BootAssumption
<1>4. /\ nv' \in BootVariables /\ nv'.order = nv.order /\ nv'.opt = nv.opt
      /\ nv'.policy = nv.policy /\ nv'.old = nv.old
      /\ nv'.key["s"] = IF nv.key["s"] = NoNum THEN count ELSE nv.key["s"]
  <2> DEFINE key1 == [nv.key EXCEPT !["s"] = count]
  <2>1. key1 \in [{"s", "F2"} -> Num \cup {NoNum}] /\ key1["s"] = count
    BY <1>2, <1>3 DEF BootVariables
  <2>2. nv' = IF nv.key["s"] = NoNum THEN [nv EXCEPT !.key = key1] ELSE nv
    BY <1>1 DEF BindKey
  <2> HIDE DEF key1
  <2> QED BY <1>2, <2>1, <2>2 DEF BootVariables
<1>5. Numbers(nv') = Numbers(nv) /\ \A o : Find(nv', o) = Find(nv, o)
  BY <1>4 DEF Numbers, Find
<1>6. ListOK(nv')
  BY <1>2, <1>4, <1>5 DEF ListOK
<1>7. \A k : OpensShell(nv', k) <=> OpensShell(nv, k)
  BY <1>4, <1>5 DEF OpensShell
<1>8. (\A P : Synced(nv', P) <=> Synced(nv, P)) /\ (Due(nv') <=> Due(nv))
  BY <1>4, <1>5 DEF Synced, Due
<1>9. BootTypes'
  BY <1>1, <1>6 DEF BootInv, BootTypes, Stages
<1>10. KeyInv'
  <2>1. nv'.key["s"] # NoNum /\ OpensShell(nv', nv'.key["s"])
    BY <1>2, <1>3, <1>4, <1>7 DEF BootInv, KeyInv
  <2> QED BY <1>1, <2>1 DEF KeyInv
<1>11. ResetInv'
  <2>1. hobs' > 0 => pc' \in {"off", "before", "options", "policy", "capsules"}
    BY <1>1 DEF BootInv, ResetInv
  <2> QED BY <1>1, <1>8, <1>9, <2>1, NoMoreResets DEF Pending
<1> QED BY <1>9, <1>10, <1>11 DEF BootInv

LEMMA SortKeeps ==
  ASSUME BootInv, SortOptions
  PROVE  BootInv'
<1>1. /\ pc = "sort" /\ pc' = "boot" /\ nv' \in Sorted(nv)
      /\ UNCHANGED <<emu, present, linked, hobs, count, resets, changes>>
  BY DEF SortOptions
<1>2. ListOK(nv') /\ SameOptions(nv, nv')
  BY <1>1, SortedKeeps DEF BootInv, BootTypes
<1>3. /\ \A P : Synced(nv', P) <=> Synced(nv, P)
      /\ \A k : OpensShell(nv', k) <=> OpensShell(nv, k)
      /\ Due(nv') <=> Due(nv)
  BY <1>2, SameView
<1>4. BootTypes'
  BY <1>1, <1>2 DEF BootInv, BootTypes, Stages
<1>5. KeyInv'
  <2>1. nv.key["s"] # NoNum \/ CutAtKey
    BY <1>1 DEF BootInv, KeyInv, Unbound
  <2>2. nv'.key = nv.key
    BY <1>2 DEF SameOptions
  <2> QED BY <1>1, <1>3, <2>1, <2>2, KeyStays
<1>6. ResetInv'
  <2>1. hobs' > 0 => pc' \in {"off", "before", "options", "policy", "capsules"}
    BY <1>1 DEF BootInv, ResetInv
  <2> QED BY <1>1, <1>3, <1>4, <2>1, NoMoreResets DEF Pending
<1> QED BY <1>4, <1>5, <1>6 DEF BootInv

LEMMA UnableKeeps ==
  ASSUME BootInv, UnableToBoot
  PROVE  BootInv'
<1>1. /\ pc = "unable" /\ pc' = "in shell" /\ count' = Len(nv.order) /\ linked' = present
      /\ UNCHANGED <<emu, present, hobs, resets, changes>>
  BY DEF UnableToBoot
<1>2. PICK v \in Refreshed(nv, present) : nv' \in Sorted(v)
  BY DEF UnableToBoot
<1>3. ListOK(nv) /\ present \in SUBSET Devices
  BY DEF BootInv, BootTypes
<1>4. /\ ListOK(v) /\ Synced(v, present) /\ \A k : OpensShell(v, k) <=> OpensShell(nv, k)
      /\ Synced(nv, present) => Len(v.order) = Len(nv.order)
      /\ v.key = nv.key /\ v.policy = nv.policy /\ v.old = nv.old
  BY <1>2, <1>3, RefreshedKeeps
<1>5. ListOK(nv') /\ SameOptions(v, nv')
  BY <1>2, <1>4, SortedKeeps
<1>6. /\ Synced(nv', present) /\ \A k : OpensShell(nv', k) <=> OpensShell(nv, k)
      /\ Due(nv') <=> Due(nv)
      /\ Synced(nv, present) => Len(nv'.order) = Len(nv.order)
      /\ nv'.key = nv.key
  <2>1. Due(v) <=> Due(nv)
    BY <1>4 DEF Due
  <2>2. Len(nv'.order) = Len(v.order) /\ nv'.key = v.key
    BY <1>5 DEF SameOptions
  <2> QED BY <1>4, <1>5, <2>1, <2>2, SameView
<1>7. BootTypes'
  <2>1. count' \in Nat
    <3>1. nv \in BootVariables
      BY <1>3 DEF ListOK
    <3>2. nv.order \in Seq(Num)
      BY <3>1 DEF BootVariables
    <3>3. Len(nv.order) \in Nat
      BY <3>2
    <3> QED BY <1>1, <3>3
  <2> QED BY <1>1, <1>3, <1>5, <2>1 DEF BootInv, BootTypes, Stages
<1>8. KeyInv'
  <2>1. nv.key["s"] # NoNum \/ CutAtKey
    BY <1>1 DEF BootInv, KeyInv, Unbound
  <2> QED BY <1>1, <1>6, <2>1, KeyStays
<1>9. ResetInv'
  <2>1. resets + One(Pending) + One(hobs > 0) + One(~emu /\ Due(nv)) + One(~emu /\ ~Synced(nv, present)) <= 3
    BY DEF BootInv, ResetInv
  <2>2. resets \in Nat /\ hobs \in Nat /\ ~(hobs > 0)
    BY <1>1 DEF BootInv, BootTypes, ResetInv
  <2>3. ~Pending /\ (Pending' => ~emu /\ ~Synced(nv, present))
    <3>1. ~Pending
      BY <1>1 DEF Pending
    <3>2. Pending' => ~emu /\ Len(nv'.order) # Len(nv.order)
      BY <1>1 DEF Pending
    <3> QED BY <1>6, <3>1, <3>2
  <2>4. /\ One(Pending) = 0 /\ One(Pending') \in Nat /\ One(Pending') <= One(~emu /\ ~Synced(nv, present))
        /\ One(~emu /\ ~Synced(nv', present)) = 0 /\ One(~emu /\ Due(nv')) = One(~emu /\ Due(nv))
        /\ One(hobs > 0) = 0 /\ One(~emu /\ Due(nv)) \in Nat /\ One(~emu /\ ~Synced(nv, present)) \in Nat
    BY <1>6, <2>2, <2>3 DEF One
  <2>5. resets + One(Pending') + One(hobs > 0) + One(~emu /\ Due(nv')) + One(~emu /\ ~Synced(nv', present)) <= 3
    BY <2>1, <2>2, <2>4
  <2> QED BY <1>1, <2>2, <2>5 DEF ResetInv
<1> QED BY <1>7, <1>8, <1>9 DEF BootInv

LEMMA ResetKeeps ==
  ASSUME BootInv, ResetSystem
  PROVE  BootInv'
<1>1. /\ pc = "reset" /\ pc' = "off" /\ resets' = resets + 1 /\ nv' = (IF emu THEN Empty ELSE nv)
      /\ UNCHANGED <<emu, present, linked, hobs, count, changes>>
  BY DEF ResetSystem
<1>2. BootTypes'
  BY <1>1, EmptyList DEF BootInv, BootTypes, Stages
<1>3. KeyInv'
  <2>1. CASE emu
    BY <1>1, <2>1, EmptyList DEF KeyInv, Unbound
  <2>2. CASE ~emu
    BY <1>1, <2>2, KeyStays DEF Unbound
  <2> QED BY <2>1, <2>2
<1>4. ResetInv'
  <2>1. resets + One(Pending) + One(hobs > 0) + One(~emu /\ Due(nv)) + One(~emu /\ ~Synced(nv, present)) <= 3
    BY DEF BootInv, ResetInv
  <2>2. resets \in Nat /\ hobs \in Nat /\ ~(hobs > 0)
    BY <1>1 DEF BootInv, BootTypes, ResetInv
  <2>3. Pending /\ ~Pending'
    <3>1. Pending
      BY <1>1 DEF Pending
    <3>2. ~Pending'
      BY <1>1 DEF Pending
    <3> QED BY <3>1, <3>2
  <2>4. /\ One(Pending) = 1 /\ One(Pending') = 0 /\ One(hobs > 0) = 0
        /\ One(~emu /\ ~Synced(nv', present)) = One(~emu /\ ~Synced(nv, present))
        /\ One(~emu /\ Due(nv')) = One(~emu /\ Due(nv))
        /\ One(~emu /\ Due(nv)) \in Nat /\ One(~emu /\ ~Synced(nv, present)) \in Nat
    BY <1>1, <2>2, <2>3 DEF One
  <2>5. resets + 1 + One(Pending') + One(hobs > 0) + One(~emu /\ Due(nv')) + One(~emu /\ ~Synced(nv', present)) <= 3
    BY <2>1, <2>2, <2>4
  <2> QED BY <1>1, <2>2, <2>5 DEF ResetInv
<1> QED BY <1>2, <1>3, <1>4 DEF BootInv

LEMMA OutsideKeeps ==
  ASSUME BootInv, Plug \/ PowerCut \/ UserReset
  PROVE  BootInv'
<1> DEFINE Goal == /\ resets' = 0 /\ UNCHANGED <<emu, linked, count>> /\ pc' = "off" /\ (pc # "key" \/ CutAtKey)
                   /\ nv' \in {Empty, nv} /\ present' \in SUBSET Devices /\ hobs' \in Nat
<1>1. Goal
  <2>1. present \in SUBSET Devices /\ hobs \in Nat
    BY DEF BootInv, BootTypes
  <2>2. ASSUME Plug PROVE Goal
    BY <2>1, <2>2 DEF Plug, Change
  <2>3. ASSUME PowerCut PROVE Goal
    BY <2>1, <2>3 DEF PowerCut, Change
  <2>4. ASSUME UserReset PROVE Goal
    <3>1. hobs' \in Nat
      <4>1. hobs' \in 0 .. MaxHobs \/ hobs' = 0
        BY <2>4 DEF UserReset
      <4> QED BY <4>1
    <3> QED BY <2>1, <2>4, <3>1 DEF UserReset, Change
  <2> QED BY <2>2, <2>3, <2>4
<1>2. BootTypes'
  BY <1>1, EmptyList DEF BootInv, BootTypes, Stages
<1>3. KeyInv'
  <2>1. CASE nv' = Empty
    BY <1>1, <2>1, EmptyList DEF KeyInv, Unbound
  <2>2. CASE nv' = nv
    BY <1>1, <2>2, KeyStays DEF Unbound
  <2> QED BY <1>1, <2>1, <2>2
<1>4. ResetInv'
  BY <1>1, <1>2, FreshStart
<1> QED BY <1>2, <1>3, <1>4 DEF BootInv

LEMMA UserKeeps ==
  ASSUME BootInv, UserChange
  PROVE  BootInv'
<1>1. /\ resets' = 0 /\ UNCHANGED <<emu, linked, count, present, hobs>>
      /\ pc \in {"menu", "os", "in shell"} /\ pc' \in {pc, "off"}
  BY DEF UserChange, Change
<1>2. ListOK(nv) /\ nv \in BootVariables
  BY DEF BootInv, BootTypes, ListOK
<1> DEFINE Goal == ListOK(nv') /\ nv'.key = nv.key /\ \A k : OpensShell(nv', k) <=> OpensShell(nv, k)
<1>3. Goal
  <2>1. ASSUME NEW q \in Policies, nv' = [nv EXCEPT !.policy = q]
        PROVE  Goal
    <3>1. /\ nv' \in BootVariables /\ nv'.order = nv.order /\ nv'.opt = nv.opt /\ nv'.key = nv.key
      BY <1>2, <2>1 DEF BootVariables
    <3>2. Numbers(nv') = Numbers(nv)
      BY <3>1 DEF Numbers
    <3> QED BY <1>2, <3>1, <3>2 DEF ListOK, OpensShell
  <2>2. ASSUME NEW i \in DOMAIN nv.order, NEW j \in DOMAIN nv.order,
               nv' = [nv EXCEPT !.order = [@ EXCEPT ![i] = nv.order[j], ![j] = nv.order[i]]]
        PROVE  Goal
    <3> DEFINE o1 == [nv.order EXCEPT ![i] = nv.order[j], ![j] = nv.order[i]]
    <3>1. nv.order \in Seq(Num) /\ \A a, b \in DOMAIN nv.order : nv.order[a] = nv.order[b] => a = b
      BY <1>2 DEF ListOK, BootVariables
    <3>2. /\ o1 \in Seq(Num) /\ DOMAIN o1 = DOMAIN nv.order /\ o1[i] = nv.order[j] /\ o1[j] = nv.order[i]
          /\ \A a \in DOMAIN nv.order \ {i, j} : o1[a] = nv.order[a]
      BY <2>2, <3>1
    <3>3. nv' = [nv EXCEPT !.order = o1]
      BY <2>2
    <3> HIDE DEF o1
    <3>4. /\ nv' \in BootVariables /\ nv'.order = o1 /\ nv'.opt = nv.opt /\ nv'.key = nv.key
      BY <1>2, <3>2, <3>3 DEF BootVariables
    <3>5. Numbers(nv') = Numbers(nv)
      <4>1. ASSUME NEW a \in DOMAIN nv.order PROVE o1[a] \in Numbers(nv)
        BY <3>2 DEF Numbers
      <4>2. ASSUME NEW a \in DOMAIN nv.order PROVE \E b \in DOMAIN nv.order : o1[b] = nv.order[a]
        BY <3>2
      <4>3. Numbers(nv') = {o1[a] : a \in DOMAIN nv.order}
        BY <3>2, <3>4 DEF Numbers
      <4>4. \A x \in Numbers(nv) : \E b \in DOMAIN nv.order : o1[b] = x
        BY <4>2 DEF Numbers
      <4> QED BY <4>1, <4>3, <4>4
    <3>6. \A a, b \in DOMAIN o1 : o1[a] = o1[b] => a = b
      BY <3>1, <3>2
    <3> QED BY <1>2, <3>4, <3>5, <3>6 DEF ListOK, OpensShell
  <2>3. ASSUME NEW k \in Find(nv, Shell), Find(nv, [Shell EXCEPT !.active = TRUE]) = {},
               nv' = [nv EXCEPT !.opt[k].active = TRUE]
        PROVE  Goal
    <3> DEFINE s1 == [Shell EXCEPT !.active = TRUE]
               o1 == [nv.opt EXCEPT ![k] = s1]
    <3>1. k \in Numbers(nv) /\ nv.opt[k] = Shell /\ Numbers(nv) \subseteq Num /\ nv.opt \in [Num -> BootOptions]
      BY <1>2, FreeNumber DEF Find, BootVariables
    <3>2. s1 \in BootOptions /\ s1 \in OptionsMade /\ s1.of = "UEFI Shell" /\ Shell.of = "UEFI Shell"
      BY DEF BootOptions, OptionsMade, Shell
    <3>3. nv' = [nv EXCEPT !.opt = o1]
      BY <2>3, <3>1
    <3>4. \A j \in Numbers(nv) : nv.opt[j] # s1
      BY <2>3 DEF Find
    <3> HIDE DEF s1
    <3>5. o1 \in [Num -> BootOptions] /\ o1[k] = s1 /\ \A j \in Num \ {k} : o1[j] = nv.opt[j]
      BY <3>1, <3>2
    <3> HIDE DEF o1
    <3>6. /\ nv' \in BootVariables /\ nv'.order = nv.order /\ nv'.opt = o1 /\ nv'.key = nv.key
      BY <1>2, <3>3, <3>5 DEF BootVariables
    <3>7. Numbers(nv') = Numbers(nv)
      BY <3>6 DEF Numbers
    <3>8. \A j \in Numbers(nv) : o1[j] \in OptionsMade
      BY <1>2, <3>1, <3>2, <3>5 DEF ListOK
    <3>9. \A a, b \in Numbers(nv) : o1[a] = o1[b] => a = b
      BY <1>2, <3>1, <3>4, <3>5 DEF ListOK
    <3>10. ListOK(nv')
      BY <1>2, <3>6, <3>7, <3>8, <3>9 DEF ListOK
    <3>11. \A j : OpensShell(nv', j) <=> OpensShell(nv, j)
      BY <3>1, <3>2, <3>5, <3>6, <3>7 DEF OpensShell
    <3> QED BY <3>6, <3>10, <3>11
  <2> QED BY <2>1, <2>2, <2>3 DEF UserChange
<1>4. BootTypes'
  BY <1>1, <1>3 DEF BootInv, BootTypes, Stages
<1>5. KeyInv'
  <2>1. nv.key["s"] # NoNum \/ CutAtKey
    BY <1>1 DEF BootInv, KeyInv, Unbound
  <2> QED BY <1>1, <1>3, <2>1, KeyStays
<1>6. ResetInv'
  <2>1. hobs' > 0 => pc' \in {"off", "before", "options", "policy", "capsules"}
    BY <1>1 DEF BootInv, ResetInv
  <2> QED BY <1>1, <1>4, <2>1, FreshStart
<1> QED BY <1>4, <1>5, <1>6 DEF BootInv

----------------------------------------------------------------------------
\* The boot manager's invariant holds throughout, over boots, resets, power cuts and changes by the user.
LEMMA BootInvariant == BootSpec => []BootInv
<1>1. BootInit => BootInv
  <2> SUFFICES ASSUME BootInit PROVE BootInv
    OBVIOUS
  <2>1. BootTypes
    BY EmptyList DEF BootInit, BootTypes, Stages
  <2>2. KeyInv
    BY EmptyList DEF BootInit, KeyInv, Unbound
  <2>3. ResetInv
    <3>1. One(Pending) \in 0 .. 0 /\ One(hobs > 0) \in 0 .. 0
      BY DEF BootInit, One, Pending
    <3>2. One(~emu /\ Due(nv)) \in 0 .. 1 /\ One(~emu /\ ~Synced(nv, present)) \in 0 .. 1
      BY DEF One
    <3>3. resets = 0 /\ ~(hobs > 0)
      BY DEF BootInit
    <3> QED BY <3>1, <3>2, <3>3 DEF ResetInv
  <2> QED BY <2>1, <2>2, <2>3 DEF BootInv
<1>2. BootInv /\ [BootNext]_bootVars => BootInv'
  <2> SUFFICES ASSUME BootInv, [BootNext]_bootVars PROVE BootInv'
    OBVIOUS
  <2>1. CASE UNCHANGED bootVars
    <3>1. BootTypes'
      BY <2>1 DEF BootInv, BootTypes, bootVars
    <3>2. KeyInv'
      BY <2>1 DEF BootInv, KeyInv, bootVars
    <3>3. ResetInv'
      BY <2>1, <3>1, NoMoreResets DEF BootInv, ResetInv, bootVars, Pending
    <3> QED BY <3>1, <3>2, <3>3 DEF BootInv
  <2>2. CASE PowerOn \/ Boot \/ ShellLeft
    BY <2>2, QuietKeeps
  <2>3. CASE Plug \/ PowerCut \/ UserReset
    BY <2>3, OutsideKeeps
  <2> QED BY <2>1, <2>2, <2>3, ConsoleKeeps, MenuKeeps, PolicyKeeps, CapsulesKeep, ShellKeeps, ShellKeyKeeps,
             SortKeeps, UnableKeeps, ResetKeeps, UserKeeps DEF BootNext
<1> QED BY <1>1, <1>2, PTL DEF BootSpec

\* Whenever the firmware offers or tries to boot, the key S is bound to a listed shell (RegisterShell and its hot
\* key in PlatformBootManagerAfterConsole), provided power is not cut between the option and the key.
THEOREM HotKeyOpensTheShell == ASSUME ~CutAtKey PROVE BootSpec => []HotKeyOpensShell
<1>1. BootInv => HotKeyOpensShell
  <2> SUFFICES ASSUME BootInv, pc \in {"boot", "unable", "in shell", "menu", "os"}
               PROVE  nv.key["s"] \in Numbers(nv) /\ nv.opt[nv.key["s"]].of = "UEFI Shell"
    BY DEF HotKeyOpensShell
  <2>1. nv.key["s"] # NoNum
    BY DEF BootInv, KeyInv, Unbound
  <2> QED BY <2>1 DEF BootInv, KeyInv, OpensShell
<1>2. BootSpec => []BootInv
  BY BootInvariant
<1> QED BY <1>1, <1>2, PTL

\* The firmware resets itself at most three times between two changes from outside, whatever devices, options and
\* policies there are: a reset in UnableToBoot, for the policy or for a capsule takes away its own reason.
THEOREM RebootsComeToAnEnd == BootSpec => []RebootsEnd
<1>1. BootInv => RebootsEnd
  <2> SUFFICES ASSUME BootInv PROVE resets <= 3
    BY DEF RebootsEnd
  <2>1. resets + One(Pending) + One(hobs > 0) + One(~emu /\ Due(nv)) + One(~emu /\ ~Synced(nv, present)) <= 3
    BY DEF BootInv, ResetInv
  <2>2. /\ One(Pending) \in Nat /\ One(hobs > 0) \in Nat
        /\ One(~emu /\ Due(nv)) \in Nat /\ One(~emu /\ ~Synced(nv, present)) \in Nat /\ resets \in Nat
    BY DEF One, BootInv, BootTypes
  <2> QED BY <2>1, <2>2
<1>2. BootSpec => []BootInv
  BY BootInvariant
<1> QED BY <1>1, <1>2, PTL

----------------------------------------------------------------------------
(* PlatformSetup: the power policy the user chose is the one the board has, over boots in which any request *)
(* to the surrounding firmware may fail.  fdt is the device tree.                                           *)

CONSTANTS Space, Boards, Lvds, Hda, MayFail, MaxBoots
VARIABLES board, stage, boots, fdt, run, waiting, snp, setup, saved, hooked, given, heeded, before, failed
Setup == INSTANCE PlatformSetup WITH nv <- setup, t <- fdt

SetupSpec == Setup!SetupInit /\ [][Setup!SetupNext]_Setup!setupVars

\* ConfigDxe has run in this boot.
Configured == "config" \notin waiting /\ run.drv # "config"
SetupTypes ==
  /\ stage \in {"off", "fdt", "drivers", "console"} /\ hooked \in BOOLEAN /\ failed \in BOOLEAN
  /\ run = [drv |-> run.drv, node |-> run.node, idx |-> run.idx]
  /\ "policy" \in DOMAIN board
  /\ DOMAIN setup = Setup!Settings \cup {"SimpleAudioCard"} /\ setup["PowerPolicy"] \in {Setup!Off, Setup!Auto, Setup!Unset}
\* Once ConfigDxe has run, the policy saved is the board's until the hook runs, which was asked for or failed;
\* then the board has the policy of the user.  Until then no choice made before this boot is lost.
PolicyInv ==
  /\ stage # "drivers" => run = Setup!Idle
  /\ stage = "console" => waiting = {}
  /\ Configured => /\ hooked \/ failed
                   /\ setup["PowerPolicy"] # Setup!Unset
                   /\ stage # "console" => saved = Setup!SavedPolicy(board.policy)
  /\ stage # "console" => before["PowerPolicy"] \in {Setup!Unset, setup["PowerPolicy"]}
  /\ Setup!PolicyFollowsChoice
SetupInv == SetupTypes /\ PolicyInv

\* A step of another driver, which leaves board, settings and the saved policy alone.
LEMMA PolicyUntouched ==
  ASSUME SetupInv, UNCHANGED <<board, setup, saved, hooked, Setup!hist>>, stage # "console", stage' \in {"off", "fdt", "drivers"},
         run' = [drv |-> run'.drv, node |-> run'.node, idx |-> run'.idx], stage' # "drivers" => run' = Setup!Idle,
         failed' \in BOOLEAN, failed => failed', Configured' => Configured
  PROVE  SetupInv'
BY DEF SetupInv, SetupTypes, PolicyInv, Setup!PolicyFollowsChoice, Setup!SavedPolicy, Setup!hist

\* The invariant, step by step: only ConfigDxe saves a policy, only its hook obeys it, only the user chooses another.
LEMMA SetupInvariant ==
  ASSUME \A b \in Boards : "policy" \in DOMAIN b
  PROVE  SetupSpec => []SetupInv
<1>1. Setup!SetupInit => SetupInv
  BY DEF Setup!SetupInit, SetupInv, SetupTypes, PolicyInv, Configured, Setup!Idle, Setup!Drivers, Setup!Settings,
     Setup!Off, Setup!Auto, Setup!Unset, Setup!PolicyFollowsChoice
<1>2. SetupInv /\ [Setup!SetupNext]_Setup!setupVars => SetupInv'
  <2> SUFFICES ASSUME SetupInv, [Setup!SetupNext]_Setup!setupVars PROVE SetupInv'
    OBVIOUS
  <2>0. /\ stage \in {"off", "fdt", "drivers", "console"} /\ hooked \in BOOLEAN /\ failed \in BOOLEAN
        /\ run = [drv |-> run.drv, node |-> run.node, idx |-> run.idx]
    BY DEF SetupInv, SetupTypes
  <2>1. CASE UNCHANGED Setup!setupVars
    BY <2>1 DEF Setup!setupVars, Setup!hist, SetupInv, SetupTypes, PolicyInv, Configured, Setup!PolicyFollowsChoice, Setup!SetUp
  <2>2. CASE Setup!StartFdt
    <3>1. /\ stage = "off" /\ stage' = "fdt" /\ UNCHANGED <<board, run, waiting, setup, saved, hooked, Setup!hist, failed>>
      BY <2>2 DEF Setup!StartFdt
    <3> QED BY <2>0, <3>1, PolicyUntouched DEF Configured, SetupInv, PolicyInv
  <2>3. CASE Setup!StartFru
    <3>1. /\ stage = "fdt" /\ stage' = "drivers" /\ UNCHANGED <<board, run, waiting, setup, saved, hooked, Setup!hist, failed>>
      BY <2>3 DEF Setup!StartFru
    <3> QED BY <2>0, <3>1, PolicyUntouched DEF Configured
  <2>4. ASSUME NEW d \in Setup!Drivers, Setup!Start(d) PROVE SetupInv'
    <3>1. /\ stage = "drivers" /\ run = Setup!Idle /\ waiting' = waiting \ {d} /\ run' = [drv |-> d, node |-> 0, idx |-> 0]
          /\ UNCHANGED <<board, stage, setup, saved, hooked, Setup!hist, failed>>
      BY <2>4 DEF Setup!Start, Setup!Idle
    <3>2. Configured' => Configured
      BY <3>1 DEF Configured, Setup!Idle, Setup!None
    <3> QED BY <2>0, <3>1, <3>2, PolicyUntouched
  <2>5. ASSUME stage = "drivers", UNCHANGED <<board, stage, waiting, setup, saved, hooked, Setup!hist>>, run.drv # "config",
               failed' \in BOOLEAN, failed => failed',
               Setup!Return \/ \E o : Setup!Continue(o) \/ Setup!Found(o)
        PROVE  SetupInv'
    <3>1. /\ run' = [drv |-> run'.drv, node |-> run'.node, idx |-> run'.idx]
      BY <2>0, <2>5 DEF Setup!Return, Setup!Continue, Setup!Found, Setup!Idle
    <3> QED BY <2>0, <2>5, <3>1, PolicyUntouched DEF Configured
  <2>6. CASE Setup!XGmacPort
    <3>1. /\ run.drv = "xgmac" /\ UNCHANGED <<board, stage, waiting, setup, saved, hooked, Setup!hist, failed>>
          /\ Setup!Return \/ \E o : Setup!Continue(o) \/ Setup!Found(o)
      BY <2>6 DEF Setup!XGmacPort
    <3>2. stage = "drivers"
      BY <3>1 DEF SetupInv, PolicyInv, Setup!Idle, Setup!None
    <3> QED BY <2>0, <2>5, <3>1, <3>2
  <2>7. CASE Setup!GmacPort
    <3>1. /\ run.drv = "gmac" /\ UNCHANGED <<board, stage, waiting, setup, saved, hooked, Setup!hist>>
          /\ failed' = failed \/ failed' = TRUE
          /\ Setup!Return \/ \E o : Setup!Continue(o) \/ Setup!Found(o)
      BY <2>7 DEF Setup!GmacPort
    <3>2. stage = "drivers"
      BY <3>1 DEF SetupInv, PolicyInv, Setup!Idle, Setup!None
    <3>3. CASE failed' = failed
      BY <2>0, <2>5, <3>1, <3>2, <3>3
    <3>4. CASE failed' = TRUE
      BY <2>5, <3>1, <3>2, <3>4
    <3> QED BY <3>1, <3>3, <3>4
  <2>8. CASE Setup!ConfigDxeInitialize
    <3>1. /\ run.drv = "config" /\ run' = Setup!Idle /\ setup' = Setup!SetupVariables(board.policy)
          /\ saved' = Setup!SavedPolicy(board.policy) /\ hooked' \in BOOLEAN /\ failed' = (failed \/ ~hooked')
          /\ UNCHANGED <<board, stage, waiting, before>>
      BY <2>8 DEF Setup!ConfigDxeInitialize, Setup!Return, Setup!hist
    <3>2. stage = "drivers"
      BY <3>1 DEF SetupInv, PolicyInv, Setup!Idle, Setup!None
    <3>3. /\ DOMAIN setup' = DOMAIN setup /\ "PowerPolicy" \in DOMAIN setup
          /\ setup'["PowerPolicy"] = IF setup["PowerPolicy"] # Setup!Unset THEN setup["PowerPolicy"] ELSE Setup!SavedPolicy(board.policy)
      BY <3>1 DEF Setup!SetupVariables, SetupInv, SetupTypes, Setup!Settings
    <3>4. setup'["PowerPolicy"] \in {Setup!Off, Setup!Auto} /\ setup'["PowerPolicy"] # Setup!Unset
      BY <3>3 DEF SetupInv, SetupTypes, Setup!SavedPolicy, Setup!Off, Setup!Auto, Setup!Unset
    <3>5. SetupTypes'
      BY <2>0, <3>1, <3>2, <3>3, <3>4 DEF SetupInv, SetupTypes, Setup!Idle
    <3>6. before'["PowerPolicy"] \in {Setup!Unset, setup'["PowerPolicy"]}
      BY <3>1, <3>2, <3>3 DEF SetupInv, PolicyInv
    <3>7. hooked' \/ failed'
      BY <2>0, <3>1
    <3> QED BY <3>1, <3>2, <3>4, <3>5, <3>6, <3>7 DEF SetupInv, PolicyInv, Setup!PolicyFollowsChoice
  <2>9. CASE Setup!UpdateConfigsHook
    <3>1. /\ stage = "drivers" /\ waiting = {} /\ run = Setup!Idle /\ stage' = "console" /\ heeded' = setup
          /\ UNCHANGED <<run, waiting, setup, saved, hooked, before>>
          /\ IF hooked /\ setup["PowerPolicy"] # saved
             THEN \/ /\ board' = [board EXCEPT !.policy = IF setup["PowerPolicy"] = Setup!Auto THEN Setup!On ELSE Setup!Off]
                     /\ UNCHANGED failed
                  \/ failed' = TRUE /\ UNCHANGED board
             ELSE UNCHANGED <<board, failed>>
      BY <2>9 DEF Setup!UpdateConfigsHook
    <3>2. /\ Configured /\ Configured'
      BY <3>1 DEF Configured, Setup!Idle, Setup!None
    <3>3. hooked \/ failed
      BY <3>2 DEF SetupInv, PolicyInv
    <3>4. saved = Setup!SavedPolicy(board.policy) /\ setup["PowerPolicy"] \in {Setup!Off, Setup!Auto} /\ "policy" \in DOMAIN board
      BY <3>1, <3>2 DEF SetupInv, PolicyInv, SetupTypes
    <3>5. ~failed' => (board'.policy = Setup!On <=> setup["PowerPolicy"] = Setup!Auto)
      <4>1. CASE hooked /\ setup["PowerPolicy"] # saved
        BY <3>1, <3>4, <4>1 DEF Setup!On, Setup!Off, Setup!Auto
      <4>2. CASE ~(hooked /\ setup["PowerPolicy"] # saved)
        BY <3>1, <3>3, <3>4, <4>2 DEF Setup!SavedPolicy, Setup!On, Setup!Off, Setup!Auto
      <4> QED BY <4>1, <4>2
    <3>6. "policy" \in DOMAIN board' /\ failed' \in BOOLEAN /\ (failed => failed')
      BY <2>0, <3>1, <3>4
    <3>7. SetupTypes'
      BY <3>1, <3>6 DEF SetupInv, SetupTypes
    <3>8. Setup!SetUp'["PowerPolicy"] = setup["PowerPolicy"]
      BY <3>1 DEF SetupInv, PolicyInv, Setup!SetUp, Setup!Settings
    <3> QED BY <3>1, <3>2, <3>3, <3>4, <3>5, <3>6, <3>7, <3>8
            DEF SetupInv, PolicyInv, Setup!PolicyFollowsChoice, Setup!Off, Setup!Auto, Setup!Unset
  <2>10. ASSUME Setup!Reset, UNCHANGED board, DOMAIN setup' = DOMAIN setup,
                setup'["PowerPolicy"] \in {Setup!Off, Setup!Auto, Setup!Unset}
         PROVE  SetupInv'
    <3>1. /\ stage' = "off" /\ run' = Setup!Idle /\ waiting' = Setup!Drivers /\ hooked' = FALSE /\ failed' = FALSE
          /\ before' = setup'
      BY <2>10 DEF Setup!Reset
    <3>2. ~Configured'
      BY <3>1 DEF Configured, Setup!Drivers
    <3> QED BY <2>10, <3>1, <3>2 DEF SetupInv, SetupTypes, PolicyInv, Setup!Idle, Setup!PolicyFollowsChoice
  <2>11. CASE Setup!Reboot
    <3>1. Setup!Reset /\ UNCHANGED <<board, setup>>
      BY <2>11 DEF Setup!Reboot
    <3> QED BY <2>10, <3>1 DEF SetupInv, SetupTypes
  <2>12. ASSUME NEW v \in Setup!Settings, Setup!Choose(v) PROVE SetupInv'
    <3>1. /\ stage = "console" /\ UNCHANGED board
          /\ setup' = IF setup[v] = Setup!Unset THEN setup ELSE [setup EXCEPT ![v] = 1 - @]
      BY <2>12 DEF Setup!Choose
    <3>2. /\ DOMAIN setup' = DOMAIN setup /\ setup'["PowerPolicy"] \in {Setup!Off, Setup!Auto, Setup!Unset}
          /\ setup["PowerPolicy"] # Setup!Unset => setup'["PowerPolicy"] # Setup!Unset
      BY <3>1 DEF SetupInv, SetupTypes, Setup!Settings, Setup!Off, Setup!Auto, Setup!Unset
    <3>3. CASE Setup!Reset
      BY <2>10, <3>1, <3>2, <3>3
    <3>4. CASE UNCHANGED <<stage, run, waiting, saved, hooked, Setup!hist, failed>>
      <4>1. SetupTypes'
        BY <2>0, <3>1, <3>2, <3>4 DEF SetupInv, SetupTypes
      <4>2. Configured' <=> Configured
        BY <3>4 DEF Configured
      <4>3. Setup!PolicyFollowsChoice'
        BY <3>1, <3>4 DEF SetupInv, PolicyInv, Setup!PolicyFollowsChoice, Setup!SetUp, Setup!hist
      <4> QED BY <3>1, <3>2, <3>4, <4>1, <4>2, <4>3 DEF SetupInv, PolicyInv
    <3> QED BY <2>12, <3>3, <3>4 DEF Setup!Choose
  <2> QED BY <2>1, <2>2, <2>3, <2>4, <2>6, <2>7, <2>8, <2>9, <2>11, <2>12 DEF Setup!SetupNext
<1> QED BY <1>1, <1>2, PTL DEF SetupSpec

\* PlatformSetup (ConfigDxe.c:385-433, UpdateConfigsHook): when the console has been reached and no request failed,
\* the board switches on by itself after power returns if and only if the user had chosen so when this boot began (or
\* had chosen nothing yet), on any board with a FRU policy.  A choice made since then counts from the next boot on.
THEOREM PolicyFollows ==
  ASSUME \A b \in Boards : "policy" \in DOMAIN b
  PROVE  SetupSpec => []Setup!PolicyFollowsChoice
<1>1. SetupInv => Setup!PolicyFollowsChoice
  BY DEF SetupInv, PolicyInv
<1> QED BY <1>1, SetupInvariant, PTL

----------------------------------------------------------------------------
(* The descriptor rings of GmacDxe beside the DMA engine (GmacSnp), for every size of the rings, every set of *)
(* frames, buffers and addresses.  The first part is about any ring of N slots: it serves the receive ring,    *)
(* the transmit ring and the buffers to give back.                                                             *)

\* The k-th slot from h on, and the distance of slot i from h.
SlotAt(N, h, k) == IF h + k < N THEN h + k ELSE h + k - N
Dist(N, h, i) == IF h <= i THEN i - h ELSE i + N - h

LEMMA SlotFacts ==
  ASSUME NEW N \in Nat \ {0}, NEW h \in 0 .. N - 1, NEW k \in 0 .. N - 1
  PROVE  /\ SlotAt(N, h, k) \in 0 .. N - 1 /\ Dist(N, h, SlotAt(N, h, k)) = k
         /\ (h + k) % N = SlotAt(N, h, k)
         /\ (h + 1) % N = IF h = N - 1 THEN 0 ELSE h + 1
<1>1. (h + k) % N = IF h + k < N THEN h + k ELSE h + k - N
  OBVIOUS
<1>2. (h + 1) % N = IF h = N - 1 THEN 0 ELSE h + 1
  OBVIOUS
<1> QED BY <1>1, <1>2 DEF SlotAt, Dist

\* The same with the slots counted from 1, as a sequence counts its elements.
LEMMA SlotBefore ==
  ASSUME NEW N \in Nat \ {0}, NEW h \in 0 .. N - 1, NEW k \in 1 .. N
  PROVE  (h + k - 1) % N \in 0 .. N - 1 /\ Dist(N, h, (h + k - 1) % N) + 1 = k
<1>1. (h + k - 1) % N = IF h + k - 1 < N THEN h + k - 1 ELSE h + k - 1 - N
  OBVIOUS
<1> QED BY <1>1 DEF Dist

LEMMA Turn ==
  ASSUME NEW N \in Nat \ {0}, NEW n \in 0 .. N - 1
  PROVE  (N + n) % N = n /\ n % N = n
  OBVIOUS

LEMMA DistFacts ==
  ASSUME NEW N \in Nat \ {0}, NEW h \in 0 .. N - 1, NEW i \in 0 .. N - 1
  PROVE  /\ Dist(N, h, i) \in 0 .. N - 1 /\ SlotAt(N, h, Dist(N, h, i)) = i
         /\ Dist(N, h, i) = 0 <=> i = h
         /\ (h + 1) % N \in 0 .. N - 1
         /\ Dist(N, (h + 1) % N, i) = IF i = h THEN N - 1 ELSE Dist(N, h, i) - 1
<1>1. (h + 1) % N = IF h = N - 1 THEN 0 ELSE h + 1
  BY SlotFacts
<1> QED BY <1>1 DEF SlotAt, Dist

\* The slot behind n others, as the ring turns at either end.
LEMMA SlotMoves ==
  ASSUME NEW N \in Nat \ {0}, NEW h \in 0 .. N - 1, NEW n \in 0 .. N
  PROVE  /\ SlotAt(N, h, n) \in 0 .. N - 1 /\ SlotAt(N, h, 0) = h
         /\ n < N => SlotAt(N, h, n + 1) = (SlotAt(N, h, n) + 1) % N
         /\ n > 0 => SlotAt(N, (h + 1) % N, n - 1) = SlotAt(N, h, n)
         /\ SlotAt(N, h, n) = h <=> n \in {0, N}
<1>1. SlotAt(N, h, n) \in 0 .. N - 1
  BY DEF SlotAt
<1>2. (h + 1) % N = IF h = N - 1 THEN 0 ELSE h + 1
  BY SlotFacts
<1>3. (SlotAt(N, h, n) + 1) % N = IF SlotAt(N, h, n) = N - 1 THEN 0 ELSE SlotAt(N, h, n) + 1
  BY <1>1, SlotFacts
<1> QED BY <1>1, <1>2, <1>3 DEF SlotAt

----------------------------------------------------------------------------
\* The slots from h up to t, in the array b, hold the sequence s.
Holds(N, h, t, b, s) ==
  /\ Len(s) <= N /\ t = SlotAt(N, h, Len(s))
  /\ \A i \in 0 .. N - 1 : Dist(N, h, i) < Len(s) => b[i] = s[Dist(N, h, i) + 1]

\* The set held is that of the first n slots from h on.
Owns(N, h, held, n) ==
  held \subseteq 0 .. N - 1 /\ \A i \in 0 .. N - 1 : i \in held <=> Dist(N, h, i) < n

\* An element is added behind the others.
LEMMA RingPush ==
  ASSUME NEW N \in Nat \ {0}, NEW h \in 0 .. N - 1, NEW t, NEW b, NEW c, NEW held,
         NEW S, NEW s \in Seq(S), NEW x \in S, Len(s) < N,
         Holds(N, h, t, b, s), Owns(N, h, held, Len(s)),
         c[t] = x, \A i \in (0 .. N - 1) \ {t} : c[i] = b[i]
  PROVE  /\ Holds(N, h, (t + 1) % N, c, Append(s, x))
         /\ Owns(N, h, held \cup {t}, Len(Append(s, x)))
<1> DEFINE n == Len(s)
           u == Append(s, x)
<1>1. n \in 0 .. N - 1 /\ Len(u) = n + 1 /\ n \in Nat
      /\ u[n + 1] = x /\ \A k \in 1 .. n : u[k] = s[k]
  OBVIOUS
<1>2. t = SlotAt(N, h, n) /\ t \in 0 .. N - 1 /\ Dist(N, h, t) = n
      /\ (t + 1) % N = SlotAt(N, h, n + 1)
  <2> HIDE DEF n
  <2> QED BY <1>1, SlotFacts, SlotMoves DEF Holds, n
<1>3. ASSUME NEW i \in 0 .. N - 1
      PROVE  /\ Dist(N, h, i) \in 0 .. N - 1 /\ (Dist(N, h, i) = n <=> i = t)
             /\ Dist(N, h, i) < n => b[i] = s[Dist(N, h, i) + 1]
             /\ i \in held <=> Dist(N, h, i) < n
  <2>1. Dist(N, h, i) < n => b[i] = s[Dist(N, h, i) + 1]
    BY DEF Holds
  <2>2. i \in held <=> Dist(N, h, i) < n
    BY DEF Owns
  <2> HIDE DEF n
  <2>3. Dist(N, h, i) \in 0 .. N - 1 /\ (Dist(N, h, i) = n <=> i = t)
    <3>1. n \in 0 .. N - 1 /\ t = SlotAt(N, h, n)
      BY <1>1, <1>2
    <3> QED BY <3>1, SMTT(60) DEF Dist, SlotAt
  <2> QED BY <2>1, <2>2, <2>3
<1> HIDE DEF n, u
<1>4. ASSUME NEW i \in 0 .. N - 1
      PROVE  /\ Dist(N, h, i) < n + 1 => c[i] = u[Dist(N, h, i) + 1]
             /\ i \in held \cup {t} <=> Dist(N, h, i) < n + 1
  <2>1. PICK d \in 0 .. N - 1 : d = Dist(N, h, i)
    BY <1>3
  <2>2. (d = n <=> i = t) /\ (d < n => b[i] = s[d + 1]) /\ (i \in held <=> d < n)
    BY <1>3, <2>1
  <2>3. d < n => d + 1 \in 1 .. n
    BY <1>1
  <2>4. d < n + 1 => c[i] = u[d + 1]
    <3>1. CASE d = n
      BY <1>1, <2>2, <3>1
    <3>2. CASE d < n
      <4>1. i # t /\ c[i] = b[i] /\ u[d + 1] = s[d + 1]
        BY <1>1, <2>2, <2>3, <3>2
      <4> QED BY <2>2, <3>2, <4>1
    <3> QED BY <1>1, <3>1, <3>2
  <2>5. i \in held \cup {t} <=> d < n + 1
    BY <1>1, <2>2
  <2> QED BY <2>1, <2>4, <2>5
<1>5. Len(u) <= N /\ SlotAt(N, h, Len(u)) = (t + 1) % N
  BY <1>1, <1>2
<1>6. held \cup {t} \subseteq 0 .. N - 1
  BY <1>2 DEF Owns
<1>7. Holds(N, h, (t + 1) % N, c, u) /\ Owns(N, h, held \cup {t}, Len(u))
  BY <1>1, <1>4, <1>5, <1>6 DEF Holds, Owns
<1> QED BY <1>7 DEF u

\* The first element is taken out.
LEMMA RingPop ==
  ASSUME NEW N \in Nat \ {0}, NEW h \in 0 .. N - 1, NEW t, NEW b, NEW held,
         NEW S, NEW s \in Seq(S), s # <<>>,
         Holds(N, h, t, b, s), Owns(N, h, held, Len(s))
  PROVE  /\ Holds(N, (h + 1) % N, t, b, Tail(s))
         /\ Owns(N, (h + 1) % N, held \ {h}, Len(Tail(s)))
<1> DEFINE n == Len(s)
           g == (h + 1) % N
           u == Tail(s)
<1>1. n \in 1 .. N /\ Len(u) = n - 1 /\ Head(s) = s[1]
      /\ \A k \in 1 .. n - 1 : u[k] = s[k + 1]
  BY DEF Holds
<1>2. t = SlotAt(N, g, n - 1)
  <2> HIDE DEF n
  <2> QED BY <1>1, SlotMoves DEF Holds, n
<1>3. ASSUME NEW i \in 0 .. N - 1
      PROVE  /\ Dist(N, h, i) \in 0 .. N - 1 /\ (Dist(N, h, i) = 0 <=> i = h)
             /\ Dist(N, g, i) = IF i = h THEN N - 1 ELSE Dist(N, h, i) - 1
             /\ Dist(N, h, i) < n => b[i] = s[Dist(N, h, i) + 1]
             /\ i \in held <=> Dist(N, h, i) < n
  <2>1. Dist(N, h, i) < n => b[i] = s[Dist(N, h, i) + 1]
    BY DEF Holds
  <2>2. i \in held <=> Dist(N, h, i) < n
    BY DEF Owns
  <2> QED BY <2>1, <2>2, DistFacts
<1> HIDE DEF n, g, u
<1>5. ASSUME NEW i \in 0 .. N - 1
      PROVE  /\ Dist(N, g, i) < n - 1 => b[i] = u[Dist(N, g, i) + 1]
             /\ i \in held \ {h} <=> Dist(N, g, i) < n - 1
  <2>1. PICK d \in 0 .. N - 1 : d = Dist(N, h, i)
    BY <1>3
  <2>2. (d = 0 <=> i = h) /\ (d < n => b[i] = s[d + 1]) /\ (i \in held <=> d < n)
    BY <1>3, <2>1
  <2>3. PICK e \in 0 .. N - 1 : e = IF i = h THEN N - 1 ELSE d - 1
    BY <2>2
  <2>4. e = Dist(N, g, i)
    BY <1>3, <2>1, <2>3
  <2>5. e < n - 1 => b[i] = u[e + 1]
    <3>1. CASE e < n - 1
      <4>1. i # h /\ e + 1 = d /\ d < n /\ e + 1 \in 1 .. n - 1
        BY <1>1, <2>2, <2>3, <3>1
      <4>2. u[d] = s[d + 1]
        BY <1>1, <4>1
      <4> QED BY <2>2, <4>1, <4>2
    <3> QED BY <3>1
  <2>6. i \in held \ {h} <=> e < n - 1
    BY <1>1, <2>2, <2>3
  <2> QED BY <2>4, <2>5, <2>6
<1>6. Len(u) <= N /\ t = SlotAt(N, g, Len(u))
  BY <1>1, <1>2
<1>7. held \ {h} \subseteq 0 .. N - 1
  BY DEF Owns
<1>8. Holds(N, g, t, b, u) /\ Owns(N, g, held \ {h}, Len(u))
  BY <1>1, <1>5, <1>6, <1>7 DEF Holds, Owns
<1> QED BY <1>8 DEF g, u

\* The element of the first slot.
LEMMA RingHead ==
  ASSUME NEW N \in Nat \ {0}, NEW h \in 0 .. N - 1, NEW t, NEW b, NEW S, NEW s \in Seq(S), s # <<>>,
         Holds(N, h, t, b, s)
  PROVE  b[h] = Head(s)
<1>1. Dist(N, h, h) = 0 /\ Head(s) = s[1] /\ Len(s) > 0
  BY DEF Dist
<1> QED BY <1>1 DEF Holds

\* An empty ring.
LEMMA RingEmpty ==
  ASSUME NEW N \in Nat \ {0}, NEW h \in 0 .. N - 1, NEW b
  PROVE  Holds(N, h, h, b, <<>>) /\ Owns(N, h, {}, 0)
  BY SlotMoves, DistFacts DEF Holds, Owns, Dist, SlotAt

\* The ring read slot by slot is the sequence it holds.
LEMMA RingList ==
  ASSUME NEW N \in Nat \ {0}, NEW h \in 0 .. N - 1, NEW t, NEW b, NEW S, NEW s \in Seq(S),
         Holds(N, h, t, b, s)
  PROVE  [k \in 1 .. Len(s) |-> b[(h + k - 1) % N]] = s
<1>1. Len(s) \in 0 .. N /\ s = [k \in 1 .. Len(s) |-> s[k]]
  BY DEF Holds
<1>2. ASSUME NEW k \in 1 .. Len(s)
      PROVE  b[(h + k - 1) % N] = s[k]
  <2>1. (h + k - 1) % N \in 0 .. N - 1 /\ Dist(N, h, (h + k - 1) % N) + 1 = k
    BY <1>1, SlotBefore
  <2> DEFINE i == (h + k - 1) % N
  <2> HIDE DEF i
  <2>2. PICK d \in 0 .. N - 1 : d = Dist(N, h, i)
    BY <2>1, DistFacts DEF i
  <2>3. d + 1 = k /\ d < Len(s)
    BY <1>1, <2>1, <2>2 DEF i
  <2>4. b[i] = s[k]
    BY <2>1, <2>2, <2>3 DEF Holds, i
  <2> QED BY <2>4 DEF i
<1> QED BY <1>1, <1>2

\* As many slots are held as the sequence has elements.
LEMMA RingCount ==
  ASSUME NEW N \in Nat \ {0}, NEW h \in 0 .. N - 1, NEW n \in 0 .. N, NEW held,
         Owns(N, h, held, n)
  PROVE  Cardinality(held) = n
<1> DEFINE f == [k \in 1 .. n |-> SlotAt(N, h, k - 1)]
<1>1. ASSUME NEW k \in 1 .. n
      PROVE  f[k] \in held /\ Dist(N, h, f[k]) = k - 1
  <2>1. k - 1 \in 0 .. N - 1 /\ k - 1 < n
    OBVIOUS
  <2> QED BY <2>1, SlotFacts DEF Owns
<1>2. ASSUME NEW i \in held
      PROVE  \E k \in 1 .. n : f[k] = i
  <2>1. i \in 0 .. N - 1 /\ Dist(N, h, i) < n
    BY DEF Owns
  <2>2. Dist(N, h, i) \in 0 .. N - 1 /\ SlotAt(N, h, Dist(N, h, i)) = i
    BY <2>1, DistFacts
  <2>3. Dist(N, h, i) + 1 \in 1 .. n /\ Dist(N, h, i) + 1 - 1 = Dist(N, h, i)
    BY <2>1, <2>2
  <2>4. f[Dist(N, h, i) + 1] = i
    BY <2>2, <2>3
  <2> QED BY <2>3, <2>4
<1>3. f \in Bijection(1 .. n, held)
  <2>1. f \in [1 .. n -> held]
    BY <1>1
  <2>2. \A k, m \in 1 .. n : f[k] = f[m] => k = m
    BY <1>1
  <2> HIDE DEF f
  <2> QED BY <1>2, <2>1, <2>2, Fun_IsBij
<1> QED BY <1>3, FS_CountingElements DEF ExistsBijection
\* The first slot is held unless the ring is empty.
LEMMA RingFirst ==
  ASSUME NEW N \in Nat \ {0}, NEW h \in 0 .. N - 1, NEW held,
         NEW S, NEW s \in Seq(S), Owns(N, h, held, Len(s))
  PROVE  h \in held <=> s # <<>>
<1>1. h \in held <=> Dist(N, h, h) < Len(s)
  BY DEF Owns
<1>2. Dist(N, h, h) = 0
  BY DEF Dist
<1> QED BY <1>1, <1>2

\* The slot behind the last one is held only if the ring is full.
LEMMA RingEnds ==
  ASSUME NEW N \in Nat \ {0}, NEW h \in 0 .. N - 1, NEW t, NEW b, NEW held,
         NEW S, NEW s \in Seq(S), Holds(N, h, t, b, s), Owns(N, h, held, Len(s))
  PROVE  t \in 0 .. N - 1 /\ (t \in held <=> Len(s) = N) /\ (t = h <=> Len(s) \in {0, N})
<1> DEFINE n == Len(s)
<1>1. n \in 0 .. N
  BY DEF Holds
<1>2. t = SlotAt(N, h, n) /\ \A i \in 0 .. N - 1 : i \in held <=> Dist(N, h, i) < n
  BY DEF Holds, Owns
<1> HIDE DEF n
<1>3. t \in 0 .. N - 1 /\ (Dist(N, h, t) < n <=> n = N) /\ (t = h <=> n \in {0, N})
  BY <1>1, <1>2 DEF SlotAt, Dist
<1> QED BY <1>1, <1>2, <1>3 DEF n

----------------------------------------------------------------------------
(***************************************************************************)
(* The invariant.                                                          *)
(***************************************************************************)
Ops == {Idle, [pc |-> "poll"]} \cup [pc : {"clear"}, status : BOOLEAN]
       \cup [pc : {"rx", "resume"}, done : BOOLEAN]

NetTypes ==
  /\ GmacTypeOK
  /\ op \in Ops
  /\ arrived \in Seq(Frame) /\ accepted \in Seq(Buf) /\ out \in Seq(Buf)
  /\ unreported \in BOOLEAN

\* A call with several steps runs on an initialized interface, whose engine is
\* on; an engine that is off has not suspended.
NetStates ==
  /\ op.pc # "idle" => state = "Initialized"
  /\ state = "Initialized" => dma.on
  /\ ~dma.on => ~dma.rxSusp /\ ~dma.txSusp
  /\ state \in {"Stopped", "Started"} => out = <<>>

RxHeld == {i \in RxSlot : ~rx[i].own}
TxHeld == {i \in TxSlot : tx[i]}
RxFrames == [i \in RxSlot |-> rx[i].frame]

\* The driver's descriptors are those from rxRead up to the engine's.
RxRing ==
  dma.on => /\ Holds(RxNum, rxRead, dma.rx, RxFrames, arrived)
            /\ Owns(RxNum, rxRead, RxHeld, Len(arrived))

\* The engine's descriptors are those from its own up to txWrite.
TxRing ==
  dma.on => /\ Holds(TxNum, dma.tx, txWrite, txBufPtrs, accepted)
            /\ Owns(TxNum, dma.tx, TxHeld, Len(accepted))

\* An arrival is still to be seen, or has been read and not yet been cleared.
ArrivalsPending ==
  dma.on /\ unreported => intr \/ (op.pc = "clear" /\ op.status)

\* The buffers out are those from txRelease up to txWrite.
OutRing ==
  /\ Len(out) <= MaxOut
  /\ state = "Initialized" => Holds(TxNum, txRelease, txWrite, txBufPtrs, out)

NetInv ==
  /\ NetTypes /\ NetStates /\ RxRing /\ TxRing
  /\ EngineGoesOn /\ ArrivalsPending

----------------------------------------------------------------------------
(***************************************************************************)
(* What the actions do to the engine's record, field by field.             *)
(***************************************************************************)
LEMMA DmaFields ==
  ASSUME GmacTypeOK, NEW v
  PROVE  /\ [dma EXCEPT !.rx = v] = [on |-> dma.on, rx |-> v, tx |-> dma.tx, rxSusp |-> dma.rxSusp, txSusp |-> dma.txSusp]
         /\ [dma EXCEPT !.tx = v] = [on |-> dma.on, rx |-> dma.rx, tx |-> v, rxSusp |-> dma.rxSusp, txSusp |-> dma.txSusp]
         /\ [dma EXCEPT !.rxSusp = v] = [on |-> dma.on, rx |-> dma.rx, tx |-> dma.tx, rxSusp |-> v, txSusp |-> dma.txSusp]
         /\ [dma EXCEPT !.txSusp = v] = [on |-> dma.on, rx |-> dma.rx, tx |-> dma.tx, rxSusp |-> dma.rxSusp, txSusp |-> v]
  BY DEF GmacTypeOK

\* The engine behind a reset, and started again.
LEMMA DmaStopped ==
  /\ StoppedDma = [on |-> FALSE, rx |-> 0, tx |-> 0, rxSusp |-> FALSE, txSusp |-> FALSE]
  /\ [StoppedDma EXCEPT !.on = TRUE] = [on |-> TRUE, rx |-> 0, tx |-> 0, rxSusp |-> FALSE, txSusp |-> FALSE]
<1>1. ASSUME NEW d \in [on : BOOLEAN, rx : {0}, tx : {0}, rxSusp : BOOLEAN, txSusp : BOOLEAN], NEW v
      PROVE  [d EXCEPT !.on = v]
               = [on |-> v, rx |-> d.rx, tx |-> d.tx, rxSusp |-> d.rxSusp, txSusp |-> d.txSusp]
  OBVIOUS
<1>2. StoppedDma \in [on : BOOLEAN, rx : {0}, tx : {0}, rxSusp : BOOLEAN, txSusp : BOOLEAN]
      /\ StoppedDma.rx = 0 /\ StoppedDma.tx = 0 /\ StoppedDma.rxSusp = FALSE /\ StoppedDma.txSusp = FALSE
  BY DEF StoppedDma
<1> QED BY <1>1, <1>2 DEF StoppedDma

LEMMA NextSlot ==
  /\ 0 \in RxSlot /\ \A i \in RxSlot : RxNext(i) \in RxSlot
  /\ 0 \in TxSlot /\ \A i \in TxSlot : TxNext(i) \in TxSlot
  BY GmacAssumption DEF RxSlot, TxSlot, RxNext, TxNext

LEMMA RxRingStep ==
  ASSUME NetTypes, RxRing, [Next]_vars
  PROVE  RxRing'
<1> USE GmacAssumption DEF NetTypes
<1>1. ASSUME NEW frame \in Frame, DmaReceive(frame)
      PROVE  RxRing'
  <2> DEFINE t == dma.rx
             held == RxHeld
             b == RxFrames
  <2>1. /\ RxNum \in Nat \ {0} /\ rxRead \in 0 .. RxNum - 1 /\ rx[t].own /\ t \in RxSlot
        /\ Holds(RxNum, rxRead, t, b, arrived) /\ Owns(RxNum, rxRead, held, Len(arrived))
        /\ arrived \in Seq(Frame)
    BY <1>1 DEF DmaReceive, RxRing, GmacTypeOK, RxSlot
  <2>2. t \notin held
    BY <2>1 DEF RxHeld
  <2>3. rx' = [rx EXCEPT ![t] = [own |-> FALSE, frame |-> frame]] /\ arrived' = Append(arrived, frame)
        /\ dma'.rx = (t + 1) % RxNum /\ rxRead' = rxRead
    BY <1>1, DmaFields DEF DmaReceive, RxNext
  <2>4. RxFrames'[t] = frame /\ \A i \in (0 .. RxNum - 1) \ {t} : RxFrames'[i] = b[i]
    BY <2>1, <2>3 DEF RxFrames, GmacTypeOK, RxSlot
  <2>5. RxHeld' = held \cup {t}
    BY <2>1, <2>3 DEF RxHeld, GmacTypeOK
  <2> HIDE DEF t, held, b
  <2>6. Len(arrived) < RxNum
    <3>1. Len(arrived) \in 0 .. RxNum
      BY <2>1 DEF Holds
    <3>2. Len(arrived) # RxNum
      BY <2>1, <2>2, RingEnds
    <3> QED BY <3>1, <3>2
  <2>7. Holds(RxNum, rxRead, (t + 1) % RxNum, RxFrames', Append(arrived, frame))
        /\ Owns(RxNum, rxRead, held \cup {t}, Len(Append(arrived, frame)))
    BY <2>1, <2>6, <2>4, RingPush
  <2> QED BY <2>3, <2>5, <2>7 DEF RxRing
<1>2. CASE ReceiveDescriptor
  <2> DEFINE h == rxRead
             held == RxHeld
             b == RxFrames
  <2>0. CASE ~dma.on
    BY <1>2, <2>0 DEF ReceiveDescriptor, RxRing
  <2>a. CASE dma.on
    <3>1. /\ RxNum \in Nat \ {0} /\ h \in 0 .. RxNum - 1 /\ ~rx[h].own
          /\ Holds(RxNum, h, dma.rx, b, arrived) /\ Owns(RxNum, h, held, Len(arrived))
          /\ arrived \in Seq(Frame)
      BY <1>2, <2>a DEF ReceiveDescriptor, RxRing, GmacTypeOK, RxSlot
    <3>2. h \in held
      BY <3>1 DEF RxHeld, RxSlot
    <3>4. rx' = [rx EXCEPT ![h] = [own |-> TRUE, frame |-> NoFrame]] /\ arrived' = Tail(arrived)
          /\ dma' = dma /\ rxRead' = (h + 1) % RxNum
      BY <1>2 DEF ReceiveDescriptor, RxNext
    <3>5. RxHeld' = held \ {h}
      BY <3>1, <3>4 DEF RxHeld, GmacTypeOK
    <3>6. \A i \in 0 .. RxNum - 1 : i \in held \ {h} => RxFrames'[i] = b[i]
      BY <3>1, <3>4 DEF RxFrames, GmacTypeOK, RxSlot
    <3> HIDE DEF h, held, b
    <3>3. arrived # <<>>
      BY <3>1, <3>2, RingFirst
    <3>7. Holds(RxNum, (h + 1) % RxNum, dma.rx, b, Tail(arrived))
          /\ Owns(RxNum, (h + 1) % RxNum, held \ {h}, Len(Tail(arrived)))
      BY <3>1, <3>3, RingPop
    <3>8. Holds(RxNum, (h + 1) % RxNum, dma.rx, RxFrames', Tail(arrived))
      BY <3>6, <3>7 DEF Holds, Owns
    <3> QED BY <3>4, <3>5, <3>7, <3>8 DEF RxRing
  <2> QED BY <2>0, <2>a
<1>3. CASE Initialize
  <2>1. rx' = [i \in RxSlot |-> [own |-> TRUE, frame |-> NoFrame]] /\ rxRead' = 0 /\ dma'.rx = 0
        /\ arrived' = <<>>
    BY <1>3 DEF Initialize, StoppedDma
  <2>2. RxHeld' = {}
    BY <2>1 DEF RxHeld
  <2>3. Holds(RxNum, 0, 0, RxFrames', <<>>) /\ Owns(RxNum, 0, {}, 0)
    BY RingEmpty, NextSlot DEF RxSlot
  <2> QED BY <2>1, <2>2, <2>3 DEF RxRing
<1>4. CASE InitializeTimesOut \/ ExitBootServices
  BY <1>4 DEF InitializeTimesOut, ExitBootServices, StoppedDma, RxRing
<1>5. CASE UNCHANGED <<rx, rxRead, arrived, dma.on, dma.rx>>
  BY <1>5 DEF RxRing, RxHeld, RxFrames
<1>6. CASE \/ DmaRxSuspend \/ DmaTransmit \/ DmaTxSuspend \/ Start \/ Stop \/ Shutdown
           \/ GetStatusClear \/ Receive \/ ReceiveResume \/ ReceiveReturn
           \/ TransmitPoll \/ UNCHANGED vars
  <2>1. UNCHANGED <<rx, rxRead, arrived, dma.on, dma.rx>>
    BY <1>6, DmaFields DEF DmaRxSuspend, DmaTransmit, DmaTxSuspend, Start, Stop, Shutdown, GetStatusClear,
       Receive, ReceiveResume, ReceiveReturn, TransmitPoll, vars, rxVars
  <2> QED BY <2>1, <1>5
<1>7. ASSUME NEW mac, NEW b, NEW recycle, NEW interrupts,
             StationAddress(mac) \/ Transmit(b) \/ GetStatus(recycle, interrupts)
      PROVE  RxRing'
  BY <1>5, <1>7 DEF StationAddress, Transmit, GetStatus, rxVars
<1> QED BY <1>1, <1>2, <1>3, <1>4, <1>6, <1>7 DEF Next, Engine, Protocol

LEMMA TxRingStep ==
  ASSUME NetTypes, TxRing, [Next]_vars
  PROVE  TxRing'
<1> USE GmacAssumption DEF NetTypes
<1>1. CASE DmaTransmit
  <2> DEFINE h == dma.tx
             held == TxHeld
  <2>1. /\ TxNum \in Nat \ {0} /\ h \in 0 .. TxNum - 1 /\ tx[h]
        /\ Holds(TxNum, h, txWrite, txBufPtrs, accepted) /\ Owns(TxNum, h, held, Len(accepted))
        /\ accepted \in Seq(Buf)
    BY <1>1 DEF DmaTransmit, TxRing, GmacTypeOK, TxSlot
  <2>2. h \in held
    BY <2>1 DEF TxHeld, TxSlot
  <2>3. tx' = [tx EXCEPT ![h] = FALSE] /\ accepted' = Tail(accepted)
        /\ dma'.tx = (h + 1) % TxNum /\ txWrite' = txWrite /\ txBufPtrs' = txBufPtrs
    BY <1>1, DmaFields DEF DmaTransmit, relVars
  <2>4. TxHeld' = held \ {h}
    BY <2>1, <2>3 DEF TxHeld, GmacTypeOK
  <2> HIDE DEF h, held
  <2>5. accepted # <<>>
    BY <2>1, <2>2, RingFirst
  <2>6. Holds(TxNum, (h + 1) % TxNum, txWrite, txBufPtrs, Tail(accepted))
        /\ Owns(TxNum, (h + 1) % TxNum, held \ {h}, Len(Tail(accepted)))
    BY <2>1, <2>5, RingPop
  <2> QED BY <2>3, <2>4, <2>6 DEF TxRing
<1>2. ASSUME NEW b \in Buf, Transmit(b), ~tx[txWrite]
      PROVE  TxRing'
  <2>1. CASE ~dma.on \/ ~(TxNext(txWrite) # txWrite)
    BY <1>2, <2>1 DEF Transmit, TxRing, TxHeld, txVars
  <2>2. CASE dma.on /\ TxNext(txWrite) # txWrite
    <3> DEFINE t == txWrite
               h == dma.tx
               held == TxHeld
    <3>1. /\ TxNum \in Nat \ {0} /\ h \in 0 .. TxNum - 1 /\ t \in TxSlot /\ ~tx[t]
          /\ Holds(TxNum, h, t, txBufPtrs, accepted) /\ Owns(TxNum, h, held, Len(accepted))
          /\ accepted \in Seq(Buf)
      BY <1>2, <2>2 DEF TxRing, GmacTypeOK, TxSlot
    <3>2. t \notin held
      BY <3>1 DEF TxHeld
    <3>4. tx' = [tx EXCEPT ![t] = TRUE] /\ accepted' = Append(accepted, b)
          /\ txBufPtrs' = [txBufPtrs EXCEPT ![t] = b] /\ txWrite' = (t + 1) % TxNum /\ dma' = dma
      BY <1>2, <2>2 DEF Transmit, TxNext
    <3>5. txBufPtrs'[t] = b /\ \A i \in (0 .. TxNum - 1) \ {t} : txBufPtrs'[i] = txBufPtrs[i]
      BY <3>1, <3>4 DEF GmacTypeOK, TxSlot
    <3>6. TxHeld' = held \cup {t}
      BY <3>1, <3>4 DEF TxHeld, GmacTypeOK
    <3> HIDE DEF t, h, held
    <3>3. Len(accepted) < TxNum
      <4>1. Len(accepted) \in 0 .. TxNum
        BY <3>1 DEF Holds
      <4>2. Len(accepted) # TxNum
        BY <3>1, <3>2, RingEnds
      <4> QED BY <4>1, <4>2
    <3>7. Holds(TxNum, h, (t + 1) % TxNum, txBufPtrs', Append(accepted, b))
          /\ Owns(TxNum, h, held \cup {t}, Len(Append(accepted, b)))
      BY <3>1, <3>3, <3>5, RingPush
    <3> QED BY <3>4, <3>6, <3>7 DEF TxRing, h
  <2> QED BY <2>1, <2>2
<1>3. CASE Initialize
  <2>1. tx' = [i \in TxSlot |-> FALSE] /\ txWrite' = 0 /\ dma'.tx = 0 /\ accepted' = <<>>
    BY <1>3 DEF Initialize, StoppedDma
  <2>2. TxHeld' = {}
    BY <2>1 DEF TxHeld
  <2>3. Holds(TxNum, 0, 0, txBufPtrs', <<>>) /\ Owns(TxNum, 0, {}, 0)
    BY RingEmpty, NextSlot DEF TxSlot
  <2> QED BY <2>1, <2>2, <2>3 DEF TxRing
<1>4. CASE InitializeTimesOut \/ ExitBootServices
  BY <1>4 DEF InitializeTimesOut, ExitBootServices, StoppedDma, TxRing
<1>5. CASE UNCHANGED <<tx, txWrite, accepted, txBufPtrs, dma.on, dma.tx>>
  BY <1>5 DEF TxRing, TxHeld
<1>6. CASE \/ DmaRxSuspend \/ DmaTxSuspend \/ Start \/ Stop \/ Shutdown
           \/ GetStatusClear \/ Receive \/ ReceiveDescriptor \/ ReceiveResume \/ ReceiveReturn
           \/ TransmitPoll \/ UNCHANGED vars
  <2>1. UNCHANGED <<tx, txWrite, accepted, txBufPtrs, dma.on, dma.tx>>
    BY <1>6, DmaFields DEF DmaRxSuspend, DmaTxSuspend, Start, Stop, Shutdown, GetStatusClear, Receive,
       ReceiveDescriptor, ReceiveResume, ReceiveReturn, TransmitPoll, vars, txVars, relVars
  <2> QED BY <2>1, <1>5
<1>7. ASSUME NEW mac, NEW frame, NEW recycle, NEW interrupts,
             StationAddress(mac) \/ DmaReceive(frame) \/ GetStatus(recycle, interrupts)
      PROVE  TxRing'
  <2>1. UNCHANGED <<tx, txWrite, accepted, txBufPtrs, dma.on, dma.tx>>
    BY <1>7, DmaFields DEF StationAddress, DmaReceive, GetStatus, txVars, relVars
  <2> QED BY <2>1, <1>5
<1>8. ASSUME NEW b \in Buf, Transmit(b), tx[txWrite]
      PROVE  TxRing'
  BY <1>5, <1>8 DEF Transmit, txVars
<1> QED BY <1>1, <1>2, <1>3, <1>4, <1>6, <1>7, <1>8 DEF Next, Engine, Protocol

\* The forms the record of the call takes.
LEMMA OpForms ==
  ASSUME op \in Ops
  PROVE  /\ op.pc = "clear" => op \in [pc : {"clear"}, status : BOOLEAN]
         /\ op.pc \in {"rx", "resume"} => op \in [pc : {"rx", "resume"}, done : BOOLEAN]
  BY DEF Ops, Idle

LEMMA StatesStep ==
  ASSUME NetTypes, NetStates, [Next]_vars
  PROVE  NetStates'
<1> USE DEF NetTypes, NetStates
<1>1. CASE Start \/ Stop \/ Shutdown \/ Initialize \/ InitializeTimesOut \/ ExitBootServices
  <2>1. CASE Start \/ Stop \/ Shutdown
    BY <2>1 DEF Start, Stop, Shutdown, Calls, relVars
  <2>2. CASE Initialize
    BY <2>2 DEF Initialize, Calls, StoppedDma
  <2>3. CASE InitializeTimesOut \/ ExitBootServices
    BY <2>3 DEF InitializeTimesOut, ExitBootServices, Calls, StoppedDma, relVars
  <2> QED BY <1>1, <2>1, <2>2, <2>3
<1>2. CASE \/ GetStatusClear \/ Receive \/ ReceiveReturn \/ ReceiveDescriptor \/ UNCHANGED vars
  BY <1>2 DEF GetStatusClear, Receive, ReceiveReturn, ReceiveDescriptor, Calls, Idle, vars, modeVars, relVars
<1>3. CASE DmaRxSuspend \/ DmaTransmit \/ DmaTxSuspend \/ ReceiveResume \/ TransmitPoll
  BY <1>3, DmaFields DEF DmaRxSuspend, DmaTransmit, DmaTxSuspend, ReceiveResume, TransmitPoll, Idle,
     modeVars, relVars
<1>4. ASSUME NEW mac, NEW frame, NEW b, NEW recycle, NEW interrupts,
             \/ StationAddress(mac) \/ DmaReceive(frame) \/ Transmit(b) \/ GetStatus(recycle, interrupts)
      PROVE  NetStates'
  BY <1>4, DmaFields DEF StationAddress, DmaReceive, Transmit, GetStatus, Calls, modeVars, relVars
<1> QED BY <1>1, <1>2, <1>3, <1>4 DEF Next, Engine, Protocol

LEMMA PendingStep ==
  ASSUME NetTypes, NetStates, ArrivalsPending, [Next]_vars
  PROVE  ArrivalsPending'
<1> USE DEF NetTypes, NetStates, ArrivalsPending
<1>1. CASE Start \/ Stop \/ Shutdown \/ Initialize \/ InitializeTimesOut \/ ExitBootServices
  <2>1. CASE Start \/ Stop \/ Shutdown
    BY <2>1 DEF Start, Stop, Shutdown, Calls, rxVars
  <2>2. CASE Initialize
    BY <2>2 DEF Initialize, Calls, StoppedDma
  <2>3. CASE InitializeTimesOut \/ ExitBootServices
    <3>1. dma' = StoppedDma /\ StoppedDma.on = FALSE
      BY <2>3 DEF InitializeTimesOut, ExitBootServices, StoppedDma
    <3> QED BY <3>1
  <2> QED BY <1>1, <2>1, <2>2, <2>3
<1>2. CASE \/ Receive \/ ReceiveReturn \/ ReceiveDescriptor \/ UNCHANGED vars
  BY <1>2 DEF Receive, ReceiveReturn, ReceiveDescriptor, Calls, Idle, vars, modeVars, rxVars
<1>3. CASE DmaRxSuspend \/ DmaTransmit \/ DmaTxSuspend \/ ReceiveResume \/ TransmitPoll
  BY <1>3, DmaFields DEF DmaRxSuspend, DmaTransmit, DmaTxSuspend, ReceiveResume, TransmitPoll, Idle,
     modeVars, rxVars
<1>4. ASSUME NEW mac, NEW frame, NEW b, NEW recycle, NEW interrupts,
             \/ StationAddress(mac) \/ DmaReceive(frame) \/ Transmit(b) \/ GetStatus(recycle, interrupts)
      PROVE  ArrivalsPending'
  BY <1>4, DmaFields DEF StationAddress, DmaReceive, Transmit, GetStatus, Calls, modeVars, rxVars
<1>5. CASE GetStatusClear
  BY <1>5 DEF GetStatusClear
<1> QED BY <1>1, <1>2, <1>3, <1>4, <1>5 DEF Next, Engine, Protocol

LEMMA GoesStep ==
  ASSUME NetTypes, NetStates, TxRing, EngineGoesOn, [Next]_vars
  PROVE  EngineGoesOn'
<1> USE GmacAssumption DEF NetTypes, NetStates
<1>1. RxNeverStarves'
  <2> USE DEF EngineGoesOn, RxNeverStarves
  <2>1. CASE UNCHANGED <<rx, dma.rx, dma.rxSusp, op.pc>>
    BY <2>1
  <2>2. CASE \/ DmaTransmit \/ DmaTxSuspend \/ Start \/ Stop \/ Shutdown \/ UNCHANGED vars
    <3>1. UNCHANGED <<rx, dma.rx, dma.rxSusp, op.pc>>
      BY <2>2, DmaFields DEF DmaTransmit, DmaTxSuspend, Start, Stop, Shutdown, vars, rxVars
    <3> QED BY <2>1, <3>1
  <2>3. CASE Initialize \/ InitializeTimesOut \/ ExitBootServices
    <3>1. dma'.rxSusp = FALSE
      BY <2>3, DmaStopped DEF Initialize, InitializeTimesOut, ExitBootServices
    <3> QED BY <3>1
  <2>4. CASE DmaRxSuspend
    BY <2>4, DmaFields DEF DmaRxSuspend, rxVars
  <2>5. CASE ReceiveDescriptor
    BY <2>5, OpForms DEF ReceiveDescriptor
  <2>6. CASE ReceiveResume
    BY <2>6, DmaFields DEF ReceiveResume
  <2>7. CASE GetStatusClear \/ Receive \/ ReceiveReturn
    <3>1. UNCHANGED <<rx, dma>> /\ op.pc # "resume"
      BY <2>7 DEF GetStatusClear, Receive, ReceiveReturn, Calls, rxVars
    <3> QED BY <3>1
  <2>8. CASE TransmitPoll
    <3>1. UNCHANGED <<rx, dma.rx, dma.rxSusp>> /\ op.pc # "resume"
      BY <2>8, DmaFields DEF TransmitPoll, rxVars
    <3> QED BY <3>1
  <2>9. ASSUME NEW mac, NEW b, NEW recycle, NEW interrupts,
               \/ StationAddress(mac) \/ Transmit(b) \/ GetStatus(recycle, interrupts)
        PROVE  RxNeverStarves'
    <3>1. UNCHANGED <<rx, dma>> /\ op.pc # "resume"
      BY <2>9 DEF StationAddress, Transmit, GetStatus, Calls, rxVars
    <3> QED BY <3>1
  <2>10. ASSUME NEW frame, DmaReceive(frame)
         PROVE  RxNeverStarves'
    <3>1. dma'.rxSusp = FALSE
      BY <2>10, DmaFields DEF DmaReceive, GmacTypeOK
    <3> QED BY <3>1
  <2> QED BY <2>2, <2>3, <2>4, <2>5, <2>6, <2>7, <2>8, <2>9, <2>10 DEF Next, Engine, Protocol
<1>2. TxNeverStalls'
  <2> USE DEF EngineGoesOn, TxNeverStalls
  <2>1. CASE UNCHANGED <<accepted, dma.txSusp>> /\ op.pc # "poll"
    BY <2>1
  <2>2. CASE \/ DmaRxSuspend \/ Start \/ Stop \/ Shutdown \/ GetStatusClear \/ Receive
             \/ ReceiveDescriptor \/ ReceiveResume \/ ReceiveReturn \/ UNCHANGED vars
    <3>1. UNCHANGED <<accepted, dma.txSusp>> /\ (op.pc # "poll" \/ UNCHANGED op)
      BY <2>2, DmaFields DEF DmaRxSuspend, Start, Stop, Shutdown, GetStatusClear, Receive, ReceiveDescriptor,
         ReceiveResume, ReceiveReturn, Calls, vars, txVars
    <3> QED BY <3>1
  <2>3. CASE Initialize \/ InitializeTimesOut \/ ExitBootServices
    <3>1. dma'.txSusp = FALSE
      BY <2>3, DmaStopped DEF Initialize, InitializeTimesOut, ExitBootServices
    <3> QED BY <3>1
  <2>4. CASE DmaTxSuspend
    <3>1. dma.on /\ ~tx[dma.tx] /\ accepted \in Seq(Buf) /\ dma.tx \in 0 .. TxNum - 1
          /\ TxNum \in Nat \ {0} /\ accepted' = accepted
      BY <2>4 DEF DmaTxSuspend, GmacTypeOK, TxSlot, txVars
    <3>2. Owns(TxNum, dma.tx, TxHeld, Len(accepted)) /\ dma.tx \notin TxHeld
      BY <3>1 DEF TxRing, TxHeld
    <3>3. accepted = <<>>
      BY <3>1, <3>2, RingFirst
    <3> QED BY <3>1, <3>3
  <2>5. CASE DmaTransmit
    <3>1. dma'.txSusp = FALSE
      BY <2>5, DmaFields DEF DmaTransmit, GmacTypeOK
    <3> QED BY <3>1
  <2>6. CASE TransmitPoll
    BY <2>6, DmaFields DEF TransmitPoll
  <2>7. ASSUME NEW b, Transmit(b)
        PROVE  TxNeverStalls'
    BY <2>7 DEF Transmit
  <2>8. ASSUME NEW mac, NEW frame, NEW recycle, NEW interrupts,
               \/ StationAddress(mac) \/ DmaReceive(frame) \/ GetStatus(recycle, interrupts)
        PROVE  TxNeverStalls'
    <3>1. UNCHANGED <<accepted, dma.txSusp>> /\ (op.pc # "poll" \/ UNCHANGED op)
      BY <2>8, DmaFields DEF StationAddress, DmaReceive, GetStatus, Calls, txVars
    <3> QED BY <3>1
  <2> QED BY <2>2, <2>3, <2>4, <2>5, <2>6, <2>7, <2>8 DEF Next, Engine, Protocol
<1>3. AddressInForce'
  <2> USE DEF EngineGoesOn, AddressInForce
  <2>1. CASE Start \/ Stop \/ Shutdown \/ Initialize \/ InitializeTimesOut \/ ExitBootServices
    BY <2>1 DEF Start, Stop, Shutdown, Initialize, InitializeTimesOut, ExitBootServices, Calls
  <2>2. ASSUME NEW mac, NEW frame, NEW b, NEW recycle, NEW interrupts,
               \/ StationAddress(mac) \/ DmaReceive(frame) \/ Transmit(b) \/ GetStatus(recycle, interrupts)
        PROVE  AddressInForce'
    BY <2>2 DEF StationAddress, DmaReceive, Transmit, GetStatus, modeVars
  <2>3. CASE UNCHANGED modeVars
    BY <2>3 DEF modeVars
  <2>4. CASE \/ DmaRxSuspend \/ DmaTransmit \/ DmaTxSuspend \/ GetStatusClear \/ Receive \/ ReceiveDescriptor
             \/ ReceiveResume \/ ReceiveReturn \/ TransmitPoll \/ UNCHANGED vars
    <3>1. UNCHANGED modeVars
      BY <2>4 DEF DmaRxSuspend, DmaTransmit, DmaTxSuspend, GetStatusClear, Receive, ReceiveDescriptor,
         ReceiveResume, ReceiveReturn, TransmitPoll, vars
    <3> QED BY <2>3, <3>1
  <2> QED BY <2>1, <2>2, <2>4 DEF Next, Engine, Protocol
<1> QED BY <1>1, <1>2, <1>3 DEF EngineGoesOn

LEMMA ModeTypesStep ==
  ASSUME NetTypes, [Next]_vars
  PROVE  /\ state' \in {"Stopped", "Started", "Initialized", "exited"}
         /\ media' \in BOOLEAN /\ current' \in Mac /\ station' \in Mac \cup {NoMac}
         /\ intr' \in BOOLEAN /\ unreported' \in BOOLEAN
<1> USE DEF NetTypes, GmacTypeOK
<1>1. CASE Start \/ Stop \/ Shutdown \/ Initialize
  BY <1>1 DEF Start, Stop, Shutdown, Initialize, rxVars
<1>2. CASE InitializeTimesOut \/ ExitBootServices
  BY <1>2 DEF InitializeTimesOut, ExitBootServices, rxVars
<1>3. CASE DmaRxSuspend \/ DmaTransmit \/ DmaTxSuspend \/ UNCHANGED vars
  BY <1>3 DEF DmaRxSuspend, DmaTransmit, DmaTxSuspend, vars, modeVars, rxVars
<1>4. CASE \/ GetStatusClear \/ Receive \/ ReceiveDescriptor \/ ReceiveResume \/ ReceiveReturn \/ TransmitPoll
  BY <1>4 DEF GetStatusClear, Receive, ReceiveDescriptor, ReceiveResume, ReceiveReturn, TransmitPoll, modeVars, rxVars
<1>5. ASSUME NEW mac \in Mac, NEW frame, NEW b, NEW recycle, NEW interrupts,
             \/ StationAddress(mac) \/ DmaReceive(frame) \/ Transmit(b) \/ GetStatus(recycle, interrupts)
      PROVE  /\ state' \in {"Stopped", "Started", "Initialized", "exited"}
             /\ media' \in BOOLEAN /\ current' \in Mac /\ station' \in Mac \cup {NoMac}
             /\ intr' \in BOOLEAN /\ unreported' \in BOOLEAN
  BY <1>5 DEF StationAddress, DmaReceive, Transmit, GetStatus, modeVars, rxVars
<1> QED BY <1>1, <1>2, <1>3, <1>4, <1>5 DEF Next, Engine, Protocol

DmaType == [on : BOOLEAN, rx : RxSlot, tx : TxSlot, rxSusp : BOOLEAN, txSusp : BOOLEAN]

LEMMA DmaTypeStep ==
  ASSUME NetTypes, [Next]_vars
  PROVE  dma' \in DmaType
<1> USE DEF NetTypes, GmacTypeOK, DmaType
<1>1. ASSUME NEW frame, NEW b, NEW mac, NEW recycle, NEW interrupts,
             \/ Start \/ Stop \/ Shutdown \/ UNCHANGED vars \/ GetStatusClear \/ Receive \/ ReceiveDescriptor
             \/ ReceiveReturn \/ StationAddress(mac) \/ Transmit(b) \/ GetStatus(recycle, interrupts)
      PROVE  dma' \in DmaType
  BY <1>1 DEF Start, Stop, Shutdown, vars, GetStatusClear, Receive, ReceiveDescriptor, ReceiveReturn,
     StationAddress, Transmit, GetStatus
<1>2. CASE Initialize \/ InitializeTimesOut \/ ExitBootServices
  <2>1. \E v \in BOOLEAN : dma' = [on |-> v, rx |-> 0, tx |-> 0, rxSusp |-> FALSE, txSusp |-> FALSE]
    BY <1>2, DmaStopped DEF Initialize, InitializeTimesOut, ExitBootServices
  <2> QED BY <2>1, NextSlot
<1>3. ASSUME NEW frame, DmaReceive(frame)
      PROVE  dma' \in DmaType
  <2>1. dma' = [on |-> dma.on, rx |-> RxNext(dma.rx), tx |-> dma.tx, rxSusp |-> dma.rxSusp, txSusp |-> dma.txSusp]
    BY <1>3, DmaFields DEF DmaReceive
  <2>2. RxNext(dma.rx) \in RxSlot
    BY NextSlot
  <2> QED BY <2>1, <2>2
<1>4. CASE DmaTransmit
  <2>1. dma' = [on |-> dma.on, rx |-> dma.rx, tx |-> TxNext(dma.tx), rxSusp |-> dma.rxSusp, txSusp |-> dma.txSusp]
    BY <1>4, DmaFields DEF DmaTransmit, TxNext
  <2>2. TxNext(dma.tx) \in TxSlot
    BY NextSlot
  <2> QED BY <2>1, <2>2
<1>5. CASE DmaRxSuspend \/ ReceiveResume
  <2>1. \E v \in BOOLEAN :
          dma' = [on |-> dma.on, rx |-> dma.rx, tx |-> dma.tx, rxSusp |-> v, txSusp |-> dma.txSusp]
    BY <1>5, DmaFields DEF DmaRxSuspend, ReceiveResume
  <2> QED BY <2>1
<1>6. CASE DmaTxSuspend \/ TransmitPoll
  <2>1. \E v \in BOOLEAN :
          dma' = [on |-> dma.on, rx |-> dma.rx, tx |-> dma.tx, rxSusp |-> dma.rxSusp, txSusp |-> v]
    BY <1>6, DmaFields DEF DmaTxSuspend, TransmitPoll
  <2> QED BY <2>1
<1> QED BY <1>1, <1>2, <1>3, <1>4, <1>5, <1>6 DEF Next, Engine, Protocol

RxTypes ==
  rx \in [RxSlot -> [own : BOOLEAN, frame : Frame \cup {NoFrame}]] /\ rxRead \in RxSlot /\ arrived \in Seq(Frame)

LEMMA RxTypesStep ==
  ASSUME NetTypes, NetStates, RxRing, [Next]_vars
  PROVE  RxTypes'
<1> USE DEF NetTypes, GmacTypeOK, RxTypes
<1>1. CASE UNCHANGED <<rx, rxRead, arrived>>
  BY <1>1
<1>2. CASE Initialize
  <2>1. rx' = [i \in RxSlot |-> [own |-> TRUE, frame |-> NoFrame]] /\ rxRead' = 0 /\ arrived' = <<>>
    BY <1>2 DEF Initialize
  <2> QED BY <2>1, NextSlot
<1>3. ASSUME NEW frame \in Frame, DmaReceive(frame)
      PROVE  RxTypes'
  <2>1. rx' = [rx EXCEPT ![dma.rx] = [own |-> FALSE, frame |-> frame]] /\ rxRead' = rxRead
        /\ arrived' = Append(arrived, frame)
    BY <1>3 DEF DmaReceive
  <2> QED BY <2>1
<1>4. CASE ReceiveDescriptor
  <2>1. rx' = [rx EXCEPT ![rxRead] = [own |-> TRUE, frame |-> NoFrame]] /\ rxRead' = RxNext(rxRead)
        /\ arrived' = Tail(arrived) /\ ~rx[rxRead].own /\ state = "Initialized"
    BY <1>4 DEF ReceiveDescriptor, NetStates
  <2>2. Owns(RxNum, rxRead, RxHeld, Len(arrived)) /\ rxRead \in RxHeld
    BY <2>1 DEF NetStates, RxRing, RxHeld
  <2>3. arrived # <<>>
    BY <2>2, RingFirst, GmacAssumption DEF RxSlot
  <2>4. Tail(arrived) \in Seq(Frame) /\ RxNext(rxRead) \in RxSlot
    BY <2>3, NextSlot
  <2>5. [own |-> TRUE, frame |-> NoFrame] \in [own : BOOLEAN, frame : Frame \cup {NoFrame}]
    OBVIOUS
  <2> HIDE DEF Idle
  <2> QED BY <2>1, <2>4, <2>5
<1>5. CASE Start \/ Stop \/ Shutdown \/ InitializeTimesOut \/ ExitBootServices \/ UNCHANGED vars
  BY <1>1, <1>5 DEF Start, Stop, Shutdown, InitializeTimesOut, ExitBootServices, vars, rxVars
<1>6. CASE \/ DmaRxSuspend \/ DmaTransmit \/ DmaTxSuspend \/ GetStatusClear \/ Receive \/ ReceiveResume
           \/ ReceiveReturn \/ TransmitPoll
  BY <1>1, <1>6 DEF DmaRxSuspend, DmaTransmit, DmaTxSuspend, GetStatusClear, Receive, ReceiveResume,
     ReceiveReturn, TransmitPoll, rxVars
<1>7. ASSUME NEW mac, NEW b, NEW recycle, NEW interrupts,
             \/ StationAddress(mac) \/ Transmit(b) \/ GetStatus(recycle, interrupts)
      PROVE  RxTypes'
  BY <1>1, <1>7 DEF StationAddress, Transmit, GetStatus, rxVars
<1> QED BY <1>2, <1>3, <1>4, <1>5, <1>6, <1>7 DEF Next, Engine, Protocol

TxTypes ==
  /\ tx \in [TxSlot -> BOOLEAN] /\ txWrite \in TxSlot /\ accepted \in Seq(Buf)
  /\ txRelease \in TxSlot /\ txBufPtrs \in [TxSlot -> Buf \cup {0}] /\ out \in Seq(Buf)

LEMMA TxTypesStep ==
  ASSUME NetTypes, NetStates, TxRing, [Next]_vars
  PROVE  TxTypes'
<1> USE DEF NetTypes, GmacTypeOK, TxTypes
<1>1. CASE UNCHANGED <<txVars, relVars>>
  BY <1>1 DEF txVars, relVars
<1>2. CASE Initialize
  <2>1. tx' = [i \in TxSlot |-> FALSE] /\ txWrite' = 0 /\ txRelease' = 0 /\ accepted' = <<>>
        /\ UNCHANGED <<txBufPtrs, out>>
    BY <1>2 DEF Initialize
  <2> QED BY <2>1, NextSlot
<1>3. CASE DmaTransmit
  <2>1. tx' = [tx EXCEPT ![dma.tx] = FALSE] /\ accepted' = Tail(accepted) /\ dma.on /\ tx[dma.tx]
        /\ UNCHANGED <<txWrite, txRelease, txBufPtrs, out>>
    BY <1>3 DEF DmaTransmit, relVars
  <2>2. Owns(TxNum, dma.tx, TxHeld, Len(accepted)) /\ dma.tx \in TxHeld
    BY <2>1 DEF TxRing, TxHeld
  <2>3. accepted # <<>>
    BY <2>2, RingFirst, GmacAssumption DEF TxSlot
  <2>4. Tail(accepted) \in Seq(Buf)
    BY <2>3
  <2> QED BY <2>1, <2>4
<1>4. ASSUME NEW b \in Buf, Transmit(b)
      PROVE  TxTypes'
  <2>1. CASE UNCHANGED <<txVars, relVars>>
    BY <1>1, <2>1
  <2>2. CASE /\ tx' = [tx EXCEPT ![txWrite] = TRUE] /\ txBufPtrs' = [txBufPtrs EXCEPT ![txWrite] = b]
             /\ txWrite' = TxNext(txWrite) /\ accepted' = Append(accepted, b) /\ out' = Append(out, b)
             /\ txRelease' = txRelease
    BY <2>2, NextSlot
  <2> QED BY <1>4, <2>1, <2>2 DEF Transmit, relVars
<1>5. ASSUME NEW recycle \in BOOLEAN, NEW interrupts, GetStatus(recycle, interrupts)
      PROVE  TxTypes'
  <2>1. UNCHANGED <<tx, txWrite, accepted, txBufPtrs>>
    BY <1>5 DEF GetStatus, txVars
  <2>2. UNCHANGED <<txRelease, out>> \/ Recycle
    BY <1>5 DEF GetStatus
  <2>3. txRelease' \in {txRelease, TxNext(txRelease)} /\ (out' = out \/ (out # <<>> /\ out' = Tail(out)))
    <3>1. CASE Recycle /\ txRelease # txWrite
      <4>1. txRelease' = TxNext(txRelease)
        BY <3>1 DEF Recycle
      <4>2. out' = out \/ (out # <<>> /\ out' = Tail(out))
        BY <3>1 DEF Recycle
      <4> QED BY <4>1, <4>2
    <3>2. CASE Recycle /\ txRelease = txWrite
      BY <3>2 DEF Recycle
    <3> QED BY <2>2, <3>1, <3>2
  <2>4. out # <<>> => Tail(out) \in Seq(Buf)
    OBVIOUS
  <2>5. txRelease' \in TxSlot /\ out' \in Seq(Buf)
    BY <2>3, <2>4, NextSlot
  <2> QED BY <2>1, <2>5
<1>6. CASE Start \/ InitializeTimesOut \/ ExitBootServices \/ UNCHANGED vars
  BY <1>1, <1>6 DEF Start, InitializeTimesOut, ExitBootServices, vars
<1>7. CASE \/ DmaRxSuspend \/ DmaTxSuspend \/ GetStatusClear \/ Receive \/ ReceiveDescriptor \/ ReceiveResume
           \/ ReceiveReturn \/ TransmitPoll
  BY <1>1, <1>7 DEF DmaRxSuspend, DmaTxSuspend, GetStatusClear, Receive, ReceiveDescriptor, ReceiveResume,
     ReceiveReturn, TransmitPoll
<1>8. ASSUME NEW mac, NEW frame, StationAddress(mac) \/ DmaReceive(frame)
      PROVE  TxTypes'
  BY <1>1, <1>8 DEF StationAddress, DmaReceive
<1>9. CASE Stop \/ Shutdown
  <2>1. UNCHANGED <<tx, txWrite, accepted, txRelease, txBufPtrs>> /\ out' = <<>>
    BY <1>9 DEF Stop, Shutdown, txVars
  <2> QED BY <2>1
<1> QED BY <1>2, <1>3, <1>4, <1>5, <1>6, <1>7, <1>8, <1>9 DEF Next, Engine, Protocol

LEMMA OpTypeStep ==
  ASSUME NetTypes, [Next]_vars
  PROVE  op' \in Ops
<1> USE DEF NetTypes
<1>1. CASE UNCHANGED op \/ op' = Idle
  BY <1>1 DEF Ops
<1>2. CASE \/ Start \/ Stop \/ Shutdown \/ Initialize \/ InitializeTimesOut \/ ExitBootServices \/ UNCHANGED vars
           \/ DmaRxSuspend \/ DmaTransmit \/ DmaTxSuspend \/ GetStatusClear \/ ReceiveReturn \/ TransmitPoll
  BY <1>1, <1>2 DEF Start, Stop, Shutdown, Initialize, InitializeTimesOut, ExitBootServices, vars, DmaRxSuspend,
     DmaTransmit, DmaTxSuspend, GetStatusClear, ReceiveReturn, TransmitPoll
<1>3. ASSUME NEW mac, NEW frame, StationAddress(mac) \/ DmaReceive(frame)
      PROVE  op' \in Ops
  BY <1>1, <1>3 DEF StationAddress, DmaReceive
<1>4. CASE Receive
  BY <1>4 DEF Receive, Ops
<1>5. ASSUME NEW b, Transmit(b)
      PROVE  op' \in Ops
  BY <1>5 DEF Transmit, Ops
<1>6. ASSUME NEW recycle, NEW interrupts, GetStatus(recycle, interrupts)
      PROVE  op' \in Ops
  BY <1>6 DEF GetStatus, Ops, GmacTypeOK
<1>7. CASE ReceiveDescriptor
  <2>1. op \in [pc : {"rx", "resume"}, done : BOOLEAN]
    BY <1>7, OpForms DEF ReceiveDescriptor
  <2>2. rx[rxRead].frame.whole \in BOOLEAN
    <3>1. rx[rxRead].frame \in Frame \cup {NoFrame}
      BY DEF GmacTypeOK
    <3>2. NoFrame.whole \in BOOLEAN
      BY DEF NoFrame
    <3>3. \A f \in Frame : f.whole \in BOOLEAN
      BY DEF Frame
    <3> QED BY <3>1, <3>2, <3>3
  <2> QED BY <1>7, <2>1, <2>2 DEF ReceiveDescriptor, Ops
<1>8. CASE ReceiveResume
  <2>1. op \in [pc : {"rx", "resume"}, done : BOOLEAN]
    BY <1>8, OpForms DEF ReceiveResume
  <2> QED BY <1>8, <2>1 DEF ReceiveResume, Ops
<1> QED BY <1>2, <1>3, <1>4, <1>5, <1>6, <1>7, <1>8 DEF Next, Engine, Protocol

LEMMA TypesStep ==
  ASSUME NetTypes, NetStates, RxRing, TxRing, [Next]_vars
  PROVE  NetTypes'
<1>1. op' \in Ops /\ op'.pc \in {"idle", "clear", "rx", "resume", "poll"}
  BY OpTypeStep DEF Ops, Idle
<1>2. RxTypes' /\ TxTypes' /\ dma' \in DmaType
  BY RxTypesStep, TxTypesStep, DmaTypeStep
<1> QED BY <1>1, <1>2, ModeTypesStep DEF NetTypes, GmacTypeOK, RxTypes, TxTypes, DmaType

----------------------------------------------------------------------------
(***************************************************************************)
(* The theorems.                                                           *)
(***************************************************************************)
LEMMA NetInit ==
  ASSUME Init
  PROVE  NetInv
<1> USE GmacAssumption DEF Init
<1>1. dma = [on |-> FALSE, rx |-> 0, tx |-> 0, rxSusp |-> FALSE, txSusp |-> FALSE]
  BY DmaStopped
<1>2. NetTypes
  <2>1. op \in Ops /\ op.pc = "idle"
    BY DEF Ops, Idle
  <2>2. rx \in [RxSlot -> [own : BOOLEAN, frame : Frame \cup {NoFrame}]] /\ tx \in [TxSlot -> BOOLEAN]
    OBVIOUS
  <2>3. dma \in [on : BOOLEAN, rx : RxSlot, tx : TxSlot, rxSusp : BOOLEAN, txSusp : BOOLEAN]
    BY <1>1, NextSlot
  <2>4. txBufPtrs \in [TxSlot -> Buf \cup {0}]
    OBVIOUS
  <2>5. arrived \in Seq(Frame) /\ accepted \in Seq(Buf) /\ out \in Seq(Buf)
    OBVIOUS
  <2>6. state = "Stopped" /\ media \in BOOLEAN /\ intr \in BOOLEAN /\ unreported \in BOOLEAN
        /\ rxRead \in RxSlot /\ txWrite \in TxSlot /\ txRelease \in TxSlot
        /\ current \in Mac /\ station \in Mac \cup {NoMac}
    BY NextSlot
  <2> QED BY ONLY <2>1, <2>2, <2>3, <2>4, <2>5, <2>6 DEF NetTypes, GmacTypeOK
<1>3. dma.on = FALSE /\ dma.rxSusp = FALSE /\ dma.txSusp = FALSE
  BY <1>1
<1>4. NetStates /\ RxRing /\ TxRing /\ ArrivalsPending
  BY <1>3 DEF NetStates, RxRing, TxRing, ArrivalsPending, Idle
<1>5. EngineGoesOn
  BY <1>3 DEF EngineGoesOn, RxNeverStarves, TxNeverStalls, AddressInForce
<1> QED BY <1>2, <1>4, <1>5 DEF NetInv

\* The invariant: the ring of either direction, cut at the two ends, holds
\* what the histories say, in every state.
THEOREM NetInvariant == Spec => []NetInv
<1>1. NetInv /\ [Next]_vars => NetInv'
  BY TypesStep, StatesStep, RxRingStep, TxRingStep, GoesStep, PendingStep DEF NetInv
<1> QED BY NetInit, <1>1, PTL DEF Spec

LEMMA RxRingRead ==
  ASSUME NetInv
  PROVE  RxRingInOrder
<1> USE GmacAssumption
<1> SUFFICES ASSUME dma.on PROVE InRxRing = arrived
  BY DEF RxRingInOrder
<1> DEFINE n == Len(arrived)
<1>1. /\ rxRead \in 0 .. RxNum - 1 /\ RxNum \in Nat \ {0} /\ arrived \in Seq(Frame) /\ n \in 0 .. RxNum
      /\ Holds(RxNum, rxRead, dma.rx, RxFrames, arrived) /\ Owns(RxNum, rxRead, RxHeld, n)
  BY DEF NetInv, NetTypes, GmacTypeOK, RxSlot, RxRing, Holds
<1>2. Cardinality(RxHeld) = n
  BY <1>1, RingCount
<1>3. [k \in 1 .. n |-> RxFrames[(rxRead + k - 1) % RxNum]] = arrived
  BY <1>1, RingList
<1> HIDE DEF n
<1>4. ASSUME NEW k \in 1 .. n
      PROVE  RxFrames[(rxRead + k - 1) % RxNum] = rx[(rxRead + k - 1) % RxNum].frame
  BY <1>1 DEF RxFrames, RxSlot
<1> QED BY <1>2, <1>3, <1>4 DEF InRxRing, RxHeld

LEMMA TxRingRead ==
  ASSUME NetInv
  PROVE  TxRingInOrder
<1> USE GmacAssumption
<1> SUFFICES ASSUME dma.on PROVE InTxRing = accepted
  BY DEF TxRingInOrder
<1> DEFINE n == Len(accepted)
<1>1. /\ dma.tx \in 0 .. TxNum - 1 /\ TxNum \in Nat \ {0} /\ accepted \in Seq(Buf) /\ n \in 0 .. TxNum
      /\ Holds(TxNum, dma.tx, txWrite, txBufPtrs, accepted) /\ Owns(TxNum, dma.tx, TxHeld, n)
  BY DEF NetInv, NetTypes, GmacTypeOK, TxSlot, TxRing, Holds
<1>2. Cardinality(TxHeld) = n
  BY <1>1, RingCount
<1>3. [k \in 1 .. n |-> txBufPtrs[(dma.tx + k - 1) % TxNum]] = accepted
  BY <1>1, RingList
<1> QED BY <1>2, <1>3 DEF InTxRing, TxHeld

\* Driver and engine agree on both rings: Receive finds the frames that came,
\* in order, and the engine the buffers Transmit took.
THEOREM NetRingsInOrder == Spec => []RingsInOrder
<1>1. NetInv => RingsInOrder
  BY RxRingRead, TxRingRead DEF NetInv, NetTypes, RingsInOrder
<1> QED BY NetInvariant, <1>1, PTL

\* The engine never waits for good with work to do.
THEOREM NetEngineGoesOn == Spec => []EngineGoesOn
<1>1. NetInv => EngineGoesOn
  BY DEF NetInv
<1> QED BY NetInvariant, <1>1, PTL

\* GetStatus reports every arrival.
THEOREM NetArrivalsReported == Spec => []ArrivalsReported
<1>1. NetInv => ArrivalsReported
  BY DEF NetInv, ArrivalsPending, ArrivalsReported
<1> QED BY NetInvariant, <1>1, PTL

----------------------------------------------------------------------------
(***************************************************************************)
(* The buffers of a caller with fewer in transmission than there are       *)
(* descriptors, at addresses GetStatus can return.                         *)
(***************************************************************************)
FewBuffers == MaxOut < TxNum /\ \A b \in Buf : b < Word

LEMMA OutRingStep ==
  ASSUME FewBuffers, NetTypes, NetStates, OutRing, [Next]_vars
  PROVE  OutRing'
<1> USE GmacAssumption DEF NetTypes, FewBuffers
<1>1. CASE UNCHANGED <<txRelease, txWrite, txBufPtrs, out>> /\ (state' = "Initialized" => state = "Initialized")
  BY <1>1 DEF OutRing
<1>2. CASE Initialize
  <2>1. out' = <<>> /\ txWrite' = 0 /\ txRelease' = 0
    BY <1>2 DEF Initialize, NetStates, Calls
  <2>2. Holds(TxNum, 0, 0, txBufPtrs', <<>>)
    BY RingEmpty, NextSlot DEF TxSlot
  <2> QED BY <2>1, <2>2 DEF OutRing
<1>3. CASE Stop \/ Shutdown
  BY <1>3 DEF Stop, Shutdown, OutRing
<1>4. ASSUME NEW recycle \in BOOLEAN, NEW interrupts, GetStatus(recycle, interrupts)
      PROVE  OutRing'
  <2>1. state = "Initialized" /\ state' = state /\ UNCHANGED <<txWrite, txBufPtrs>>
    BY <1>4 DEF GetStatus, Calls, txVars
  <2>2. CASE UNCHANGED <<txRelease, out>>
    BY <2>1, <2>2 DEF OutRing
  <2>3. CASE Recycle /\ txRelease # txWrite
    <3> DEFINE h == txRelease
               held == {i \in 0 .. TxNum - 1 : Dist(TxNum, h, i) < Len(out)}
    <3>1. h \in 0 .. TxNum - 1 /\ TxNum \in Nat \ {0} /\ out \in Seq(Buf) /\ h # txWrite
          /\ Holds(TxNum, h, txWrite, txBufPtrs, out) /\ Len(out) <= MaxOut
      BY <2>1, <2>3 DEF GmacTypeOK, TxSlot, OutRing
    <3>2. Owns(TxNum, h, held, Len(out))
      BY DEF Owns
    <3>3. txRelease' = (h + 1) % TxNum
          /\ out' = IF out # <<>> /\ Recycled(txBufPtrs[h]) = Head(out) THEN Tail(out) ELSE out
      BY <2>3 DEF Recycle, TxNext
    <3> HIDE DEF h, held
    <3>4. out # <<>>
      BY <3>1, SlotMoves DEF Holds
    <3>5. txBufPtrs[h] = Head(out)
      BY <3>1, <3>4, RingHead
    <3>6. Holds(TxNum, (h + 1) % TxNum, txWrite, txBufPtrs, Tail(out))
      BY <3>1, <3>2, <3>4, RingPop
    <3>7. Recycled(Head(out)) = Head(out)
      <4>1. Head(out) \in Buf
        BY <3>1, <3>4
      <4>2. \A b \in Buf : b \in Nat /\ b < Word
        OBVIOUS
      <4>3. \A b \in Nat : b < Word => b % Word = b
        OBVIOUS
      <4> QED BY <4>1, <4>2, <4>3 DEF Recycled
    <3>8. out' = Tail(out)
      BY <3>3, <3>4, <3>5, <3>7
    <3>9. Len(Tail(out)) <= MaxOut
      BY <3>1, <3>4
    <3> QED BY <2>1, <3>3, <3>6, <3>8, <3>9 DEF OutRing
  <2> QED BY <1>4, <2>2, <2>3 DEF GetStatus, Recycle
<1>5. ASSUME NEW b \in Buf, SendsAllowed(b), Transmit(b)
      PROVE  OutRing'
  <2>1. state = "Initialized" /\ state' = state /\ txRelease' = txRelease /\ Len(out) < MaxOut
    BY <1>5 DEF Transmit, Calls, modeVars, SendsAllowed
  <2>2. CASE UNCHANGED <<txVars, txBufPtrs, out>>
    BY <2>1, <2>2 DEF OutRing, txVars
  <2>3. CASE /\ txBufPtrs' = [txBufPtrs EXCEPT ![txWrite] = b]
             /\ txWrite' = TxNext(txWrite) /\ out' = Append(out, b)
    <3> DEFINE h == txRelease
               t == txWrite
               held == {i \in 0 .. TxNum - 1 : Dist(TxNum, h, i) < Len(out)}
    <3>1. h \in 0 .. TxNum - 1 /\ TxNum \in Nat \ {0} /\ out \in Seq(Buf) /\ t \in 0 .. TxNum - 1
          /\ Holds(TxNum, h, t, txBufPtrs, out) /\ Len(out) < TxNum
      BY <2>1 DEF GmacTypeOK, TxSlot, OutRing
    <3>2. Owns(TxNum, h, held, Len(out))
      BY DEF Owns
    <3>3. txBufPtrs'[t] = b /\ \A i \in (0 .. TxNum - 1) \ {t} : txBufPtrs'[i] = txBufPtrs[i]
      BY <2>3, <3>1 DEF GmacTypeOK, TxSlot
    <3>4. Len(Append(out, b)) <= MaxOut
      BY <2>1, <3>1
    <3>5. txWrite' = (t + 1) % TxNum
      BY <2>3 DEF TxNext
    <3> HIDE DEF t, held
    <3>6. Holds(TxNum, h, (t + 1) % TxNum, txBufPtrs', Append(out, b))
      BY <3>1, <3>2, <3>3, RingPush
    <3> QED BY <2>1, <2>3, <3>4, <3>5, <3>6 DEF OutRing
  <2> QED BY <1>5, <2>2, <2>3 DEF Transmit
<1>6. CASE Start \/ InitializeTimesOut \/ ExitBootServices \/ UNCHANGED vars
  BY <1>1, <1>6 DEF Start, InitializeTimesOut, ExitBootServices, vars, modeVars, txVars, relVars
<1>7. CASE \/ DmaRxSuspend \/ DmaTransmit \/ DmaTxSuspend \/ GetStatusClear \/ Receive \/ ReceiveDescriptor
           \/ ReceiveResume \/ ReceiveReturn \/ TransmitPoll
  BY <1>1, <1>7 DEF DmaRxSuspend, DmaTransmit, DmaTxSuspend, GetStatusClear, Receive, ReceiveDescriptor,
     ReceiveResume, ReceiveReturn, TransmitPoll, modeVars, txVars, relVars
<1>8. ASSUME NEW mac, NEW frame, StationAddress(mac) \/ DmaReceive(frame)
      PROVE  OutRing'
  BY <1>1, <1>8 DEF StationAddress, DmaReceive, modeVars, txVars, relVars
<1> QED BY <1>2, <1>3, <1>4, <1>5, <1>6, <1>7, <1>8 DEF Next, Engine, Protocol

LEMMA OutRingRead ==
  ASSUME FewBuffers, NetTypes, OutRing
  PROVE  BuffersKept
<1> USE GmacAssumption DEF NetTypes, FewBuffers
<1> SUFFICES ASSUME state = "Initialized"
             PROVE  out = [k \in 1 .. (txWrite + TxNum - txRelease) % TxNum |->
                             txBufPtrs[(txRelease + k - 1) % TxNum]]
  BY DEF BuffersKept
<1> DEFINE n == Len(out)
<1>1. /\ txRelease \in 0 .. TxNum - 1 /\ TxNum \in Nat \ {0} /\ out \in Seq(Buf)
      /\ n \in 0 .. TxNum - 1 /\ Holds(TxNum, txRelease, txWrite, txBufPtrs, out)
  BY DEF GmacTypeOK, TxSlot, OutRing
<1>2. [k \in 1 .. n |-> txBufPtrs[(txRelease + k - 1) % TxNum]] = out
  BY <1>1, RingList
<1>3. txWrite = SlotAt(TxNum, txRelease, n)
  BY <1>1 DEF Holds
<1> HIDE DEF n
<1>4. (txWrite + TxNum - txRelease) % TxNum = n
  <2>1. txWrite + TxNum - txRelease \in {n, TxNum + n}
    BY <1>1, <1>3 DEF SlotAt
  <2>2. (TxNum + n) % TxNum = n /\ n % TxNum = n
    BY <1>1, Turn
  <2> QED BY <2>1, <2>2
<1> QED BY <1>2, <1>4

\* A caller that has fewer buffers in transmission than the ring has
\* descriptors, all below 4 GB, gets every one of them back, in order.
THEOREM NetBuffersKept ==
  ASSUME MaxOut < TxNum, \A b \in Buf : b < Word
  PROVE  Spec => []BuffersKept
<1>1. FewBuffers
  BY DEF FewBuffers
<1>2. Init => OutRing
  BY GmacAssumption DEF Init, OutRing
<1>3. NetInv /\ OutRing /\ [Next]_vars => OutRing'
  BY <1>1, OutRingStep DEF NetInv
<1>4. NetInv /\ OutRing => BuffersKept
  BY <1>1, OutRingRead DEF NetInv
<1> QED BY NetInvariant, <1>2, <1>3, <1>4, PTL DEF Spec

----------------------------------------------------------------------------
(* The memory (MemoryMap): the page tables of PEI, the HOBs, and the banks that HighMemDxe finds in the   *)
(* device tree, whatever that tree says and whichever attributes are refused.                           *)
CONSTANTS Memories, MayRefuse
VARIABLES machine, step, table, gcd, node, left, refused, srat, type19
Mem == INSTANCE MemoryMap

MemorySpec == Mem!MemoryInit /\ [][Mem!MemoryNext]_Mem!memoryVars

\* A region of the page tables, and a range of pages, that do not touch the secure memory.
Spared(r) == r = [chip |-> r.chip, base |-> r.base, last |-> r.last, wb |-> r.wb] /\ r.wb \in BOOLEAN
             /\ ~Mem!Overlap(r, Mem!Secure)
Beside(s) == s[1] \in Nat /\ s[2] \in Nat /\ (s[1] + s[2] <= \h90000 \/ s[1] > \h90FFF)

\* A range of pages beside the secure memory is mapped without it; all ranges of both boards lie beside it.
LEMMA SpanSpared ==
  ASSUME NEW ch, NEW s, Beside(s)
  PROVE  Spared(Mem!Region(ch, s[1], s[2], FALSE))
<1> DEFINE x == s[1]
           y == s[2]
<1>1. x \in Nat /\ y \in Nat /\ (x + y <= \h90000 \/ x > \h90FFF)
  BY DEF Beside
<1> HIDE DEF x, y
<1>2. Spared(Mem!Region(ch, x, y, FALSE))
  BY <1>1, SMT DEF Spared, Mem!Region, Mem!Overlap, Mem!Secure
<1> QED BY <1>2, Zenon DEF x, y

LEMMA BmBeside == \A s \in Mem!BmDevices \cup Mem!BmWindows : Beside(s)
BY SMTT(60) DEF Mem!BmDevices, Mem!BmWindows, Beside

LEMMA BsBeside == \A s \in Mem!BsDevices \cup Mem!BsRegisters \cup Mem!BsWindows \cup Mem!BsUart : Beside(s)
<1>1. \A s \in Mem!BsDevices \cup Mem!BsUart : Beside(s)
  BY SMTT(60) DEF Mem!BsDevices, Mem!BsUart, Beside
<1>2. ASSUME NEW c \in 0 .. 4, NEW p \in Mem!Ports(c)
      PROVE  p \in 0 .. 3 /\ c + 1 \in 1 .. 5
  BY DEF Mem!Ports
<1>3. ASSUME NEW c \in 0 .. 4
      PROVE  Mem!Pcie(c) \in {\h39000, \h3D000, \h45000, \h49000, \h4D000}
  BY SMT DEF Mem!Pcie
<1>4. ASSUME NEW c \in 0 .. 4
      PROVE  Mem!Mmio(c) \in {\h70000000, \h78000000, \h50000000, \h40000000, \h60000000}
  BY SMT DEF Mem!Mmio
<1>5. ASSUME NEW c \in 0 .. 4, NEW s \in Mem!PcieSpans(c)
      PROVE  Beside(s)
  <2> DEFINE x == Mem!Pcie(c)
  <2>1. x \in Nat /\ x >= \h39000 /\ x <= \h4D000
    BY <1>3, SMT
  <2>2. \/ s = <<x - \h2C0, 8>>
        \/ \E p \in Mem!Ports(c) : s = <<x + p * \h400, \h300>> \/ s = <<x + p * \h400 + \h300, \h100>>
    BY SMT DEF Mem!PcieSpans
  <2> HIDE DEF x
  <2>3. CASE s = <<x - \h2C0, 8>>
    BY <2>1, <2>3, SMT DEF Beside
  <2>4. CASE \E p \in Mem!Ports(c) : s = <<x + p * \h400, \h300>> \/ s = <<x + p * \h400 + \h300, \h100>>
    <3>1. PICK p \in {0, 1, 2, 3} : s = <<x + p * \h400, \h300>> \/ s = <<x + p * \h400 + \h300, \h100>>
      BY <1>2, <2>4, SMT
    <3> QED BY <2>1, <3>1, SMT DEF Beside
  <2> QED BY <2>2, <2>3, <2>4, SMT
<1>6. ASSUME NEW c \in 0 .. 4, NEW s \in Mem!MmioSpans(c)
      PROVE  Beside(s)
  <2> DEFINE x == Mem!Mmio(c)
  <2>1. x \in Nat /\ x >= \h40000000
    BY <1>4, SMT
  <2>2. PICK p \in {0, 1, 2, 3} : s = <<x + p * \h4000000, \h4000000>>
    BY <1>2, SMT DEF Mem!MmioSpans
  <2> HIDE DEF x
  <2> QED BY <2>1, <2>2, SMT DEF Beside
<1>7. (\A s \in Mem!BsRegisters : Beside(s)) /\ (\A s \in Mem!BsWindows : Beside(s))
  BY <1>5, <1>6, Zenon DEF Mem!BsRegisters, Mem!BsWindows
<1> QED BY <1>1, <1>7, Zenon

\* No region of either board's page tables touches the secure memory.
LEMMA MapSpared == ASSUME NEW m PROVE \A r \in Mem!VirtualMap(m) : Spared(r)
<1>1. \A r \in Mem!SystemMemory : Spared(r)
  <2> DEFINE low == [chip |-> 0, base |-> \h80000, last |-> \h8FFFF, wb |-> TRUE]
             top == [chip |-> 0, base |-> \h91000, last |-> \hFFFFF, wb |-> TRUE]
  <2>1. Mem!SystemMemory = {low, top}
    BY SMT DEF Mem!SystemMemory, Mem!Region
  <2>2. Spared(low) /\ Spared(top)
    BY SMT DEF Spared, Mem!Overlap, Mem!Secure
  <2> HIDE DEF low, top
  <2> QED BY <2>1, <2>2, Zenon
<1>2. ASSUME NEW ch, NEW S, \A s \in S : Beside(s), NEW r \in Mem!Devices(ch, S)
      PROVE  Spared(r)
  <2>1. PICK s \in S : r = Mem!Region(ch, s[1], s[2], FALSE)
    BY Zenon DEF Mem!Devices
  <2> QED BY <1>2, <2>1, SpanSpared, Zenon
<1>3. \A r \in Mem!BmMap : Spared(r)
  <2>1. (\A s \in Mem!BmDevices : Beside(s)) /\ (\A s \in Mem!BmWindows : Beside(s))
    BY BmBeside, Zenon
  <2> QED BY <1>1, <1>2, <2>1, Zenon DEF Mem!BmMap
<1>4. \A r \in Mem!BsMap(m.chips) : Spared(r)
  <2>1. /\ \A s \in Mem!BsDevices \cup Mem!BsRegisters \cup Mem!BsWindows : Beside(s)
        /\ \A s \in Mem!BsUart : Beside(s)
    BY BsBeside, Zenon
  <2>2. \A r \in Mem!Devices(0, Mem!BsUart) : Spared(r)
    BY <1>2, <2>1, Zenon
  <2>3. \A r \in UNION {Mem!Devices(c, Mem!BsDevices \cup Mem!BsRegisters \cup Mem!BsWindows) : c \in 0 .. m.chips - 1} : Spared(r)
    <3> SUFFICES ASSUME NEW c \in 0 .. m.chips - 1, NEW r \in Mem!Devices(c, Mem!BsDevices \cup Mem!BsRegisters \cup Mem!BsWindows)
                 PROVE  Spared(r)
      BY Zenon
    <3> QED BY <1>2, <2>1, Zenon
  <2> QED BY <1>1, <2>2, <2>3, Zenon DEF Mem!BsMap
<1> QED BY <1>3, <1>4, Zenon DEF Mem!VirtualMap

\* What is mapped as memory is the memory of the board.
LEMMA MapMemory ==
  ASSUME NEW m, NEW r \in Mem!VirtualMap(m)
  PROVE  Mem!SystemMemory \subseteq Mem!VirtualMap(m) /\ (r.wb => r \in Mem!SystemMemory)
<1>1. ASSUME NEW ch, NEW S, NEW s \in Mem!Devices(ch, S)
      PROVE  s.wb = FALSE
  <2>1. PICK d \in S : s = Mem!Region(ch, d[1], d[2], FALSE)
    BY Zenon DEF Mem!Devices
  <2>2. \A c, x, y : Mem!Region(c, x, y, FALSE).wb = FALSE
    BY SMT DEF Mem!Region
  <2> QED BY <2>1, <2>2, Zenon
<1>2. CASE Mem!VirtualMap(m) = Mem!BmMap
  BY <1>1, <1>2, Zenon DEF Mem!BmMap
<1>3. CASE Mem!VirtualMap(m) = Mem!BsMap(m.chips)
  <2>1. r \in Mem!SystemMemory \/ \E ch, S : r \in Mem!Devices(ch, S)
    BY <1>3, Zenon DEF Mem!BsMap
  <2> QED BY <1>1, <1>3, <2>1, Zenon DEF Mem!BsMap
<1> QED BY <1>2, <1>3, Zenon DEF Mem!VirtualMap

\* Cells that are a list of banks, an address and a size each; an address is a chip and a page.
Words == (Nat \X Nat) \cup Nat
BankList(cells) == /\ cells \in Seq(Words) /\ Len(cells) % 2 = 0
                 /\ \A k \in 1 .. Len(cells) : IF k % 2 = 1 THEN cells[k] \in Nat \X Nat ELSE cells[k] \in Nat
\* Nodes start at places of their own, and the regs of memory nodes are lists of banks.
Proper(dt) ==
  /\ Len(dt) \in Nat /\ DOMAIN dt = 1 .. Len(dt)
  /\ \A i, j \in DOMAIN dt : Mem!Starts(dt)[i] = Mem!Starts(dt)[j] => i = j
  /\ \A i \in DOMAIN dt : ("device_type" \in DOMAIN dt[i].props /\ dt[i].props["device_type"] = "memory"
                             /\ "reg" \in DOMAIN dt[i].props /\ Len(dt[i].props["reg"]) % 2 = 0) => BankList(dt[i].props["reg"])

\* The node that the search finds is a memory node, and its reg lists banks.
LEMMA RegFound ==
  ASSUME NEW dt, Proper(dt), NEW prev, Mem!FindNextMemoryNodeReg(dt, prev) # Mem!NoNode
  PROVE  BankList(Mem!GetNodeProperty(dt, Mem!FindNextMemoryNodeReg(dt, prev), "reg"))
<1> DEFINE I == {i \in Mem!After(dt, prev) :
                   /\ Mem!Enabled(dt[i])
                   /\ "device_type" \in DOMAIN dt[i].props /\ dt[i].props["device_type"] = "memory"
                   /\ "reg" \in DOMAIN dt[i].props /\ Len(dt[i].props["reg"]) % 2 = 0}
           k == Mem!Min(I)
           o == Mem!FindNextMemoryNodeReg(dt, prev)
<1>1. o = Mem!First(dt, I)
  BY DEF Mem!FindNextMemoryNodeReg
<1>2. I \subseteq DOMAIN dt /\ I \subseteq Nat /\ \A i \in I : BankList(dt[i].props["reg"])
  <2>1. I \subseteq DOMAIN dt
    BY Zenon DEF Mem!After
  <2>2. DOMAIN dt \subseteq Nat
    BY DEF Proper
  <2> QED BY <2>1, <2>2, Zenon DEF Proper
<1> HIDE DEF I
<1>3. I # {} /\ o = Mem!Starts(dt)[k]
  BY <1>1, Zenon DEF Mem!First
<1>4. k \in I
  <2>1. \E x \in I : \A y \in I : x <= y
    BY <1>2, <1>3, NatMin, Zenon
  <2> QED BY <2>1, Zenon DEF Mem!Min
<1>5. k \in Mem!At(dt, o) /\ \A i \in Mem!At(dt, o) : i = k
  <2>1. k \in DOMAIN dt
    BY <1>2, <1>4, Zenon
  <2> HIDE DEF k, o
  <2> QED BY <1>3, <2>1, Zenon DEF Mem!At, Proper
<1>6. (CHOOSE i \in Mem!At(dt, o) : TRUE) = k
  <2> HIDE DEF k, o
  <2> QED BY <1>5, Zenon
<1>7. Mem!GetNodeProperty(dt, o, "reg") = dt[k].props["reg"]
  BY <1>6, Zenon DEF Mem!GetNodeProperty
<1> QED BY <1>2, <1>4, <1>7, Zenon

Piece(g) == g = [chip |-> g.chip, base |-> g.base, last |-> g.last, reserved |-> g.reserved]
            /\ g.chip \in Int /\ g.base \in Int /\ g.last \in Int /\ g.base <= g.last /\ g.reserved \in BOOLEAN
\* The boot memory map is made of pieces that lie apart, the secure memory one of them; what the page tables have as
\* memory are pieces that can be allocated; and all of these are mapped, but where their attributes were refused.
MemoryInv ==
  /\ machine \in Memories /\ step \in {"reset", "dxe"} /\ BankList(left)
  /\ step = "reset" => table = {} /\ gcd = {}
  /\ step = "dxe" =>
       /\ Mem!SystemHobs \subseteq gcd
       /\ \A g \in gcd : Piece(g)
       /\ \A g, h \in gcd : g # h => ~Mem!Overlap(g, h)
       /\ \A r \in table : Spared(r) /\ (r.wb => \E g \in gcd : ~g.reserved /\ Mem!Span(g) = Mem!Span(r))
       /\ Mem!HandedOutIsMapped

\* No memory is mapped twice.
MappedOnce == \A r, s \in table : r.wb /\ s.wb /\ r # s => ~Mem!Overlap(r, s)

\* The resources that PEI reports lie apart, and are the memory that the page tables map.
LEMMA HobsApart ==
  /\ \A g \in Mem!SystemHobs : Piece(g)
  /\ \A g, h \in Mem!SystemHobs : g # h => ~Mem!Overlap(g, h)
  /\ \A r \in Mem!SystemMemory : \E g \in Mem!SystemHobs : ~g.reserved /\ Mem!Span(g) = Mem!Span(r)
  /\ \A g \in Mem!SystemHobs : ~g.reserved => \E r \in Mem!SystemMemory : r.wb /\ Mem!Within(g, r)
<1> DEFINE low == [chip |-> 0, base |-> \h80000, last |-> \h8FFFF, reserved |-> FALSE]
           sec == [chip |-> 0, base |-> \h90000, last |-> \h90FFF, reserved |-> TRUE]
           top == [chip |-> 0, base |-> \h91000, last |-> \hFFFFF, reserved |-> FALSE]
<1>1. \A g \in Mem!SystemHobs : Piece(g)
  <2>1. Piece(low)
    BY SMT DEF Piece
  <2>2. Piece(sec)
    BY SMT DEF Piece
  <2>3. Piece(top)
    BY SMT DEF Piece
  <2>4. Mem!SystemHobs = {low, sec, top}
    BY SMT DEF Mem!SystemHobs
  <2> HIDE DEF low, sec, top
  <2> QED BY <2>1, <2>2, <2>3, <2>4, Zenon
<1>2. \A g, h \in Mem!SystemHobs : g # h => ~Mem!Overlap(g, h)
  <2>1. ~Mem!Overlap(low, sec) /\ ~Mem!Overlap(sec, low)
    BY SMT DEF Mem!Overlap
  <2>2. ~Mem!Overlap(low, top) /\ ~Mem!Overlap(top, low)
    BY SMT DEF Mem!Overlap
  <2>3. ~Mem!Overlap(sec, top) /\ ~Mem!Overlap(top, sec)
    BY SMT DEF Mem!Overlap
  <2>4. Mem!SystemHobs = {low, sec, top}
    BY SMT DEF Mem!SystemHobs
  <2> HIDE DEF low, sec, top
  <2> QED BY <2>1, <2>2, <2>3, <2>4, Zenon
<1>3. Mem!SystemMemory = {[chip |-> 0, base |-> \h80000, last |-> \h8FFFF, wb |-> TRUE],
                          [chip |-> 0, base |-> \h91000, last |-> \hFFFFF, wb |-> TRUE]}
  BY SMT DEF Mem!SystemMemory, Mem!Region
<1>4. \A r \in Mem!SystemMemory : \E g \in Mem!SystemHobs : ~g.reserved /\ Mem!Span(g) = Mem!Span(r)
  BY <1>3, SMT DEF Mem!SystemHobs, Mem!Span
<1>5. \A g \in Mem!SystemHobs : ~g.reserved => \E r \in Mem!SystemMemory : r.wb /\ Mem!Within(g, r)
  BY <1>3, SMT DEF Mem!SystemHobs, Mem!Within
<1> QED BY <1>1, <1>2, <1>4, <1>5, Zenon

\* A bank, and what is left of the list behind it.
LEMMA FirstBank ==
  ASSUME NEW cells, BankList(cells), cells # <<>>
  PROVE  /\ BankList(SubSeq(cells, 3, Len(cells)))
         /\ \A b : b = Mem!Bank(cells, 1) => b = [chip |-> b.chip, base |-> b.base, last |-> b.last]
                                           /\ b.chip \in Int /\ b.base \in Int /\ b.last \in Int
<1> DEFINE n == Len(cells)
           u == SubSeq(cells, 3, n)
<1>1. n \in Nat /\ n % 2 = 0 /\ cells \in Seq(Words) /\ n # 0
  BY DEF BankList
<1>2. n >= 2
  BY <1>1
<1>3. cells[1] \in Nat \X Nat /\ cells[2] \in Nat
  <2>1. 1 \in 1 .. n /\ 2 \in 1 .. n /\ 1 % 2 = 1 /\ 2 % 2 = 0
    BY <1>1, <1>2
  <2> HIDE DEF n
  <2>2. \A k \in 1 .. n : IF k % 2 = 1 THEN cells[k] \in Nat \X Nat ELSE cells[k] \in Nat
    BY DEF BankList, n
  <2> QED BY <2>1, <2>2
<1>4. /\ u \in Seq(Words) /\ Len(u) = n - 2
      /\ \A k \in 1 .. n - 2 : u[k] = cells[k + 2]
  <2> HIDE DEF n
  <2>1. \A k \in 3 .. n : cells[k] \in Words
    <3>1. \A k \in 1 .. Len(cells) : cells[k] \in Words
      BY <1>1
    <3> QED BY <1>1, <3>1 DEF n
  <2>2. 3 \in Int /\ n \in Int
    BY <1>1
  <2>3. /\ u \in Seq(Words) /\ Len(u) = IF 3 <= n THEN n - 3 + 1 ELSE 0
        /\ \A k \in 1 .. n - 3 + 1 : u[k] = cells[3 + k - 1]
    BY <2>1, <2>2, SubSeqProperties
  <2> HIDE DEF u
  <2> QED BY <1>1, <1>2, <2>3
<1>5. BankList(u)
  <2>1. (n - 2) % 2 = 0
    BY <1>1
  <2>2. ASSUME NEW k \in 1 .. n - 2
        PROVE  IF k % 2 = 1 THEN u[k] \in Nat \X Nat ELSE u[k] \in Nat
    <3>1. k + 2 \in 1 .. n /\ (k + 2) % 2 = k % 2 /\ u[k] = cells[k + 2]
      BY <1>1, <1>4
    <3> HIDE DEF n, u
    <3>2. IF (k + 2) % 2 = 1 THEN cells[k + 2] \in Nat \X Nat ELSE cells[k + 2] \in Nat
      BY <3>1 DEF BankList, n
    <3> QED BY <3>1, <3>2
  <2> HIDE DEF n, u
  <2> QED BY <1>4, <2>1, <2>2 DEF BankList
<1>6. ASSUME NEW b, b = Mem!Bank(cells, 1)
      PROVE  b = [chip |-> b.chip, base |-> b.base, last |-> b.last] /\ b.chip \in Int /\ b.base \in Int /\ b.last \in Int
  <2>1. b = [chip |-> cells[1][1], base |-> cells[1][2], last |-> cells[1][2] + (cells[2] - 1)]
    BY <1>6 DEF Mem!Bank
  <2> QED BY <1>3, <2>1
<1> QED BY <1>5, <1>6 DEF n, u

\* HighMemDxe adds what overlaps nothing, so the secure memory is not in it.
LEMMA BankStep ==
  ASSUME MemoryInv, Mem!AddBank
  PROVE  MemoryInv'
<1> DEFINE b == Mem!Bank(left, 1)
           g0 == [chip |-> b.chip, base |-> b.base, last |-> b.last, reserved |-> FALSE]
           r0 == [chip |-> b.chip, base |-> b.base, last |-> b.last, wb |-> TRUE]
<1>1. step = "dxe" /\ left # <<>> /\ UNCHANGED <<machine, step>> /\ left' = SubSeq(left, 3, Len(left)) /\ BankList(left)
  BY DEF Mem!AddBank, MemoryInv
<1>2. BankList(left')
  BY <1>1, FirstBank
<1>3. b = [chip |-> b.chip, base |-> b.base, last |-> b.last] /\ b.chip \in Int /\ b.base \in Int /\ b.last \in Int
  BY <1>1, FirstBank
<1>4. \/ UNCHANGED <<gcd, table, refused>>
      \/ /\ Mem!AddMemorySpace(b) /\ gcd' = gcd \cup {g0}
         /\ \/ table' = table \cup {r0} /\ UNCHANGED refused
            \/ refused' = refused \cup {b} /\ UNCHANGED table
  BY Zenon DEF Mem!AddBank
<1> HIDE DEF b
<1>5. CASE UNCHANGED <<gcd, table, refused>>
  BY <1>1, <1>2, <1>5 DEF MemoryInv, Mem!HandedOutIsMapped
<1>6. CASE /\ Mem!AddMemorySpace(b) /\ gcd' = gcd \cup {g0}
           /\ \/ table' = table \cup {r0} /\ UNCHANGED refused
              \/ refused' = refused \cup {b} /\ UNCHANGED table
  <2>0. /\ Mem!SystemHobs \subseteq gcd /\ \A g \in gcd : Piece(g)
        /\ \A g, h \in gcd : g # h => ~Mem!Overlap(g, h)
        /\ \A r \in table : Spared(r) /\ (r.wb => \E g \in gcd : ~g.reserved /\ Mem!Span(g) = Mem!Span(r))
        /\ Mem!HandedOutIsMapped
    BY <1>1 DEF MemoryInv
  <2>1. Piece(g0) /\ Mem!Span(g0) = b /\ Mem!Span(r0) = b /\ ~g0.reserved /\ Mem!Within(g0, r0) /\ r0.wb
    <3>1. b.base <= b.last
      BY <1>6 DEF Mem!AddMemorySpace
    <3> QED BY <1>3, <3>1 DEF Piece, Mem!Span, Mem!Within
  <2>2. \A h \in gcd : ~Mem!Overlap(g0, h) /\ ~Mem!Overlap(h, g0)
    <3>1. \A h \in gcd : ~Mem!Overlap(b, h)
      BY <1>6 DEF Mem!AddMemorySpace
    <3> QED BY <3>1 DEF Mem!Overlap
  <2>3. Spared(r0)
    <3> DEFINE s == [chip |-> 0, base |-> \h90000, last |-> \h90FFF, reserved |-> TRUE]
    <3>1. s \in gcd
      BY <2>0, SMT DEF Mem!SystemHobs
    <3>2. ~Mem!Overlap(g0, s)
      <4> HIDE DEF s, g0
      <4> QED BY <2>2, <3>1, Zenon
    <3> QED BY <3>2, SMT DEF Spared, Mem!Overlap, Mem!Secure
  <2> HIDE DEF g0, r0
  <2>4. \A g \in gcd' : Piece(g)
    BY <1>6, <2>0, <2>1, Zenon
  <2>5. \A g, h \in gcd' : g # h => ~Mem!Overlap(g, h)
    BY <1>6, <2>0, <2>2, Zenon
  <2>6. \A r \in table' : Spared(r) /\ (r.wb => \E g \in gcd' : ~g.reserved /\ Mem!Span(g) = Mem!Span(r))
    BY <1>6, <2>0, <2>1, <2>3, Zenon
  <2>7. \A g \in gcd' : ~g.reserved => Mem!Span(g) \in refused' \/ \E r \in table' : r.wb /\ Mem!Within(g, r)
    BY <1>6, <2>0, <2>1, Zenon DEF Mem!HandedOutIsMapped
  <2>8. Mem!HandedOutIsMapped' /\ Mem!SystemHobs \subseteq gcd'
    BY <1>6, <2>0, <2>7, Zenon DEF Mem!HandedOutIsMapped
  <2> QED BY <1>1, <1>2, <2>4, <2>5, <2>6, <2>8 DEF MemoryInv
<1> QED BY <1>4, <1>5, <1>6

LEMMA MemoryInvariant ==
  ASSUME \A m \in Memories : Proper(m.tree)
  PROVE  MemorySpec => []MemoryInv
<1>1. Mem!MemoryInit => MemoryInv
  BY EmptySeq DEF Mem!MemoryInit, MemoryInv, BankList
<1>2. MemoryInv /\ [Mem!MemoryNext]_Mem!memoryVars => MemoryInv'
  <2> SUFFICES ASSUME MemoryInv, [Mem!MemoryNext]_Mem!memoryVars PROVE MemoryInv'
    OBVIOUS
  <2>1. ASSUME UNCHANGED <<machine, step, table, gcd, refused>>, left' = left \/ BankList(left')
        PROVE  MemoryInv'
    BY <2>1 DEF MemoryInv, Mem!HandedOutIsMapped
  <2>2. CASE UNCHANGED Mem!memoryVars
    BY <2>1, <2>2 DEF Mem!memoryVars
  <2>3. CASE Mem!MemoryPeim
    <3>1. /\ step' = "dxe" /\ gcd' = Mem!SystemHobs /\ table' = Mem!VirtualMap(machine)
          /\ UNCHANGED <<machine, left>> /\ BankList(left) /\ machine \in Memories
      BY <2>3 DEF Mem!MemoryPeim, MemoryInv
    <3>2. \A r \in Mem!VirtualMap(machine) : Spared(r) /\ (r.wb => r \in Mem!SystemMemory)
      BY MapSpared, MapMemory, Zenon
    <3>3. \A r \in table' : Spared(r) /\ (r.wb => \E g \in gcd' : ~g.reserved /\ Mem!Span(g) = Mem!Span(r))
      BY <3>1, <3>2, HobsApart, Zenon
    <3>4. Mem!SystemMemory \subseteq Mem!VirtualMap(machine)
      BY Zenon DEF Mem!VirtualMap, Mem!BmMap, Mem!BsMap
    <3>5. \A g \in gcd' : ~g.reserved => \E r \in table' : r.wb /\ Mem!Within(g, r)
      BY <3>1, <3>4, HobsApart, Zenon
    <3>6. Mem!HandedOutIsMapped'
      BY <3>5, Zenon DEF Mem!HandedOutIsMapped
    <3>7. (\A g \in gcd' : Piece(g)) /\ (\A g, h \in gcd' : g # h => ~Mem!Overlap(g, h)) /\ Mem!SystemHobs \subseteq gcd'
      BY <3>1, HobsApart, Zenon
    <3> QED BY <3>1, <3>3, <3>6, <3>7 DEF MemoryInv
  <2>4. CASE Mem!NextMemoryNode
    <3>1. PICK p : \/ UNCHANGED left
                   \/ /\ Mem!FindNextMemoryNodeReg(machine.tree, p) # Mem!NoNode
                      /\ left' = Mem!GetNodeProperty(machine.tree, Mem!FindNextMemoryNodeReg(machine.tree, p), "reg")
      BY <2>4, Zenon DEF Mem!NextMemoryNode, Mem!FindMemoryNodeReg
    <3>2. Proper(machine.tree)
      BY DEF MemoryInv
    <3>3. left' = left \/ BankList(left')
      BY <3>1, <3>2, RegFound, Zenon
    <3> QED BY <2>1, <2>4, <3>3, Zenon DEF Mem!NextMemoryNode
  <2>5. CASE Mem!AddBank
    BY <2>5, BankStep
  <2>6. CASE Mem!SratInit
    BY <2>1, <2>6, Zenon DEF Mem!SratInit
  <2>7. CASE Mem!SmbiosTable19
    BY <2>1, <2>7, Zenon DEF Mem!SmbiosTable19
  <2> QED BY <2>2, <2>3, <2>4, <2>5, <2>6, <2>7 DEF Mem!MemoryNext
<1> QED BY <1>1, <1>2, PTL DEF MemorySpec

\* No page of the secure world's memory is ever mapped or handed out, all memory handed out is mapped write-back
\* unless its attributes were refused, and no memory is mapped twice: for every device tree whose nodes start at
\* places of their own and whose memory nodes list banks, be they wrong, overlapping or repeated
\* (ArmPlatformGetVirtualMemoryMap, MemoryPeim, InitializeHighMemDxe).
THEOREM SecureMemoryStays ==
  ASSUME \A m \in Memories : Proper(m.tree)
  PROVE  MemorySpec => [](Mem!SecureApart /\ Mem!HandedOutIsMapped /\ MappedOnce)
<1>1. MemoryInv => Mem!SecureApart /\ Mem!HandedOutIsMapped /\ MappedOnce
  <2> SUFFICES ASSUME MemoryInv PROVE Mem!SecureApart /\ Mem!HandedOutIsMapped /\ MappedOnce
    OBVIOUS
  <2>1. CASE step = "reset"
    BY <2>1 DEF MemoryInv, Mem!SecureApart, Mem!HandedOutIsMapped, MappedOnce
  <2>2. CASE step = "dxe"
    <3>0. /\ Mem!SystemHobs \subseteq gcd /\ \A g \in gcd : Piece(g)
          /\ \A g, h \in gcd : g # h => ~Mem!Overlap(g, h)
          /\ \A r \in table : Spared(r) /\ (r.wb => \E g \in gcd : ~g.reserved /\ Mem!Span(g) = Mem!Span(r))
          /\ Mem!HandedOutIsMapped
      BY <2>2 DEF MemoryInv
    <3>1. \A g \in gcd : ~g.reserved => ~Mem!Overlap(g, Mem!Secure)
      <4> SUFFICES ASSUME NEW g \in gcd, ~g.reserved PROVE ~Mem!Overlap(g, Mem!Secure)
        OBVIOUS
      <4> DEFINE s == [chip |-> 0, base |-> \h90000, last |-> \h90FFF, reserved |-> TRUE]
      <4>1. s \in gcd
        BY <3>0, SMT DEF Mem!SystemHobs
      <4>2. g # s
        BY SMT
      <4>3. ~Mem!Overlap(g, s)
        <5> HIDE DEF s
        <5> QED BY <3>0, <4>1, <4>2, Zenon
      <4> QED BY <4>3, SMT DEF Mem!Overlap, Mem!Secure
    <3>2. ASSUME NEW r \in table, NEW s \in table, r.wb, s.wb, r # s
          PROVE  ~Mem!Overlap(r, s)
      <4>1. PICK g \in gcd : Mem!Span(g) = Mem!Span(r)
        BY <3>0, <3>2
      <4>2. PICK h \in gcd : Mem!Span(h) = Mem!Span(s)
        BY <3>0, <3>2
      <4>3. /\ r = [chip |-> r.chip, base |-> r.base, last |-> r.last, wb |-> r.wb] /\ r.wb = TRUE
            /\ s = [chip |-> s.chip, base |-> s.base, last |-> s.last, wb |-> s.wb] /\ s.wb = TRUE
        BY <3>0, <3>2 DEF Spared
      <4>4. /\ g.chip = r.chip /\ g.base = r.base /\ g.last = r.last
            /\ h.chip = s.chip /\ h.base = s.base /\ h.last = s.last
        BY <4>1, <4>2 DEF Mem!Span
      <4>5. g # h
        BY <3>2, <4>3, <4>4
      <4>6. ~Mem!Overlap(g, h)
        BY <3>0, <4>5
      <4> QED BY <4>4, <4>6 DEF Mem!Overlap
    <3> QED BY <3>0, <3>1, <3>2 DEF Mem!SecureApart, MappedOnce, Spared
  <2> QED BY <2>1, <2>2 DEF MemoryInv
<1> QED BY <1>1, MemoryInvariant, PTL
=============================================================================
