------------------------ MODULE PciHostBridge_proofs ------------------------
(***************************************************************************)
(* Accesses to configuration registers and to buffers reach what they      *)
(* name, and ports are told the speed of their devices, for every size of  *)
(* buses and windows, every device tree and every behaviour of the links.  *)
(***************************************************************************)
EXTENDS PciHostBridge, TLAPS

LEMMA Geometry ==
  /\ Dev \in Nat \ {0} /\ Bus \in Nat \ {0} /\ Granule \in Nat \ {0} /\ Buses \in Nat \ {0} /\ Ports \in Nat \ {0}
  /\ Bus % Dev = 0 /\ Dev <= Granule /\ Granule <= Bus
  BY PciAssumption DEF PciAssumption

----------------------------------------------------------------------------
(***************************************************************************)
(* Buffers.                                                                *)
(***************************************************************************)
Bytes(a) == a.at .. a.at + a.width - 1

LEMMA FewNumbers == 1 .. 0 = {} /\ 1 .. 1 = {1} /\ 1 .. 2 = {1, 2}
  OBVIOUS

\* The accesses of a buffer, one kind after the other, are aligned, apart from each other, and
\* cover its bytes.
THEOREM SplitCovers ==
  ASSUME NEW start \in Nat, NEW size \in Nat
  PROVE  /\ UNION {Bytes(a) : a \in Split(start, size)} = start .. start + size - 1
         /\ \A a \in Split(start, size) : a.at % a.width = 0
         /\ \A a, c \in Split(start, size) : a = c \/ Bytes(a) \cap Bytes(c) = {}
<1> DEFINE b  == IF size > 0 /\ start % 2 = 1 THEN 1 ELSE 0
           w  == IF size - b >= 2 /\ (start + b) % 4 = 2 THEN 2 ELSE 0
           n  == (size - b - w) \div 4
           at == start + b + w + 4 * n
           r  == size - b - w - 4 * n
           Byte(a)  == b = 1 /\ a = Access(start, 1)
           Half(a)  == w = 2 /\ a = Access(start + b, 2)
           Word(a)  == \E k \in 1 .. n : a = Access(start + b + w + 4 * (k - 1), 4)
           Half2(a) == r >= 2 /\ a = Access(at, 2)
           Byte2(a) == r % 2 = 1 /\ a = Access(at + 2 * (r \div 2), 1)
<1>1. /\ b \in 0 .. 1 /\ b <= size /\ (size - b > 0 => (start + b) % 2 = 0)
  OBVIOUS
<1>2. /\ w \in {0, 2} /\ b + w <= size /\ (w = 2 => (start + b) % 2 = 0)
      /\ size - b - w >= 2 => (start + b + w) % 4 = 0
  BY <1>1
<1>3. n \in Nat /\ r \in 0 .. 3 /\ size = b + w + 4 * n + r /\ at \in Nat /\ at = start + b + w + 4 * n
  BY <1>1, <1>2
<1>4. n > 0 \/ r >= 2 => (start + b + w) % 4 = 0
  BY <1>1, <1>2, <1>3
<1>5. r >= 2 => at % 4 = 0
  BY <1>3, <1>4
<1>6. /\ 1 .. r \div 2 = (IF r >= 2 THEN {1} ELSE {}) /\ 1 .. r % 2 = (IF r % 2 = 1 THEN {1} ELSE {})
      /\ 1 .. b = (IF b = 1 THEN {1} ELSE {}) /\ 1 .. w = (IF w = 2 THEN {1, 2} ELSE {})
  <2>1. (r >= 2 => r \div 2 = 1) /\ (r < 2 => r \div 2 = 0) /\ r % 2 \in 0 .. 1
    BY <1>3
  <2> DEFINE h == r \div 2
             o == r % 2
  <2>2. (r >= 2 => h = 1) /\ (r < 2 => h = 0) /\ o \in {0, 1} /\ r \in 0 .. 3 /\ b \in {0, 1} /\ w \in {0, 2}
    BY <1>1, <1>2, <1>3, <2>1
  <2> HIDE DEF b, w, n, at, r, h, o
  <2>3. 1 .. h = IF r >= 2 THEN {1} ELSE {}
    BY <2>2, FewNumbers
  <2>4. 1 .. o = IF o = 1 THEN {1} ELSE {}
    BY <2>2, FewNumbers
  <2>5. 1 .. b = IF b = 1 THEN {1} ELSE {}
    BY <2>2, FewNumbers
  <2>6. 1 .. w = IF w = 2 THEN {1, 2} ELSE {}
    BY <2>2, FewNumbers
  <2> QED BY <2>3, <2>4, <2>5, <2>6 DEF h, o
<1>7. Split(start, size) =
        {Access(start, 1) : x \in 1 .. b} \cup {Access(start + b, 2) : x \in 1 .. w}
        \cup {Access(start + b + w + 4 * (k - 1), 4) : k \in 1 .. n}
        \cup {Access(at, 2) : x \in 1 .. r \div 2}
        \cup {Access(at + 2 * (r \div 2), 1) : x \in 1 .. r % 2}
  BY DEF Split
<1> HIDE DEF b, w, n, at, r
<1>8. \A a : a \in Split(start, size) <=> Byte(a) \/ Half(a) \/ Word(a) \/ Half2(a) \/ Byte2(a)
  BY <1>6, <1>7
<1> HIDE DEF Byte, Half, Word, Half2, Byte2
<1> DEFINE m(k) == start + b + w + 4 * (k - 1)
\* Where the bytes of each kind lie.
<1>10. ASSUME NEW a, Byte(a)
       PROVE  b = 1 /\ a = Access(start, 1) /\ a.at = start /\ a.width = 1 /\ Bytes(a) = start .. start
  BY <1>10 DEF Byte, Access, Bytes
<1>11. ASSUME NEW a, Half(a)
       PROVE  w = 2 /\ a.at = start + b /\ a.width = 2 /\ Bytes(a) = start + b .. start + b + 1
  BY <1>1, <1>11 DEF Half, Access, Bytes
<1>12. ASSUME NEW a, Word(a)
       PROVE  \E k \in 1 .. n : a.at = m(k) /\ a.width = 4 /\ a = Access(m(k), 4) /\ Bytes(a) = m(k) .. m(k) + 3
  BY <1>1, <1>2, <1>3, <1>12 DEF Word, Access, Bytes
<1>13. ASSUME NEW a, Half2(a)
       PROVE  r >= 2 /\ a.at = at /\ a.width = 2 /\ a = Access(at, 2) /\ Bytes(a) = at .. at + 1
  BY <1>3, <1>13 DEF Half2, Access, Bytes
<1>14. ASSUME NEW a, Byte2(a)
       PROVE  /\ r % 2 = 1 /\ a.at = at + 2 * (r \div 2) /\ a.width = 1
              /\ Bytes(a) = at + 2 * (r \div 2) .. at + 2 * (r \div 2)
  BY <1>3, <1>14 DEF Byte2, Access, Bytes
<1>20. ASSUME NEW a \in Split(start, size)
       PROVE  a.at % a.width = 0
  <2>1. CASE Byte(a)
    BY <1>10, <2>1
  <2>2. CASE Half(a)
    BY <1>2, <1>11, <2>2
  <2>3. CASE Word(a)
    <3>1. PICK k \in 1 .. n : a.at = m(k) /\ a.width = 4
      BY <1>12, <2>3
    <3> QED BY <1>1, <1>2, <1>3, <1>4, <3>1
  <2>4. CASE Half2(a)
    BY <1>3, <1>5, <1>13, <2>4
  <2>5. CASE Byte2(a)
    BY <1>3, <1>14, <2>5
  <2> QED BY <1>8, <2>1, <2>2, <2>3, <2>4, <2>5
<1>21. ASSUME NEW a \in Split(start, size), NEW x \in Bytes(a)
       PROVE  x \in start .. start + size - 1
  <2>1. CASE Byte(a)
    BY <1>1, <1>2, <1>3, <1>10, <1>21, <2>1
  <2>2. CASE Half(a)
    BY <1>1, <1>2, <1>3, <1>11, <1>21, <2>2
  <2>3. CASE Word(a)
    <3>1. PICK k \in 1 .. n : Bytes(a) = m(k) .. m(k) + 3
      BY <1>12, <2>3
    <3> QED BY <1>1, <1>2, <1>3, <1>21, <3>1
  <2>4. CASE Half2(a)
    BY <1>1, <1>2, <1>3, <1>13, <1>21, <2>4
  <2>5. CASE Byte2(a)
    BY <1>1, <1>2, <1>3, <1>14, <1>21, <2>5
  <2> QED BY <1>8, <2>1, <2>2, <2>3, <2>4, <2>5
<1>22. ASSUME NEW x \in start .. start + size - 1
       PROVE  \E a \in Split(start, size) : x \in Bytes(a)
  <2>1. x \in Nat /\ start <= x /\ x < start + size
    OBVIOUS
  <2>2. CASE x < start + b
    <3>1. Byte(Access(start, 1)) /\ x = start
      BY <1>1, <2>1, <2>2 DEF Byte
    <3> QED BY <1>8, <1>10, <3>1
  <2>3. CASE start + b <= x /\ x < start + b + w
    <3>1. Half(Access(start + b, 2))
      BY <1>1, <1>2, <2>1, <2>3 DEF Half
    <3>2. x \in start + b .. start + b + 1
      BY <1>1, <1>2, <2>1, <2>3
    <3> QED BY <1>8, <1>11, <3>1, <3>2
  <2>4. CASE start + b + w <= x /\ x < at
    <3>1. PICK k \in 1 .. n : k = ((x - (start + b + w)) \div 4) + 1
      BY <1>1, <1>2, <1>3, <2>1, <2>4
    <3>2. Word(Access(m(k), 4))
      BY DEF Word
    <3>3. m(k) <= x /\ x <= m(k) + 3 /\ m(k) \in Nat
      BY <1>1, <1>2, <1>3, <2>1, <2>4, <3>1
    <3>4. x \in Bytes(Access(m(k), 4))
      BY <2>1, <3>3 DEF Bytes, Access
    <3> QED BY <1>8, <3>2, <3>4
  <2>5. CASE at <= x /\ x < at + 2 * (r \div 2)
    <3>1. r >= 2 /\ x \in at .. at + 1
      BY <1>3, <2>1, <2>5
    <3>2. Half2(Access(at, 2))
      BY <3>1 DEF Half2
    <3> QED BY <1>8, <1>13, <3>1, <3>2
  <2>6. CASE at + 2 * (r \div 2) <= x
    <3>1. r % 2 = 1 /\ x = at + 2 * (r \div 2)
      BY <1>1, <1>2, <1>3, <2>1, <2>6
    <3>2. Byte2(Access(at + 2 * (r \div 2), 1))
      BY <3>1 DEF Byte2
    <3> QED BY <1>3, <1>8, <1>14, <3>1, <3>2
  <2> QED BY <1>1, <1>2, <1>3, <2>1, <2>2, <2>3, <2>4, <2>5, <2>6
<1> DEFINE Owner(x) == IF x < start + b THEN Access(start, 1)
                       ELSE IF x < start + b + w THEN Access(start + b, 2)
                       ELSE IF x < at THEN Access(m(((x - (start + b + w)) \div 4) + 1), 4)
                       ELSE IF x < at + 2 * (r \div 2) THEN Access(at, 2)
                       ELSE Access(at + 2 * (r \div 2), 1)
<1>23. ASSUME NEW a \in Split(start, size), NEW x \in Bytes(a)
       PROVE  a = Owner(x)
  <2>1. CASE Byte(a)
    BY <1>1, <1>2, <1>3, <1>10, <1>23, <2>1
  <2>2. CASE Half(a)
    <3>1. a = Access(start + b, 2) /\ x \in start + b .. start + b + 1 /\ w = 2
      BY <1>11, <1>23, <2>2 DEF Half
    <3> QED BY <1>1, <1>2, <1>3, <3>1
  <2>3. CASE Word(a)
    <3>1. PICK k \in 1 .. n : a = Access(m(k), 4) /\ Bytes(a) = m(k) .. m(k) + 3
      BY <1>12, <2>3
    <3>2. x \in m(k) .. m(k) + 3
      BY <1>23, <3>1
    <3>3. x \in Nat /\ ~(x < start + b) /\ ~(x < start + b + w) /\ x < at /\ ((x - (start + b + w)) \div 4) + 1 = k
      BY <1>1, <1>2, <1>3, <3>2
    <3> QED BY <3>1, <3>3
  <2>4. CASE Half2(a)
    <3>1. a = Access(at, 2) /\ x \in at .. at + 1 /\ r >= 2
      BY <1>13, <1>23, <2>4
    <3> QED BY <1>1, <1>2, <1>3, <3>1
  <2>5. CASE Byte2(a)
    <3>1. a = Access(at + 2 * (r \div 2), 1) /\ x = at + 2 * (r \div 2)
      BY <1>3, <1>14, <1>23, <2>5 DEF Byte2
    <3> QED BY <1>1, <1>2, <1>3, <3>1
  <2> QED BY <1>8, <2>1, <2>2, <2>3, <2>4, <2>5
<1>24. \A a, c \in Split(start, size) : a = c \/ Bytes(a) \cap Bytes(c) = {}
  BY <1>23
<1> QED BY <1>20, <1>21, <1>22, <1>24

\* The transfers that PciSegmentReadBuffer and PciSegmentWriteBuffer make cover a buffer, at
\* every start and of every size; BufferCovered says so of some.
LEMMA BuffersCovered == BufferCovered
<1> SUFFICES ASSUME NEW start \in 0 .. 7, NEW size \in 0 .. 11
             PROVE  /\ UNION {a.at .. a.at + a.width - 1 : a \in Split(start, size)} = start .. start + size - 1
                    /\ \A a \in Split(start, size) : a.at % a.width = 0
                    /\ \A a, b \in Split(start, size) :
                         a = b \/ (a.at .. a.at + a.width - 1) \cap (b.at .. b.at + b.width - 1) = {}
  BY Zenon DEF BufferCovered
<1>1. start \in Nat /\ size \in Nat
  OBVIOUS
<1> QED BY <1>1, SplitCovers, Zenon DEF Bytes

----------------------------------------------------------------------------
(***************************************************************************)
(* Configuration addresses.                                                *)
(***************************************************************************)
LEMMA Divided ==
  ASSUME NEW x \in Nat, NEW y \in Nat \ {0}
  PROVE  x \div y \in Nat /\ x % y \in 0 .. y - 1 /\ x = y * (x \div y) + (x % y)
  OBVIOUS

LEMMA ProductOrder ==
  ASSUME NEW x \in Nat, NEW y \in Nat, NEW z \in Nat, x <= y
  PROVE  z * x \in Nat /\ z * y \in Nat /\ z * x <= z * y
<1>1. PICK k \in Nat : y = x + k
  <2>1. y - x \in Nat /\ y = x + (y - x)
    OBVIOUS
  <2> QED BY <2>1
<1>2. z * y = z * x + z * k /\ z * x \in Nat /\ z * k \in Nat
  BY <1>1
<1> QED BY <1>2

\* Quotient and remainder are the only ones.
LEMMA Unique ==
  ASSUME NEW y \in Nat \ {0}, NEW p \in Nat, NEW q \in Nat, NEW k \in 0 .. y - 1, NEW m \in 0 .. y - 1,
         y * p + k = y * q + m
  PROVE  p = q /\ k = m
<1>1. y * p \in Nat /\ y * q \in Nat
  OBVIOUS
<1>2. ~(p < q)
  <2> SUFFICES ASSUME p + 1 <= q PROVE FALSE
    OBVIOUS
  <2>1. y * (p + 1) <= y * q /\ y * (p + 1) = y * p + y
    BY ProductOrder
  <2> QED BY <1>1, <2>1
<1>3. ~(q < p)
  <2> SUFFICES ASSUME q + 1 <= p PROVE FALSE
    OBVIOUS
  <2>1. y * (q + 1) <= y * p /\ y * (q + 1) = y * q + y
    BY ProductOrder
  <2> QED BY <1>1, <2>1
<1>4. p = q
  BY <1>2, <1>3
<1> QED BY <1>1, <1>4

\* An offset below the modulus is what remains of a sum with a multiple of it.
LEMMA ModOffset ==
  ASSUME NEW x \in Nat, NEW y \in Nat \ {0}, NEW k \in 0 .. y - 1, x % y = 0
  PROVE  (x + k) % y = k
<1> DEFINE p == x \div y
           q == (x + k) \div y
           m == (x + k) % y
<1>1. p \in Nat /\ x = y * p
  BY Divided
<1>2. q \in Nat /\ m \in 0 .. y - 1 /\ x + k = y * q + m
  <2>1. x + k \in Nat
    OBVIOUS
  <2> QED BY <2>1, Divided
<1> HIDE DEF p, q, m
<1>3. k = m
  BY <1>1, <1>2, Unique
<1> QED BY <1>3 DEF m

LEMMA Multiple ==
  ASSUME NEW x \in Nat, NEW y \in Nat \ {0}
  PROVE  x * y \in Nat /\ (x * y) % y = 0
<1> DEFINE q == (x * y) \div y
           m == (x * y) % y
<1>1. x * y \in Nat /\ x * y = y * x + 0 /\ 0 \in 0 .. y - 1
  OBVIOUS
<1>2. q \in Nat /\ m \in 0 .. y - 1 /\ x * y = y * q + m
  BY <1>1, Divided
<1> HIDE DEF q, m
<1>3. m = 0
  BY <1>1, <1>2, Unique
<1> QED BY <1>1, <1>3 DEF m

LEMMA MinTwo ==
  ASSUME NEW x \in Int, NEW y \in Int
  PROVE  Min({x, y}) = IF x <= y THEN x ELSE y
<1>1. \E m \in {x, y} : \A z \in {x, y} : m <= z
  BY DEF Min
<1> DEFINE m == CHOOSE v \in {x, y} : \A z \in {x, y} : v <= z
<1>2. m \in {x, y} /\ \A z \in {x, y} : m <= z
  <2> HIDE <1>1
  <2> QED BY <1>1, Zenon
<1> HIDE DEF m
<1>3. m = IF x <= y THEN x ELSE y
  BY <1>2
<1> QED BY <1>3 DEF Min, m

\* The configuration region of a bridge that was taken: it starts where the translation takes
\* bus 0 from, and holds bus 0, bus 1 and no bus beyond the last.
Fit(x) == x.base % (Buses * Bus) = 0 /\ 2 * Bus <= x.size /\ x.size <= Buses * Bus

\* The offset of a function lies in its bus, and that bus in the region.
LEMMA OffsetInBus ==
  ASSUME NEW size \in Nat, NEW b \in 0 .. (size \div Bus) - 1, NEW d \in 0 .. (Bus \div Dev) - 1, NEW f \in 0 .. Dev - 1
  PROVE  /\ d * Dev + f \in 0 .. Bus - 1
         /\ b * Bus + d * Dev + f \in 0 .. size - 1
         /\ b * Bus \in Nat
         /\ b >= 2 => 2 * Bus <= b * Bus
<1> USE Geometry
<1>1. d * Dev \in Nat /\ d * Dev + f \in 0 .. Bus - 1
  <2> DEFINE q == Bus \div Dev
  <2>1. q \in Nat /\ Bus = Dev * q
    BY Divided
  <2> HIDE DEF q
  <2>2. d \in Nat /\ d + 1 \in Nat /\ d + 1 <= q
    BY <2>1 DEF q
  <2>3. Dev * (d + 1) <= Dev * q
    BY <2>1, <2>2, ProductOrder
  <2>4. Dev * (d + 1) = Dev * d + Dev /\ Dev * d \in Nat /\ Dev * d = d * Dev
    BY <2>2
  <2> QED BY <2>1, <2>3, <2>4
<1>2. b * Bus \in Nat /\ b * Bus + Bus <= size
  <2> DEFINE q == size \div Bus
  <2>1. q \in Nat /\ Bus * q <= size /\ Bus * q \in Nat
    BY Divided
  <2> HIDE DEF q
  <2>2. b \in Nat /\ b + 1 \in Nat /\ b + 1 <= q
    BY <2>1 DEF q
  <2>3. Bus * (b + 1) <= Bus * q
    BY <2>1, <2>2, ProductOrder
  <2>4. Bus * (b + 1) = Bus * b + Bus /\ Bus * b \in Nat /\ Bus * b = b * Bus
    BY <2>2
  <2> QED BY <2>1, <2>3, <2>4
<1>3. b >= 2 => 2 * Bus <= b * Bus
  <2>1. ASSUME b >= 2 PROVE Bus * 2 <= Bus * b
    BY <2>1, ProductOrder
  <2> QED BY <2>1
<1> DEFINE o == d * Dev + f
           p == b * Bus
<1>4. p + o = b * Bus + d * Dev + f
  BY <1>1, <1>2
<1>5. o \in 0 .. Bus - 1 /\ p \in Nat /\ p + Bus <= size
  BY <1>1, <1>2
<1> HIDE DEF o, p
<1>6. p + o \in 0 .. size - 1
  BY <1>5
<1> QED BY <1>1, <1>2, <1>3, <1>4, <1>6

Reached(s, b, d, f) ==
  /\ {w.type : w \in {w \in win[s] : ConfigBase(s, b, d, f).at \in w.lo .. w.hi}} = {IF b = 1 THEN "cfg0" ELSE "cfg1"}
  /\ ConfigBase(s, b, d, f).at % (Buses * Bus) = b * Bus + d * Dev + f

\* Addresses of a bridge with its windows set.
LEMMA Routed ==
  ASSUME NEW s \in Segs, bridge[s] \in [base : Nat, size : Nat, max : Nat], Fit(bridge[s]), win[s] = ConfigWindows(s),
         NEW b \in 0 .. (bridge[s].size \div Bus) - 1, NEW d \in 0 .. (Bus \div Dev) - 1, NEW f \in 0 .. Dev - 1,
         ConfigBase(s, b, d, f).where = "window"
  PROVE  Reached(s, b, d, f)
<1> USE Geometry
<1> DEFINE base == bridge[s].base
           size == bridge[s].size
           a == ConfigBase(s, b, d, f)
           k == b * Bus + d * Dev + f
           W0 == Window("cfg0", base + Bus, Granule)
           W1 == Window("cfg1", base + 2 * Bus, size - 2 * Bus)
<1>1. base \in Nat /\ size \in Nat /\ base % (Buses * Bus) = 0 /\ 2 * Bus <= size /\ size <= Buses * Bus
  BY DEF Fit
<1>2. b # 0 /\ (b = 1 => d = 0) /\ a.at = base + b * Bus + d * Dev + f
  BY DEF ConfigBase
<1>3. win[s] = {W0, W1}
  BY DEF ConfigWindows
<1> HIDE DEF base, size, a, k
<1>4. d * Dev + f \in 0 .. Bus - 1 /\ k \in 0 .. size - 1 /\ b * Bus \in Nat /\ (b >= 2 => 2 * Bus <= b * Bus)
  BY <1>1, OffsetInBus DEF size, k
<1>5. a.at = base + k
  <2>1. d * Dev \in Nat
    OBVIOUS
  <2> QED BY <1>1, <1>2, <1>4, <2>1 DEF k
<1>6. a.at % (Buses * Bus) = k
  <2> DEFINE R == Buses * Bus
  <2>1. R \in Nat \ {0} /\ k \in 0 .. R - 1 /\ base % R = 0 /\ base \in Nat
    BY <1>1, <1>4
  <2> HIDE DEF R
  <2>2. (base + k) % R = k
    BY <2>1, ModOffset
  <2> QED BY <1>5, <2>2 DEF R
<1>7. /\ W0.type = "cfg0" /\ W0.lo = base + Bus /\ W0.hi = base + Bus + Granule - 1
      /\ W1.type = "cfg1" /\ W1.lo = base + 2 * Bus /\ W1.hi = base + 2 * Bus + (size - 2 * Bus) - 1
  BY DEF Window
<1> DEFINE hits == {w \in win[s] : a.at \in w.lo .. w.hi}
<1>8. CASE b = 1
  <2>1. k = Bus + f
    BY <1>2, <1>8 DEF k
  <2>2. a.at \in W0.lo .. W0.hi /\ a.at \notin W1.lo .. W1.hi
    BY <1>1, <1>5, <1>7, <2>1
  <2> HIDE DEF W0, W1
  <2>3. hits = {W0}
    BY <1>3, <2>2
  <2> HIDE DEF hits
  <2>4. {w.type : w \in hits} = {"cfg0"}
    BY <1>7, <2>3
  <2>5. {w.type : w \in {w \in win[s] : ConfigBase(s, b, d, f).at \in w.lo .. w.hi}} = {"cfg0"}
    BY <2>4 DEF hits, a
  <2>6. ConfigBase(s, b, d, f).at % (Buses * Bus) = b * Bus + d * Dev + f
    BY <1>6 DEF a, k
  <2> QED BY <1>8, <2>5, <2>6 DEF Reached
<1>9. CASE b >= 2
  <2>1. 2 * Bus <= k
    <3>1. k = b * Bus + (d * Dev + f)
      BY <1>4 DEF k
    <3> QED BY <1>4, <1>9, <3>1
  <2>2. a.at \in W1.lo .. W1.hi /\ a.at \notin W0.lo .. W0.hi
    BY <1>1, <1>4, <1>5, <1>7, <2>1
  <2> HIDE DEF W0, W1
  <2>3. hits = {W1}
    BY <1>3, <2>2
  <2> HIDE DEF hits
  <2>4. {w.type : w \in hits} = {"cfg1"}
    BY <1>7, <2>3
  <2>5. {w.type : w \in {w \in win[s] : ConfigBase(s, b, d, f).at \in w.lo .. w.hi}} = {"cfg1"}
    BY <2>4 DEF hits, a
  <2>6. ConfigBase(s, b, d, f).at % (Buses * Bus) = b * Bus + d * Dev + f
    BY <1>6 DEF a, k
  <2>7. ~(b = 1)
    BY <1>9
  <2> HIDE DEF hits
  <2> QED BY <2>5, <2>6, <2>7 DEF Reached
<1>10. b = 1 \/ b >= 2
  BY <1>2
<1> QED BY <1>8, <1>9, <1>10

----------------------------------------------------------------------------
(***************************************************************************)
(* The invariant.  A bridge is listed when its node was taken; from then   *)
(* on no other node reaches its entry, so that the windows that are set    *)
(* from the entry remain those of the region PciSegmentLib computes with.  *)
(* On the BM1000 because each enabled node is another root port, on the    *)
(* BS1000 because the entries are numbered in the order of the nodes.      *)
(***************************************************************************)
Entry == [base : Nat, size : Nat, max : Nat]
Nodes == [seg : Nat, ok : BOOLEAN, base : Nat, size : Nat, max : Nat]
Listed(s) == \E i \in DOMAIN idxs : idxs[i] = s

TreeTypes ==
  /\ soc \in {"BM1000", "BS1000"}
  /\ nodes \in Seq(Nodes) /\ idxs \in Seq(Segs) /\ todo \in Seq(Segs)
  /\ bridge \in [Segs -> Entry]
  /\ DOMAIN win = Segs

ListedFit  == \A i \in DOMAIN idxs : Fit(bridge[idxs[i]])
TodoListed == \A i \in DOMAIN todo : Listed(todo[i])
WindowsOf  == \A s \in Segs : win[s] # {} => Listed(s) /\ win[s] = ConfigWindows(s)

BmFresh ==
  soc = "BM1000" =>
    /\ \A i, j \in DOMAIN nodes : i # j /\ nodes[i].ok /\ nodes[j].ok => nodes[i].seg # nodes[j].seg
    /\ \A i \in DOMAIN nodes : nodes[i].ok => ~Listed(nodes[i].seg)

BsFresh ==
  soc = "BS1000" =>
    /\ \A i \in DOMAIN idxs : idxs[i] < Len(idxs)
    /\ Len(idxs) + Len(nodes) <= Ports
    /\ \A i \in DOMAIN nodes : nodes[i].ok => Fit(nodes[i])

TreeInv == TreeTypes /\ ListedFit /\ TodoListed /\ WindowsOf /\ BmFresh /\ BsFresh

\* DBI2 is left open only where the PHY did not answer.  From the moment it has been computed
\* until it is written, the target speed is the one that the port should get.
Computed == {"status", "phy", "target"}
PortInv ==
  /\ cur \in Segs /\ DOMAIN port = Segs
  /\ \A s \in Segs : DOMAIN port[s] = {"ltssm", "dbi2", "target", "quirk"}
  /\ \A s \in Segs \ noPhy : ~port[s].dbi2
  /\ pc \in Computed => asked = Wanted(cur)
  /\ SpeedReachesPort

PciInv == TreeInv /\ PortInv

LEMMA Popped ==
  ASSUME NEW S, NEW s \in Seq(S), s # <<>>
  PROVE  /\ Len(s) \in Nat \ {0} /\ DOMAIN s = 1 .. Len(s)
         /\ Head(s) = s[1] /\ Head(s) \in S /\ 1 \in DOMAIN s
         /\ Tail(s) \in Seq(S) /\ Len(Tail(s)) = Len(s) - 1
         /\ \A i \in DOMAIN Tail(s) : i + 1 \in DOMAIN s /\ i # 0 /\ Tail(s)[i] = s[i + 1]
  OBVIOUS

LEMMA Pushed ==
  ASSUME NEW S, NEW s \in Seq(S), NEW x \in S
  PROVE  /\ Append(s, x) \in Seq(S) /\ Len(Append(s, x)) = Len(s) + 1 /\ Len(s) \in Nat
         /\ DOMAIN Append(s, x) = 1 .. Len(s) + 1 /\ DOMAIN s = 1 .. Len(s)
         /\ \A i \in DOMAIN s : Append(s, x)[i] = s[i]
         /\ Append(s, x)[Len(s) + 1] = x
  OBVIOUS

\* The region that the BM1000 computes for a node.
LEMMA BmRegion ==
  ASSUME NEW n \in Nodes
  PROVE  /\ BmBase(n) \in Nat /\ BmBase(n) % (Buses * Bus) = 0
         /\ BmSize(n) \in Nat /\ BmSize(n) <= Buses * Bus
<1> USE Geometry
<1> DEFINE R == Buses * Bus
           q == n.base \div R
<1>1. R \in Nat \ {0} /\ n.base \in Nat /\ n.size \in Nat
  BY DEF Nodes
<1>2. (Buses - 1) * Bus \in Nat /\ (Buses - 1) * Bus <= R
  <2>1. (Buses - 1) * Bus = R - Bus /\ R - Bus \in Int /\ Buses - 1 \in Nat
    BY <1>1
  <2>2. (Buses - 1) * Bus \in Nat
    BY <2>1
  <2> QED BY <1>1, <2>1, <2>2
<1>3. BmBase(n) = q * R
  BY DEF BmBase
<1> DEFINE L == (Buses - 1) * Bus
<1>4. BmSize(n) = Min({n.base + n.size - BmBase(n), L})
  BY DEF BmSize
<1> HIDE DEF R, L
<1> DEFINE m == n.base % R
<1>5. q \in Nat /\ m \in 0 .. R - 1 /\ n.base = R * q + m
  BY <1>1, Divided
<1> HIDE DEF q, m
<1>6. q * R \in Nat /\ (q * R) % R = 0 /\ q * R <= n.base
  <2>1. q * R \in Nat /\ (q * R) % R = 0
    BY <1>1, <1>5, Multiple
  <2>2. q * R = R * q
    BY <1>1, <1>5
  <2> QED BY <1>1, <1>5, <2>1, <2>2
<1>7. BmBase(n) \in Nat /\ BmBase(n) <= n.base
  BY <1>3, <1>6
<1> DEFINE x == n.base + n.size - BmBase(n)
<1>8. x \in Nat
  BY <1>1, <1>7
<1>9. L \in Nat /\ L <= R
  BY <1>2 DEF L, R
<1> HIDE DEF x
<1>10. Min({x, L}) = IF x <= L THEN x ELSE L
  BY <1>8, <1>9, MinTwo
<1>11. BmSize(n) \in Nat /\ BmSize(n) <= R
  BY <1>1, <1>4, <1>8, <1>9, <1>10 DEF x
<1> QED BY <1>3, <1>6, <1>7, <1>11 DEF R

LEMMA InitHolds == PciInit => PciInv
<1> SUFFICES ASSUME PciInit PROVE PciInv
  OBVIOUS
<1> USE Geometry
<1>1. 0 \in Segs
  BY DEF Segs
<1>2. PICK t \in Trees : soc = t.soc /\ nodes = t.nodes
  BY DEF PciInit
<1>3. soc \in {"BM1000", "BS1000"} /\ nodes \in Seq(Nodes)
  BY <1>2, PciAssumption DEF PciAssumption, Nodes
<1>4. idxs = <<>> /\ todo = <<>> /\ bridge = [s \in Segs |-> NoBridge] /\ win = [s \in Segs |-> {}] /\ cur = 0 /\ pc = "tree"
  BY DEF PciInit
<1>5. TreeTypes
  <2>1. NoBridge \in Entry
    BY DEF NoBridge, Entry
  <2> QED BY <1>3, <1>4, <2>1 DEF TreeTypes
<1>6. ListedFit /\ TodoListed /\ WindowsOf
  BY <1>4 DEF ListedFit, TodoListed, WindowsOf
<1>7. BmFresh
  <2>1. soc = "BM1000" =>
          \A i, j \in DOMAIN nodes : i # j /\ nodes[i].ok /\ nodes[j].ok => nodes[i].seg # nodes[j].seg
    BY <1>2, TreeAssumption, Zenon DEF TreeAssumption
  <2>2. \A i \in DOMAIN nodes : ~Listed(nodes[i].seg)
    BY <1>4 DEF Listed
  <2> QED BY <2>1, <2>2 DEF BmFresh
<1>8. BsFresh
  <2> SUFFICES ASSUME soc = "BS1000" PROVE BsFresh
    BY DEF BsFresh
  <2>1. /\ Len(t.nodes) <= Ports
        /\ \A i \in DOMAIN t.nodes : t.nodes[i].ok =>
             LET n == t.nodes[i]
             IN  n.base % (Buses * Bus) = 0 /\ 2 * Bus < n.size /\ n.size <= Buses * Bus
    BY <1>2, TreeAssumption, Zenon DEF TreeAssumption
  <2>2. ASSUME NEW i \in DOMAIN nodes, nodes[i].ok PROVE Fit(nodes[i])
    <3>1. nodes[i] \in Nodes
      BY <1>3
    <3>4. nodes[i].size \in Nat
      BY <3>1 DEF Nodes
    <3>2. nodes[i].base % (Buses * Bus) = 0 /\ 2 * Bus < nodes[i].size /\ nodes[i].size <= Buses * Bus
      BY <1>2, <2>1, <2>2, Zenon
    <3>3. 2 * Bus <= nodes[i].size
      BY <3>2, <3>4
    <3> QED BY <3>2, <3>3 DEF Fit
  <2>3. Len(nodes) \in Nat /\ Len(idxs) = 0 /\ DOMAIN idxs = {}
    BY <1>3, <1>4
  <2> QED BY <1>2, <2>1, <2>2, <2>3 DEF BsFresh
<1>9. PortInv
  <2>1. port = [s \in Segs |-> Reset0] /\ cur = 0 /\ pc = "tree"
    BY DEF PciInit
  <2>2. DOMAIN Reset0 = {"ltssm", "dbi2", "target", "quirk"} /\ Reset0.dbi2 = FALSE
    BY DEF Reset0
  <2>3. \A s \in Segs : port[s] = Reset0
    BY <2>1
  <2>4. SpeedReachesPort
    BY <2>1 DEF SpeedReachesPort
  <2> QED BY <1>1, <2>1, <2>2, <2>3, <2>4 DEF PortInv, Computed
<1> QED BY <1>5, <1>6, <1>7, <1>8, <1>9 DEF PciInv, TreeInv

----------------------------------------------------------------------------
(***************************************************************************)
(* The steps.                                                              *)
(***************************************************************************)
LEMMA TreeKept ==
  ASSUME TreeInv, UNCHANGED <<soc, nodes, bridge, idxs, win, todo>>
  PROVE  TreeInv'
  BY DEF TreeInv, TreeTypes, ListedFit, TodoListed, WindowsOf, BmFresh, BsFresh, Listed, ConfigWindows

\* A node of the BM1000: only the entry of a root port not listed yet changes.
LEMMA BmNodeKeeps ==
  ASSUME TreeInv, BmNode
  PROVE  TreeInv'
<1> DEFINE n == Head(nodes)
           hit == n.ok /\ n.seg \in Segs
<1>1. TreeTypes /\ ListedFit /\ TodoListed /\ WindowsOf /\ BmFresh /\ BsFresh
  BY DEF TreeInv
<1>2. /\ soc = "BM1000" /\ nodes # <<>>
      /\ bridge' = IF hit THEN [bridge EXCEPT ![n.seg] = BmBridge(n)] ELSE bridge
      /\ idxs' = IF BmAccepted(n) THEN Append(idxs, n.seg) ELSE idxs
      /\ nodes' = Tail(nodes) /\ soc' = soc /\ win' = win /\ todo' = todo
  BY DEF BmNode
<1>3. /\ n = nodes[1] /\ n \in Nodes /\ 1 \in DOMAIN nodes
      /\ nodes' \in Seq(Nodes)
      /\ \A i \in DOMAIN nodes' : i + 1 \in DOMAIN nodes /\ i + 1 # 1 /\ nodes'[i] = nodes[i + 1]
  <2>1. nodes \in Seq(Nodes)
    BY <1>1 DEF TreeTypes
  <2>2. \A i \in DOMAIN Tail(nodes) : i + 1 # 1
    <3>1. DOMAIN Tail(nodes) \subseteq Nat \ {0}
      BY <2>1, <1>2
    <3> QED BY <3>1
  <2> QED BY <1>2, <2>1, <2>2, Popped
<1>4. BmAccepted(n) => hit /\ n.seg \in Segs /\ BmBaseValid(n) /\ BmSize(n) >= 2 * Bus
  BY DEF BmAccepted
<1>5. hit => BmBridge(n) \in Entry
  <2> SUFFICES ASSUME hit PROVE BmBridge(n) \in Entry
    OBVIOUS
  <2>1. bridge[n.seg] \in Entry
    BY <1>1 DEF TreeTypes
  <2>2. BmBase(n) \in Nat /\ BmSize(n) \in Nat /\ n.max \in Nat
    BY <1>3, BmRegion DEF Nodes
  <2>3. bridge[n.seg].size \in Nat /\ bridge[n.seg].max \in Nat
    BY <2>1 DEF Entry
  <2>4. (IF BmBaseValid(n) THEN BmSize(n) ELSE bridge[n.seg].size) \in Nat
    BY <2>2, <2>3
  <2>5. (IF BmAccepted(n) THEN n.max ELSE bridge[n.seg].max) \in Nat
    BY <2>2, <2>3
  <2> QED BY <2>2, <2>4, <2>5 DEF BmBridge, Entry
<1>6. BmAccepted(n) => Fit(BmBridge(n))
  <2> SUFFICES ASSUME BmAccepted(n) PROVE Fit(BmBridge(n))
    OBVIOUS
  <2>1. BmBridge(n).base = BmBase(n) /\ BmBridge(n).size = BmSize(n)
    BY <1>4 DEF BmBridge
  <2>2. BmSize(n) \in Nat /\ BmSize(n) <= Buses * Bus /\ BmBase(n) % (Buses * Bus) = 0
    BY <1>3, BmRegion
  <2>3. 2 * Bus <= BmSize(n)
    BY <1>4, <2>2, Geometry
  <2> QED BY <2>1, <2>2, <2>3 DEF Fit
<1>7. n.ok => ~Listed(n.seg)
  BY <1>1, <1>2, <1>3 DEF BmFresh
<1> HIDE DEF n
<1>8. idxs \in Seq(Segs) /\ idxs' \in Seq(Segs) /\ DOMAIN idxs \subseteq DOMAIN idxs' /\ \A i \in DOMAIN idxs : idxs'[i] = idxs[i]
  <2>1. idxs \in Seq(Segs)
    BY <1>1 DEF TreeTypes
  <2>2. CASE BmAccepted(n)
    <3>1. DOMAIN Append(idxs, n.seg) = 1 .. Len(idxs) + 1 /\ DOMAIN idxs = 1 .. Len(idxs) /\ Len(idxs) \in Nat
      BY <1>4, <2>1, <2>2, Pushed
    <3>2. DOMAIN idxs \subseteq DOMAIN Append(idxs, n.seg)
      BY <3>1
    <3> QED BY <1>2, <1>4, <2>1, <2>2, <3>2, Pushed
  <2>3. CASE ~BmAccepted(n)
    BY <1>2, <2>1, <2>3
  <2> QED BY <2>2, <2>3
<1>9. \A i \in DOMAIN idxs' : i \in DOMAIN idxs \/ (BmAccepted(n) /\ idxs'[i] = n.seg)
  <2>1. CASE BmAccepted(n)
    <3>1. /\ DOMAIN Append(idxs, n.seg) = 1 .. Len(idxs) + 1 /\ DOMAIN idxs = 1 .. Len(idxs) /\ Len(idxs) \in Nat
          /\ Append(idxs, n.seg)[Len(idxs) + 1] = n.seg
      BY <1>4, <1>8, <2>1, Pushed
    <3> QED BY <1>2, <2>1, <3>1
  <2>2. CASE ~BmAccepted(n)
    BY <1>2, <2>2
  <2> QED BY <2>1, <2>2
<1>10. \A s : Listed(s) => Listed(s)'
  BY <1>8 DEF Listed
<1>11. \A s \in Segs : (hit => s # n.seg) => bridge'[s] = bridge[s]
  BY <1>1, <1>2 DEF TreeTypes
<1>12. \A s \in Segs : Listed(s) => bridge'[s] = bridge[s]
  BY <1>7, <1>11
<1>13. TreeTypes'
  <2>1. bridge' \in [Segs -> Entry]
    BY <1>1, <1>2, <1>5 DEF TreeTypes
  <2> QED BY <1>1, <1>2, <1>3, <1>8, <2>1 DEF TreeTypes
<1>14. ListedFit'
  <2> SUFFICES ASSUME NEW i \in DOMAIN idxs' PROVE Fit(bridge'[idxs'[i]])
    BY DEF ListedFit, Fit
  <2>1. CASE i \in DOMAIN idxs
    <3>1. Listed(idxs[i]) /\ idxs[i] \in Segs /\ idxs'[i] = idxs[i]
      BY <1>1, <1>8, <2>1 DEF Listed, TreeTypes
    <3> QED BY <1>1, <1>12, <2>1, <3>1 DEF ListedFit
  <2>2. CASE BmAccepted(n) /\ idxs'[i] = n.seg
    <3>1. bridge'[n.seg] = BmBridge(n)
      BY <1>1, <1>2, <1>4, <2>2 DEF TreeTypes
    <3> QED BY <1>6, <2>2, <3>1
  <2> QED BY <1>9, <2>1, <2>2
<1>15. TodoListed'
  BY <1>1, <1>2, <1>10 DEF TodoListed
<1>16. WindowsOf'
  <2> SUFFICES ASSUME NEW s \in Segs, win'[s] # {} PROVE Listed(s)' /\ win'[s] = ConfigWindows(s)'
    BY DEF WindowsOf
  <2>1. Listed(s) /\ win'[s] = ConfigWindows(s)
    BY <1>1, <1>2 DEF WindowsOf
  <2>2. Listed(s)' /\ bridge'[s] = bridge[s]
    BY <1>10, <1>12, <2>1
  <2> QED BY <2>1, <2>2 DEF ConfigWindows
<1>17. BmFresh'
  <2>1. ASSUME NEW i \in DOMAIN nodes', NEW j \in DOMAIN nodes', i # j, nodes'[i].ok, nodes'[j].ok
        PROVE  nodes'[i].seg # nodes'[j].seg
    <3>1. i + 1 # j + 1
      <4>1. DOMAIN nodes' \subseteq Nat
        BY <1>3
      <4> QED BY <2>1, <4>1
    <3> QED BY <1>1, <1>2, <1>3, <2>1, <3>1 DEF BmFresh
  <2>2. ASSUME NEW i \in DOMAIN nodes', nodes'[i].ok, NEW k \in DOMAIN idxs' PROVE idxs'[k] # nodes'[i].seg
    <3>1. nodes'[i] = nodes[i + 1] /\ i + 1 \in DOMAIN nodes /\ i + 1 # 1
      BY <1>3
    <3>2. ~Listed(nodes'[i].seg)
      BY <1>1, <1>2, <2>2, <3>1 DEF BmFresh
    <3>3. n.ok => nodes'[i].seg # n.seg
      BY <1>1, <1>2, <1>3, <2>2, <3>1 DEF BmFresh
    <3>4. BmAccepted(n) => n.ok
      BY DEF BmAccepted
    <3>5. CASE k \in DOMAIN idxs
      BY <1>8, <3>2, <3>5 DEF Listed
    <3>6. CASE k \notin DOMAIN idxs
      BY <1>9, <3>3, <3>4, <3>6
    <3> QED BY <3>5, <3>6
  <2> QED BY <2>1, <2>2, Zenon DEF BmFresh, Listed
<1>18. BsFresh'
  BY <1>2 DEF BsFresh
<1> QED BY <1>13, <1>14, <1>15, <1>16, <1>17, <1>18 DEF TreeInv

\* A node of the BS1000: the entry behind the listed ones.
LEMMA BsNodeKeeps ==
  ASSUME TreeInv, BsNode
  PROVE  TreeInv'
<1> DEFINE n == Head(nodes)
<1>1. TreeTypes /\ ListedFit /\ TodoListed /\ WindowsOf /\ BmFresh /\ BsFresh
  BY DEF TreeInv
<1>2. soc = "BS1000" /\ nodes # <<>> /\ nodes' = Tail(nodes) /\ soc' = soc /\ win' = win
  BY DEF BsNode
<1>3. /\ n \in Nodes /\ n = nodes[1] /\ 1 \in DOMAIN nodes /\ nodes' \in Seq(Nodes)
      /\ Len(nodes) \in Nat \ {0} /\ Len(nodes') = Len(nodes) - 1
      /\ \A i \in DOMAIN nodes' : i + 1 \in DOMAIN nodes /\ nodes'[i] = nodes[i + 1]
  <2>1. nodes \in Seq(Nodes)
    BY <1>1 DEF TreeTypes
  <2> QED BY <1>2, <2>1, Popped
<1>4. PICK s \in Nat : s = Len(idxs) /\ idxs \in Seq(Segs) /\ DOMAIN idxs = 1 .. s
  BY <1>1 DEF TreeTypes
<1>5. s \in Segs
  BY <1>1, <1>2, <1>3, <1>4, Geometry DEF BsFresh, Segs
<1>6. CASE ~n.ok
  <2>1. UNCHANGED <<bridge, idxs, todo>>
    BY <1>6 DEF BsNode
  <2>2. Len(idxs) + Len(nodes') <= Ports
    BY <1>1, <1>2, <1>3, <1>4, Geometry DEF BsFresh
  <2>3. \A i \in DOMAIN nodes' : nodes'[i].ok => Fit(nodes'[i])
    BY <1>1, <1>2, <1>3 DEF BsFresh
  <2>4. BsFresh'
    BY <1>1, <1>2, <2>1, <2>2, <2>3 DEF BsFresh, Fit
  <2>5. BmFresh'
    BY <1>2 DEF BmFresh
  <2>6. TreeTypes'
    BY <1>1, <1>2, <1>3, <2>1 DEF TreeTypes
  <2>7. ListedFit'
    BY <1>1, <2>1 DEF ListedFit, Fit
  <2>8. TodoListed' /\ WindowsOf'
    BY <1>1, <1>2, <2>1 DEF TodoListed, WindowsOf, Listed, ConfigWindows
  <2> QED BY <2>4, <2>5, <2>6, <2>7, <2>8 DEF TreeInv
<1>7. CASE n.ok
  <2>1. bridge' = [bridge EXCEPT ![s] = BsBridge(n)] /\ idxs' = Append(idxs, s) /\ todo' = <<s>>
    BY <1>4, <1>7 DEF BsNode
  <2>2. BsBridge(n) \in Entry
    BY <1>3 DEF BsBridge, Entry, Nodes
  <2>3. Fit(BsBridge(n))
    <3>1. Fit(n)
      BY <1>1, <1>2, <1>3, <1>7 DEF BsFresh
    <3> QED BY <3>1 DEF Fit, BsBridge
  <2>4. /\ idxs' \in Seq(Segs) /\ Len(idxs') = s + 1 /\ DOMAIN idxs' = 1 .. s + 1
        /\ idxs'[s + 1] = s /\ \A i \in DOMAIN idxs : idxs'[i] = idxs[i]
    BY <1>4, <1>5, <2>1, Pushed
  <2>5. ~Listed(s) /\ \A i \in DOMAIN idxs : idxs[i] # s /\ idxs[i] < s /\ idxs[i] \in Nat
    <3>1. ASSUME NEW i \in DOMAIN idxs PROVE idxs[i] < s /\ idxs[i] \in Nat
      <4>1. idxs[i] \in Segs /\ idxs[i] < s
        BY <1>1, <1>2, <1>4 DEF BsFresh
      <4> QED BY <4>1, Geometry DEF Segs
    <3>2. \A i \in DOMAIN idxs : idxs[i] # s
      BY <1>4, <3>1
    <3> QED BY <3>1, <3>2 DEF Listed
  <2> HIDE DEF n
  <2>6. \A x : Listed(x) => Listed(x)'
    BY <1>4, <2>4 DEF Listed
  <2>7. Listed(s)'
    <3>1. s + 1 \in DOMAIN idxs'
      BY <1>4, <2>4
    <3> QED BY <2>4, <3>1 DEF Listed
  <2>8. \A x \in Segs : x # s => bridge'[x] = bridge[x]
    BY <1>1, <2>1 DEF TreeTypes
  <2>9. bridge'[s] = BsBridge(n) /\ bridge' \in [Segs -> Entry]
    BY <1>1, <1>5, <2>1, <2>2 DEF TreeTypes
  <2>10. TreeTypes'
    <3>1. todo' \in Seq(Segs)
      BY <1>5, <2>1
    <3> QED BY <1>1, <1>2, <1>3, <2>4, <2>9, <3>1 DEF TreeTypes
  <2>11. ListedFit'
    <3> SUFFICES ASSUME NEW i \in DOMAIN idxs' PROVE Fit(bridge'[idxs'[i]])
      BY DEF ListedFit, Fit
    <3>1. CASE i \in DOMAIN idxs
      <4>1. idxs'[i] = idxs[i] /\ idxs[i] \in Segs /\ idxs[i] # s
        BY <1>4, <2>4, <2>5, <3>1
      <4> QED BY <1>1, <2>8, <3>1, <4>1 DEF ListedFit
    <3>2. CASE i \notin DOMAIN idxs
      <4>1. i = s + 1
        BY <1>4, <2>4, <3>2
      <4> QED BY <2>3, <2>4, <2>9, <4>1
    <3> QED BY <3>1, <3>2
  <2>12. TodoListed'
    <3>1. \A i \in DOMAIN todo' : todo'[i] = s
      BY <2>1
    <3> QED BY <2>7, <3>1 DEF TodoListed, Listed
  <2>13. WindowsOf'
    <3> SUFFICES ASSUME NEW x \in Segs, win'[x] # {} PROVE Listed(x)' /\ win'[x] = ConfigWindows(x)'
      BY DEF WindowsOf
    <3>1. Listed(x) /\ win'[x] = ConfigWindows(x)
      BY <1>1, <1>2 DEF WindowsOf
    <3>2. Listed(x)' /\ bridge'[x] = bridge[x]
      BY <2>5, <2>6, <2>8, <3>1
    <3> QED BY <3>1, <3>2 DEF ConfigWindows
  <2>14. BmFresh'
    BY <1>2 DEF BmFresh
  <2>15. BsFresh'
    <3>1. \A i \in DOMAIN idxs' : idxs'[i] < Len(idxs')
      <4> SUFFICES ASSUME NEW i \in DOMAIN idxs' PROVE idxs'[i] < s + 1
        BY <2>4
      <4>1. i \in DOMAIN idxs \/ i = s + 1
        BY <1>4, <2>4
      <4> QED BY <1>4, <2>4, <2>5, <4>1
    <3>2. Len(idxs') + Len(nodes') <= Ports
      BY <1>1, <1>2, <1>3, <1>4, <2>4, Geometry DEF BsFresh
    <3>3. \A i \in DOMAIN nodes' : nodes'[i].ok => Fit(nodes'[i])
      BY <1>1, <1>2, <1>3 DEF BsFresh
    <3> QED BY <3>1, <3>2, <3>3 DEF BsFresh, Fit
  <2> QED BY <2>10, <2>11, <2>12, <2>13, <2>14, <2>15 DEF TreeInv
<1> QED BY <1>6, <1>7

\* The bridges to initialise, and those to retrain, are the listed ones.
LEMMA TodoFilled ==
  ASSUME TreeInv, todo' = idxs, UNCHANGED tree
  PROVE  TreeInv'
<1>1. TreeTypes /\ ListedFit /\ TodoListed /\ WindowsOf /\ BmFresh /\ BsFresh
  BY DEF TreeInv
<1>2. UNCHANGED <<soc, nodes, bridge, idxs, win>>
  BY DEF tree
<1>3. TodoListed'
  BY <1>2 DEF TodoListed, Listed
<1>4. TreeTypes' /\ ListedFit' /\ WindowsOf' /\ BmFresh' /\ BsFresh'
  BY <1>1, <1>2 DEF TreeTypes, ListedFit, Fit, WindowsOf, Listed, ConfigWindows, BmFresh, BsFresh
<1> QED BY <1>3, <1>4 DEF TreeInv

\* The first of them is taken off, with or without its windows being set.
LEMMA TodoTaken ==
  ASSUME TreeInv, todo # <<>>, todo' = Tail(todo), UNCHANGED <<soc, nodes, bridge, idxs>>,
         UNCHANGED win \/ SetWindows(Head(todo))
  PROVE  TreeInv' /\ Head(todo) \in Segs
<1> DEFINE h == Head(todo)
<1>1. TreeTypes /\ ListedFit /\ TodoListed /\ WindowsOf /\ BmFresh /\ BsFresh
  BY DEF TreeInv
<1>2. /\ h \in Segs /\ h = todo[1] /\ 1 \in DOMAIN todo /\ todo' \in Seq(Segs)
      /\ \A i \in DOMAIN todo' : i + 1 \in DOMAIN todo /\ todo'[i] = todo[i + 1]
  <2>1. todo \in Seq(Segs)
    BY <1>1 DEF TreeTypes
  <2> QED BY <2>1, Popped
<1>3. Listed(h)
  BY <1>1, <1>2 DEF TodoListed
<1>4. SetWindows(h) \/ UNCHANGED win
  OBVIOUS
<1> HIDE DEF h
<1>5. DOMAIN win' = Segs /\ \A s \in Segs : win'[s] = win[s] \/ (s = h /\ win'[s] = ConfigWindows(s))
  BY <1>1, <1>2, <1>4 DEF SetWindows, TreeTypes
<1>6. WindowsOf'
  <2> SUFFICES ASSUME NEW s \in Segs, win'[s] # {} PROVE Listed(s)' /\ win'[s] = ConfigWindows(s)'
    BY DEF WindowsOf
  <2>1. Listed(s) /\ win'[s] = ConfigWindows(s)
    BY <1>1, <1>3, <1>5 DEF WindowsOf
  <2> QED BY <2>1 DEF Listed, ConfigWindows
<1>7. TodoListed'
  BY <1>1, <1>2 DEF TodoListed, Listed
<1>8. TreeTypes' /\ ListedFit' /\ BmFresh' /\ BsFresh'
  BY <1>1, <1>2, <1>5 DEF TreeTypes, ListedFit, Fit, Listed, BmFresh, BsFresh
<1> QED BY <1>2, <1>6, <1>7, <1>8 DEF TreeInv, h

LEMMA TreeStep ==
  ASSUME TreeInv, [PciNext]_pciVars
  PROVE  TreeInv'
<1>1. CASE UNCHANGED pciVars \/ LinkTrains \/ LinkDrops
  BY <1>1, TreeKept, Zenon DEF pciVars, tree, LinkTrains, LinkDrops
<1>2. CASE BmNode
  BY <1>2, BmNodeKeeps
<1>3. CASE BsNode
  BY <1>3, BsNodeKeeps
<1>4. CASE BmTreeRead \/ BmAllUp
  BY <1>4, TodoFilled, Zenon DEF BmTreeRead, BmAllUp
<1>5. CASE BmRootPort \/ BsRootPort
  BY <1>5, TodoTaken, Zenon DEF BmRootPort, BsRootPort
<1>6. CASE RetrainPick
  <2>1. CASE todo = <<>>
    BY <1>6, <2>1, TreeKept, Zenon DEF RetrainPick, tree
  <2>2. CASE todo # <<>>
    BY <1>6, <2>2, TodoTaken, Zenon DEF RetrainPick, tree
  <2> QED BY <2>1, <2>2
<1>7. CASE \/ BsTreeRead \/ NoPartner \/ LinkUp \/ LinkGivenUp \/ CoreReset \/ WaitOn \/ AnswerWait \/ DeviceAnswered
           \/ BsNext \/ FirstCap \/ CapWalk \/ ReadSpeed \/ ReadStatus \/ SetupPhy \/ SetTarget
           \/ Retrained \/ RetrainLost \/ RetrainWait \/ SecondWait
  BY <1>7, TreeKept, Zenon
     DEF BsTreeRead, NoPartner, LinkUp, LinkGivenUp, CoreReset, WaitOn, AnswerWait, DeviceAnswered, BsNext, FirstCap, CapWalk,
         ReadSpeed, ReadStatus, SetupPhy, SetTarget, Retrained, RetrainLost, RetrainWait, SecondWait, tree
<1> QED BY <1>1, <1>2, <1>3, <1>4, <1>5, <1>6, <1>7, Zenon DEF PciNext, Constructor

Registers == {"ltssm", "dbi2", "target", "quirk"}

LEMMA PortsStill ==
  ASSUME PortInv, UNCHANGED <<port, noPhy>>, cur' \in Segs,
         \/ pc' \notin Computed \cup {"retraining"}
         \/ UNCHANGED <<pc, cur, bridge, dev, caps>>
         \/ {pc, pc'} \subseteq Computed /\ UNCHANGED <<cur, bridge, dev, caps>>
  PROVE  PortInv'
<1>1. SpeedReachesPort'
  BY DEF PortInv, SpeedReachesPort, Wanted, Computed, caps
<1>2. pc' \in Computed => asked' = Wanted(cur)'
  BY DEF PortInv, Wanted, Computed, caps
<1> QED BY <1>1, <1>2 DEF PortInv

\* One port gets other registers.
LEMMA OnePort ==
  ASSUME PortInv, NEW s \in Segs, NEW x, port' = [port EXCEPT ![s] = x], DOMAIN x = Registers,
         noPhy \subseteq noPhy', s \notin noPhy' => ~x.dbi2, cur' \in Segs,
         pc' # "retraining", pc' \notin Computed \/ (pc \in Computed /\ UNCHANGED <<cur, bridge, dev, caps>>)
  PROVE  PortInv'
<1>1. SpeedReachesPort'
  BY DEF SpeedReachesPort
<1>5. pc' \in Computed => asked' = Wanted(cur)'
  BY DEF PortInv, Wanted, caps
<1>2. DOMAIN port' = Segs /\ port'[s] = x /\ \A v \in Segs \ {s} : port'[v] = port[v]
  BY DEF PortInv
<1>3. \A v \in Segs : DOMAIN port'[v] = Registers
  BY <1>2 DEF PortInv, Registers
<1>4. \A v \in Segs \ noPhy' : ~port'[v].dbi2
  BY <1>2 DEF PortInv
<1> QED BY <1>1, <1>2, <1>3, <1>4, <1>5 DEF PortInv, Registers

LEMMA FieldSet ==
  ASSUME NEW x, DOMAIN x = Registers, NEW v
  PROVE  /\ DOMAIN [x EXCEPT !.ltssm = v] = Registers /\ [x EXCEPT !.ltssm = v].dbi2 = x.dbi2
         /\ DOMAIN [x EXCEPT !.quirk = v] = Registers /\ [x EXCEPT !.quirk = v].dbi2 = x.dbi2
         /\ DOMAIN [x EXCEPT !.dbi2 = v] = Registers
         /\ DOMAIN [x EXCEPT !.target = v] = Registers /\ [x EXCEPT !.target = v].dbi2 = x.dbi2
         /\ [x EXCEPT !.target = v].target = v
  BY DEF Registers

LEMMA PortStep ==
  ASSUME TreeInv, PortInv, [PciNext]_pciVars
  PROVE  PortInv'
<1>1. cur \in Segs /\ DOMAIN port = Segs /\ DOMAIN port[cur] = Registers /\ (cur \notin noPhy => ~port[cur].dbi2)
  BY DEF PortInv, Registers
<1>2. CASE UNCHANGED pciVars \/ LinkTrains \/ LinkDrops \/ RetrainWait
  <2>1. /\ UNCHANGED <<port, noPhy, cur, bridge, dev, caps>>
        /\ UNCHANGED pc \/ pc' = "retrain"
    <3>1. CASE UNCHANGED pciVars \/ LinkTrains \/ LinkDrops
      BY <3>1, Zenon DEF pciVars, tree, env, LinkTrains, LinkDrops
    <3>2. CASE RetrainWait
      BY <3>2 DEF RetrainWait, tree, env
    <3> QED BY <1>2, <3>1, <3>2
  <2> QED BY <1>1, <2>1, PortsStill DEF Computed
<1>3. CASE \/ BmNode \/ BmTreeRead \/ BsNode \/ BsTreeRead \/ NoPartner \/ LinkUp \/ CoreReset \/ WaitOn \/ AnswerWait
           \/ BsNext \/ BmAllUp \/ FirstCap \/ CapWalk \/ Retrained \/ SecondWait
  <2>1. UNCHANGED <<port, noPhy, cur>>
    BY <1>3, Zenon
       DEF BmNode, BmTreeRead, BsNode, BsTreeRead, NoPartner, LinkUp, CoreReset, WaitOn, AnswerWait, BsNext, BmAllUp,
           FirstCap, CapWalk, Retrained, SecondWait, tree, env
  <2>2. pc' \notin Computed \cup {"retraining"}
    <3>1. CASE BmNode \/ BmTreeRead \/ BsNode \/ BsTreeRead \/ BsNext \/ BmAllUp
      BY <3>1 DEF BmNode, BmTreeRead, BsNode, BsTreeRead, BsNext, BmAllUp, Computed
    <3>2. CASE NoPartner \/ LinkUp \/ CoreReset \/ WaitOn \/ AnswerWait
      BY <3>2 DEF NoPartner, LinkUp, CoreReset, WaitOn, AnswerWait, Polled, Computed
    <3>3. CASE FirstCap \/ CapWalk \/ Retrained \/ SecondWait
      BY <3>3 DEF FirstCap, CapWalk, Retrained, SecondWait, Computed
    <3> QED BY <1>3, <3>1, <3>2, <3>3
  <2> QED BY <1>1, <2>1, <2>2, PortsStill
<1>4. CASE BmRootPort \/ BsRootPort
  <2>1. Head(todo) \in Segs /\ UNCHANGED noPhy /\ cur' = Head(todo) /\ pc' = "wait"
    <3>1. todo # <<>> /\ todo' = Tail(todo) /\ UNCHANGED <<soc, nodes, bridge, idxs, noPhy>> /\ SetWindows(Head(todo))
          /\ cur' = Head(todo) /\ pc' = "wait"
      BY <1>4, Zenon DEF BmRootPort, BsRootPort, StartWait
    <3> QED BY <3>1, TodoTaken
  <2>2. PICK v : Training(Head(todo), v)
    BY <1>4, Zenon DEF BmRootPort, BsRootPort
  <2> DEFINE x == [Reset0 EXCEPT !.ltssm = TRUE, !.target = v]
  <2>3. DOMAIN x = Registers /\ ~x.dbi2
    BY DEF Reset0, Registers
  <2>4. port' = [port EXCEPT ![Head(todo)] = x]
    BY <2>2 DEF Training
  <2> HIDE DEF x
  <2> QED BY <2>1, <2>3, <2>4, OnePort DEF Computed
<1>5. CASE LinkGivenUp \/ RetrainLost
  <2>1. port' = [port EXCEPT ![cur] = [port[cur] EXCEPT !.ltssm = FALSE]] /\ UNCHANGED <<noPhy, cur>> /\ pc' \in {"next", "retrain"}
    BY <1>1, <1>5 DEF LinkGivenUp, RetrainLost, Polled
  <2> DEFINE x == [port[cur] EXCEPT !.ltssm = FALSE]
  <2>2. DOMAIN x = Registers /\ x.dbi2 = port[cur].dbi2
    BY <1>1, FieldSet
  <2>3. port' = [port EXCEPT ![cur] = x]
    BY <2>1
  <2> HIDE DEF x
  <2> QED BY <1>1, <2>1, <2>2, <2>3, OnePort DEF Computed
<1>6. CASE DeviceAnswered
  <2>1. PICK v : port' = [port EXCEPT ![cur] = [port[cur] EXCEPT !.quirk = v]]
    BY <1>6 DEF DeviceAnswered
  <2>2. UNCHANGED <<noPhy, cur>> /\ pc' \notin Computed \cup {"retraining"}
    BY <1>6 DEF DeviceAnswered, Computed
  <2> DEFINE x == [port[cur] EXCEPT !.quirk = v]
  <2>3. DOMAIN x = Registers /\ x.dbi2 = port[cur].dbi2 /\ port' = [port EXCEPT ![cur] = x]
    BY <1>1, <2>1, FieldSet
  <2> HIDE DEF x
  <2> QED BY <1>1, <2>2, <2>3, OnePort
<1>7. CASE RetrainPick
  <2>1. UNCHANGED <<port, noPhy>> /\ pc' \notin Computed \cup {"retraining"}
    BY <1>7 DEF RetrainPick, Computed
  <2>2. CASE todo = <<>>
    <3>1. cur' = cur
      BY <1>7, <2>2 DEF RetrainPick
    <3> QED BY <1>1, <2>1, <3>1, PortsStill
  <2>3. CASE todo # <<>>
    <3>1. cur' = Head(todo) /\ todo' = Tail(todo) /\ UNCHANGED <<soc, nodes, bridge, idxs, win>>
      BY <1>7, <2>3, Zenon DEF RetrainPick, tree
    <3>2. Head(todo) \in Segs
      BY <2>3, <3>1, TodoTaken
    <3> QED BY <2>1, <3>1, <3>2, PortsStill
  <2> QED BY <2>2, <2>3
<1>8. CASE SetupPhy
  <2>1. UNCHANGED <<cur, bridge, dev, caps>> /\ {pc, pc'} \subseteq Computed /\ pc' # "retraining"
    BY <1>8 DEF SetupPhy, Computed, tree, env, caps
  <2>2. CASE UNCHANGED <<port, noPhy>>
    BY <1>1, <2>1, <2>2, PortsStill
  <2>3. CASE port' = [port EXCEPT ![cur].dbi2 = TRUE] /\ noPhy' = noPhy \cup {cur}
    <3>1. port' = [port EXCEPT ![cur] = [port[cur] EXCEPT !.dbi2 = TRUE]] /\ cur \in noPhy' /\ noPhy \subseteq noPhy'
      BY <2>3
    <3> DEFINE x == [port[cur] EXCEPT !.dbi2 = TRUE]
    <3>2. DOMAIN x = Registers /\ port' = [port EXCEPT ![cur] = x]
      BY <1>1, <3>1, FieldSet
    <3> HIDE DEF x
    <3> QED BY <1>1, <2>1, <3>1, <3>2, OnePort
  <2> QED BY <1>8, <2>2, <2>3, Zenon DEF SetupPhy
<1>9. CASE SetTarget
  <2>1. UNCHANGED <<bridge, dev, cur, noPhy, blind, asked>> /\ pc' = "retraining" /\ pc = "target"
    BY <1>9, Zenon DEF SetTarget, tree, caps
  <2>4. asked = Wanted(cur) /\ pc' \notin Computed
    BY <2>1 DEF PortInv, Computed
  <2>2. CASE port[cur].dbi2
    <3>1. UNCHANGED port
      BY <1>9, <2>2 DEF SetTarget
    <3>2. cur \in noPhy
      BY <1>1, <2>2
    <3>3. SpeedReachesPort'
      BY <2>1, <3>2 DEF SpeedReachesPort
    <3> QED BY <1>1, <2>1, <2>4, <3>1, <3>3 DEF PortInv
  <2>3. CASE ~port[cur].dbi2
    <3> DEFINE x == [port[cur] EXCEPT !.target = asked]
    <3>1. port' = [port EXCEPT ![cur] = x]
      BY <1>9, <2>3 DEF SetTarget
    <3>2. DOMAIN x = Registers /\ x.dbi2 = port[cur].dbi2 /\ x.target = Wanted(cur)
      BY <1>1, <2>4, FieldSet
    <3> HIDE DEF x
    <3>3. DOMAIN port' = Segs /\ port'[cur] = x /\ \A v \in Segs \ {cur} : port'[v] = port[v]
      BY <1>1, <3>1
    <3>4. SpeedReachesPort'
      BY <2>1, <3>2, <3>3 DEF SpeedReachesPort, Wanted
    <3>5. \A v \in Segs : DOMAIN port'[v] = Registers
      BY <3>2, <3>3 DEF PortInv, Registers
    <3>6. \A v \in Segs \ noPhy' : ~port'[v].dbi2
      BY <2>1, <2>3, <3>2, <3>3 DEF PortInv
    <3> QED BY <1>1, <2>1, <2>4, <3>3, <3>4, <3>5, <3>6 DEF PortInv, Registers
  <2> QED BY <2>2, <2>3
<1>10. CASE ReadSpeed
  <2>1. UNCHANGED <<bridge, dev, cur, noPhy, port>> /\ pc' = "status"
    BY <1>10, Zenon DEF ReadSpeed, tree, env
  <2>2. asked' = Wanted(cur)'
    <3>1. asked' = Min({DevCapSpeed, bridge[cur].max})
      BY <1>10 DEF ReadSpeed
    <3>2. CASE Up(cur)
      BY <1>10, <2>1, <3>1, <3>2 DEF ReadSpeed, DevCapSpeed, Wanted
    <3>3. CASE ~Up(cur)
      BY <1>10, <2>1, <3>1, <3>3 DEF ReadSpeed, DevCapSpeed, Wanted
    <3> QED BY <3>2, <3>3
  <2>3. SpeedReachesPort'
    BY <2>1 DEF SpeedReachesPort
  <2> QED BY <1>1, <2>1, <2>2, <2>3 DEF PortInv
<1>11. CASE ReadStatus
  <2>1. UNCHANGED <<port, noPhy, cur, bridge, dev, caps>> /\ pc = "status" /\ pc' \in {"retrain", "phy", "target"}
    BY <1>11 DEF ReadStatus, tree, env
  <2> QED BY <1>1, <2>1, PortsStill DEF Computed
<1> QED BY <1>2, <1>3, <1>4, <1>5, <1>6, <1>7, <1>8, <1>9, <1>10, <1>11, Zenon DEF PciNext, Constructor

----------------------------------------------------------------------------
(***************************************************************************)
(* The theorems.                                                           *)
(***************************************************************************)
\* Each bridge that is listed keeps the region it was taken with, its windows are those of that
\* region, and only a port without PHY has DBI2 open: for every tree and every behaviour of the links.
THEOREM PciInvariant == PciSpec => []PciInv
<1>1. PciInv /\ [PciNext]_pciVars => PciInv'
  BY TreeStep, PortStep DEF PciInv
<1> QED BY <1>1, InitHolds, PTL DEF PciSpec

\* Every configuration address of a bus of a bridge falls into exactly one window, of the type
\* that its bus asks for, and is translated to the function it names; and the transfers of a
\* buffer cover it.
THEOREM PciRegistersReached == PciSpec => []RegistersReached
<1>1. PciInv => RegistersReached
  <2> SUFFICES ASSUME PciInv PROVE ConfigRoute
    BY BuffersCovered DEF RegistersReached
  <2>1. TreeTypes /\ ListedFit /\ WindowsOf
    BY DEF PciInv, TreeInv
  <2> SUFFICES ASSUME NEW s \in Segs, win[s] # {},
                      NEW b \in 0 .. (bridge[s].size \div Bus) - 1, NEW d \in 0 .. (Bus \div Dev) - 1, NEW f \in 0 .. Dev - 1,
                      ConfigBase(s, b, d, f).where = "window"
               PROVE  Reached(s, b, d, f)
    BY Zenon DEF ConfigRoute, Reached
  <2>2. Listed(s) /\ win[s] = ConfigWindows(s)
    BY <2>1 DEF WindowsOf
  <2>3. Fit(bridge[s])
    BY <2>1, <2>2 DEF ListedFit, Listed
  <2>4. bridge[s] \in [base : Nat, size : Nat, max : Nat]
    BY <2>1 DEF TreeTypes, Entry
  <2> QED BY <2>2, <2>3, <2>4, Routed
<1> QED BY <1>1, PciInvariant, PTL

\* A port whose PHY answers retrains with the speed that its device and its limit allow in its
\* registers.
THEOREM PciSpeedReachesPort == PciSpec => []SpeedReachesPort
<1>1. PciInv => SpeedReachesPort
  BY DEF PciInv, PortInv
<1> QED BY <1>1, PciInvariant, PTL
=============================================================================
