-------------------------- MODULE FruClient_proofs --------------------------
(* FruClientDxe, for every size of the EEPROM and its pages, every manufacturer and every set of images.        *)
(* SetBoardPowerPolicy rewrites a policy of the factory in place, else it clears the end bit of the last record *)
(* and appends one behind the chain.  At every cut or refused page the EEPROM differs from the image in the     *)
(* bytes of such a rewrite only (Framed); if the header it changes has its checksum, the records are found as   *)
(* the factory stored them (Good), and if not the walk stops in front of that header (Broken).                  *)
EXTENDS FruClient, SequenceTheorems, FiniteSetTheorems, NaturalsInduction, WellFoundedInduction, TLAPS

\* Every set of numbers has a least one.
LEMMA NatMin ==
  ASSUME NEW T, T \subseteq Nat, T # {}
  PROVE  \E x \in T : \A y \in T : x <= y
<1> DEFINE R == {ss \in Nat \X Nat : ss[1] < ss[2]}
<1>1. IsWellFoundedOn(R, Nat)
  BY NatLessThanWellFounded DEF OpToRel
<1> HIDE DEF R
<1>2. PICK x \in T : \A y \in T : ~(<<y, x>> \in R)
  BY <1>1, WFMin
<1>3. ASSUME NEW y \in T PROVE x <= y
  <2>1. x \in Nat /\ y \in Nat /\ ~(<<y, x>> \in R)
    BY <1>2
  <2> QED BY <2>1 DEF R
<1> QED BY <1>3

Buffers == [0 .. Size - 1 -> 0 .. 255]
Sums(b, p, n) == CHOOSE s : s = [k \in 0 .. n |-> IF k = 0 THEN 0 ELSE (s[k - 1] + b[p + k - 1]) % 256]

\* The checksum is the last of the sums it is built from.
LEMMA SumIsSums == ASSUME NEW b, NEW p, NEW n PROVE Sum(b, p, n) = Sums(b, p, n)[n]
BY DEF Sum, Sums

\* The sums exist: their recursion has a solution.
LEMMA SumsExist ==
  ASSUME NEW b, NEW p, NEW n \in Nat
  PROVE  Sums(b, p, n) = [k \in 0 .. n |-> IF k = 0 THEN 0 ELSE (Sums(b, p, n)[k - 1] + b[p + k - 1]) % 256]
<1> DEFINE Solves(s, m) == s = [k \in 0 .. m |-> IF k = 0 THEN 0 ELSE (s[k - 1] + b[p + k - 1]) % 256]
           Open == {m \in Nat : ~ \E s : Solves(s, m)}
<1>1. Open = {}
  <2> SUFFICES ASSUME Open # {} PROVE FALSE
    OBVIOUS
  <2>1. PICK m \in Open : \A y \in Open : m <= y
    <3>1. Open \subseteq Nat
      OBVIOUS
    <3> HIDE DEF Open
    <3> QED BY <3>1, NatMin
  <2>2. Solves([k \in 0 .. 0 |-> 0], 0)
    OBVIOUS
  <2>3. m # 0
    BY <2>1, <2>2
  <2>4. m - 1 \in Nat /\ m - 1 \notin Open
    BY <2>1, <2>3
  <2>5. PICK s : Solves(s, m - 1)
    BY <2>4
  <2> DEFINE t == [k \in 0 .. m |-> IF k = m THEN (s[m - 1] + b[p + m - 1]) % 256 ELSE s[k]]
  <2>6. Solves(t, m)
    <3>1. ASSUME NEW k \in 0 .. m PROVE t[k] = IF k = 0 THEN 0 ELSE (t[k - 1] + b[p + k - 1]) % 256
      BY <2>3, <2>4, <2>5
    <3> QED BY <3>1
  <2> QED BY <2>1, <2>6
<1>2. PICK s : Solves(s, n)
  <2>1. n \notin Open
    BY <1>1
  <2> QED BY <2>1
<1> QED BY <1>2 DEF Sums

\* A byte may be taken before a sum or after it.
LEMMA ModAdd == ASSUME NEW x \in Int, NEW y \in Int PROVE ((x % 256) + y) % 256 = (x + y) % 256 /\ x % 256 \in 0 .. 255
OBVIOUS

\* The sum of two bytes, in a byte.
LEMMA ModByte == ASSUME NEW x \in 0 .. 255, NEW y \in 0 .. 255 PROVE (x + y) % 256 \in 0 .. 255
OBVIOUS

\* Each sum adds one byte to the one before.
LEMMA SumsRun ==
  ASSUME NEW b, NEW p \in Int, NEW n \in Nat, \A i \in p .. p + n - 1 : b[i] \in 0 .. 255
  PROVE  /\ Sums(b, p, n)[0] = 0 /\ \A k \in 0 .. n : Sums(b, p, n)[k] \in 0 .. 255
         /\ \A k \in 1 .. n : Sums(b, p, n)[k] = (Sums(b, p, n)[k - 1] + b[p + k - 1]) % 256
<1> DEFINE s == Sums(b, p, n)
<1>1. s[0] = 0 /\ \A k \in 1 .. n : s[k] = (s[k - 1] + b[p + k - 1]) % 256
  BY SumsExist
<1> HIDE DEF s
<1> DEFINE Bad == {k \in 0 .. n : s[k] \notin 0 .. 255}
<1>2. Bad = {}
  <2> SUFFICES ASSUME Bad # {} PROVE FALSE
    OBVIOUS
  <2>1. PICK m \in Bad : \A y \in Bad : m <= y
    <3>1. Bad \subseteq Nat
      OBVIOUS
    <3> HIDE DEF Bad
    <3> QED BY <3>1, NatMin
  <2>2. m # 0
    BY <1>1, <2>1
  <2>3. m - 1 \in 0 .. n /\ m - 1 \notin Bad
    BY <2>1, <2>2
  <2>4. s[m] = (s[m - 1] + b[p + m - 1]) % 256 /\ s[m - 1] \in 0 .. 255 /\ b[p + m - 1] \in 0 .. 255
    BY <1>1, <2>1, <2>2, <2>3
  <2>5. s[m] \in 0 .. 255
    <3>1. (s[m - 1] + b[p + m - 1]) % 256 \in 0 .. 255
      BY <2>4, ModByte
    <3> QED BY <2>4, <3>1
  <2> QED BY <2>1, <2>5
<1> QED BY <1>1, <1>2 DEF s

\* A checksum is a byte.
LEMMA SumRange ==
  ASSUME NEW b, NEW p \in Int, NEW n \in Nat, \A i \in p .. p + n - 1 : b[i] \in 0 .. 255
  PROVE  Sum(b, p, n) \in 0 .. 255
BY SumsRun, SumIsSums

\* A checksum depends on the bytes it is taken over only.
LEMMA SumSame ==
  ASSUME NEW b, NEW c, NEW p \in Int, NEW n \in Nat, \A i \in p .. p + n - 1 : b[i] \in 0 .. 255 /\ c[i] = b[i]
  PROVE  Sum(c, p, n) = Sum(b, p, n)
<1> DEFINE s == Sums(b, p, n)
           t == Sums(c, p, n)
           Differ == {k \in 0 .. n : s[k] # t[k]}
<1>1. /\ s[0] = 0 /\ \A k \in 1 .. n : s[k] = (s[k - 1] + b[p + k - 1]) % 256
      /\ t[0] = 0 /\ \A k \in 1 .. n : t[k] = (t[k - 1] + c[p + k - 1]) % 256
  <2>1. \A i \in p .. p + n - 1 : b[i] \in 0 .. 255
    OBVIOUS
  <2>2. \A i \in p .. p + n - 1 : c[i] \in 0 .. 255
    OBVIOUS
  <2>3. s[0] = 0 /\ \A k \in 1 .. n : s[k] = (s[k - 1] + b[p + k - 1]) % 256
    BY <2>1, SumsRun
  <2>4. t[0] = 0 /\ \A k \in 1 .. n : t[k] = (t[k - 1] + c[p + k - 1]) % 256
    BY <2>2, SumsRun
  <2> QED BY <2>3, <2>4
<1> HIDE DEF s, t
<1>2. Differ = {}
  <2> SUFFICES ASSUME Differ # {} PROVE FALSE
    OBVIOUS
  <2>1. PICK m \in Differ : \A y \in Differ : m <= y
    <3>1. Differ \subseteq Nat
      OBVIOUS
    <3> HIDE DEF Differ
    <3> QED BY <3>1, NatMin
  <2>2. m # 0
    BY <1>1, <2>1
  <2>3. m - 1 \in 0 .. n /\ m - 1 \notin Differ
    BY <2>1, <2>2
  <2>4. b[p + m - 1] = c[p + m - 1]
    BY <2>1, <2>2
  <2> QED BY <1>1, <2>1, <2>2, <2>3, <2>4
<1> QED BY <1>2, SumIsSums DEF s, t

\* The checksums of a header.
LEMMA SumOfHeader ==
  ASSUME NEW b, NEW p \in Int, \A i \in p .. p + 4 : b[i] \in 0 .. 255
  PROVE  /\ Sum(b, p, 4) = (b[p] + b[p + 1] + b[p + 2] + b[p + 3]) % 256
         /\ Sum(b, p, 5) = (b[p] + b[p + 1] + b[p + 2] + b[p + 3] + b[p + 4]) % 256
<1>1. b[p] \in 0 .. 255 /\ b[p + 1] \in 0 .. 255 /\ b[p + 2] \in 0 .. 255 /\ b[p + 3] \in 0 .. 255 /\ b[p + 4] \in 0 .. 255
  OBVIOUS
<1>2. ASSUME NEW n \in {4, 5}
      PROVE  Sums(b, p, n)[4] = (((((((0 + b[p]) % 256) + b[p + 1]) % 256) + b[p + 2]) % 256) + b[p + 3]) % 256
  <2> DEFINE s == Sums(b, p, n)
  <2>1. s[0] = 0 /\ \A k \in 1 .. n : s[k] = (s[k - 1] + b[p + k - 1]) % 256
    <3>1. n \in Nat /\ \A i \in p .. p + n - 1 : b[i] \in 0 .. 255
      OBVIOUS
    <3> QED BY <3>1, SumsRun
  <2> HIDE DEF s
  <2>2. s[1] = (s[0] + b[p]) % 256 /\ s[2] = (s[1] + b[p + 1]) % 256 /\ s[3] = (s[2] + b[p + 2]) % 256 /\ s[4] = (s[3] + b[p + 3]) % 256
    <3>1. s[1] = (s[1 - 1] + b[p + 1 - 1]) % 256 /\ s[2] = (s[2 - 1] + b[p + 2 - 1]) % 256
          /\ s[3] = (s[3 - 1] + b[p + 3 - 1]) % 256 /\ s[4] = (s[4 - 1] + b[p + 4 - 1]) % 256
      BY <2>1
    <3> QED BY <3>1
  <2>3. s[4] = (((((((0 + b[p]) % 256) + b[p + 1]) % 256) + b[p + 2]) % 256) + b[p + 3]) % 256
    <3>1. s[1] = (0 + b[p]) % 256
      BY <2>1, <2>2
    <3>2. s[2] = (((0 + b[p]) % 256) + b[p + 1]) % 256
      BY <2>2, <3>1
    <3>3. s[3] = (((((0 + b[p]) % 256) + b[p + 1]) % 256) + b[p + 2]) % 256
      BY <2>2, <3>2
    <3> QED BY <2>2, <3>3
  <2> QED BY <2>3 DEF s
<1>3. Sums(b, p, 5)[5] = (Sums(b, p, 5)[4] + b[p + 4]) % 256
  <2>1. Sums(b, p, 5)[5] = (Sums(b, p, 5)[5 - 1] + b[p + 5 - 1]) % 256
    BY SumsRun
  <2> QED BY <2>1
<1>4. Sum(b, p, 4) = (((((((0 + b[p]) % 256) + b[p + 1]) % 256) + b[p + 2]) % 256) + b[p + 3]) % 256
  BY <1>2, SumIsSums
<1>5. Sum(b, p, 5) = (((((((((0 + b[p]) % 256) + b[p + 1]) % 256) + b[p + 2]) % 256) + b[p + 3]) % 256) + b[p + 4]) % 256
  BY <1>2, <1>3, SumIsSums
<1>6. /\ (((((((0 + b[p]) % 256) + b[p + 1]) % 256) + b[p + 2]) % 256) + b[p + 3]) % 256 = (b[p] + b[p + 1] + b[p + 2] + b[p + 3]) % 256
      /\ (((((((((0 + b[p]) % 256) + b[p + 1]) % 256) + b[p + 2]) % 256) + b[p + 3]) % 256) + b[p + 4]) % 256
           = (b[p] + b[p + 1] + b[p + 2] + b[p + 3] + b[p + 4]) % 256
  <2>1. PICK u \in 0 .. 255, v \in 0 .. 255, x \in 0 .. 255, y \in 0 .. 255, z \in 0 .. 255 :
          u = b[p] /\ v = b[p + 1] /\ x = b[p + 2] /\ y = b[p + 3] /\ z = b[p + 4]
    BY <1>1, Zenon
  <2>2. /\ (((((((0 + u) % 256) + v) % 256) + x) % 256) + y) % 256 = (u + v + x + y) % 256
        /\ (((((((((0 + u) % 256) + v) % 256) + x) % 256) + y) % 256) + z) % 256 = (u + v + x + y + z) % 256
    OBVIOUS
  <2> QED BY <2>1, <2>2
<1> QED BY <1>4, <1>5, <1>6

\* What is stored as a checksum brings the sum to zero.
LEMMA Checksum == ASSUME NEW x \in 0 .. 255 PROVE Negated(x) \in 0 .. 255 /\ (x + Negated(x)) % 256 = 0
BY DEF Negated

----------------------------------------------------------------------------
(* The chain of records. *)

Walks(b) == CHOOSE w : w = [p \in 0 .. Size |-> IF ~ParseHeader(b, p) THEN <<>>
                                               ELSE IF EndBit(b, p) \/ Next1(b, p) > Size THEN <<p>>
                                               ELSE <<p>> \o w[Next1(b, p)]]

\* A byte of a buffer.
LEMMA BufferByte == ASSUME NEW b \in Buffers, NEW i \in 0 .. Size - 1 PROVE b[i] \in 0 .. 255
BY DEF Buffers

\* A header that adds up lies in the buffer, and the walk goes on behind it.
LEMMA HeaderInside ==
  ASSUME NEW b \in Buffers, NEW p \in Nat, ParseHeader(b, p)
  PROVE  p + 5 <= Size /\ Length(b, p) \in 0 .. 255 /\ Next1(b, p) \in Nat /\ Next1(b, p) >= p + 5
<1>1. Size \in Nat /\ p + 5 <= Size
  BY FruAssumption DEF ParseHeader, FruAssumption
<1>2. b[p + 2] \in 0 .. 255
  BY <1>1, BufferByte
<1> QED BY <1>1, <1>2 DEF Length, Next1

\* The walks from all places exist: each goes on where its record ends.
LEMMA WalksExist ==
  ASSUME NEW b \in Buffers
  PROVE  Walks(b) = [p \in 0 .. Size |-> IF ~ParseHeader(b, p) THEN <<>>
                                        ELSE IF EndBit(b, p) \/ Next1(b, p) > Size THEN <<p>>
                                        ELSE <<p>> \o Walks(b)[Next1(b, p)]]
<1> DEFINE Solves(w, m) == w = [p \in m .. Size |-> IF ~ParseHeader(b, p) THEN <<>>
                                                   ELSE IF EndBit(b, p) \/ Next1(b, p) > Size THEN <<p>>
                                                   ELSE <<p>> \o w[Next1(b, p)]]
           Open == {d \in 0 .. Size : ~ \E w : Solves(w, Size - d)}
<1>0. Size \in Nat
  BY FruAssumption DEF FruAssumption
<1>1. Open = {}
  <2> SUFFICES ASSUME Open # {} PROVE FALSE
    OBVIOUS
  <2>1. PICK d \in Open : \A y \in Open : d <= y
    <3>1. Open \subseteq Nat
      BY <1>0
    <3> HIDE DEF Open
    <3> QED BY <3>1, NatMin
  <2> DEFINE m == Size - d
  <2>2. d # 0
    <3>1. ~ParseHeader(b, Size)
      BY <1>0 DEF ParseHeader
    <3>2. Solves([p \in Size .. Size |-> <<>>], Size)
      BY <1>0, <3>1
    <3>3. 0 \notin Open
      <4>1. Size - 0 = Size
        BY <1>0
      <4> QED BY <3>2, <4>1
    <3> QED BY <2>1, <3>3
  <2>3. d - 1 \in 0 .. Size /\ d - 1 \notin Open /\ Size - (d - 1) = m + 1 /\ m \in 0 .. Size /\ m + 1 \in 0 .. Size
    <3>1. d \in 1 .. Size
      BY <1>0, <2>1, <2>2
    <3>2. d - 1 \notin Open
      BY <2>1, <3>1
    <3>3. d - 1 \in 0 .. Size /\ Size - (d - 1) = m + 1 /\ m \in 0 .. Size /\ m + 1 \in 0 .. Size
      BY <1>0, <3>1 DEF m
    <3> QED BY <3>2, <3>3
  <2>4. PICK w : Solves(w, m + 1)
    BY <2>3
  <2> DEFINE first == IF ~ParseHeader(b, m) THEN <<>> ELSE IF EndBit(b, m) \/ Next1(b, m) > Size THEN <<m>>
                      ELSE <<m>> \o w[Next1(b, m)]
             t == [p \in m .. Size |-> IF p = m THEN first ELSE w[p]]
  <2>5. ASSUME NEW p \in m .. Size
        PROVE t[p] = IF ~ParseHeader(b, p) THEN <<>> ELSE IF EndBit(b, p) \/ Next1(b, p) > Size THEN <<p>>
                     ELSE <<p>> \o t[Next1(b, p)]
    <3>1. ParseHeader(b, p) /\ ~(Next1(b, p) > Size) => Next1(b, p) \in m + 1 .. Size /\ Next1(b, p) # m
      BY <1>0, <2>3, HeaderInside
    <3>2. ParseHeader(b, p) /\ ~(Next1(b, p) > Size) => t[Next1(b, p)] = w[Next1(b, p)]
      BY <2>3, <3>1
    <3>3. CASE p = m
      BY <2>3, <3>2, <3>3
    <3>4. CASE p # m
      <4>1. p \in m + 1 .. Size /\ t[p] = w[p]
        BY <2>3, <3>4
      <4> QED BY <2>4, <3>2, <4>1
    <3> QED BY <3>3, <3>4
  <2>6. Solves(t, m)
    BY <2>5
  <2> QED BY <2>1, <2>6
<1>2. Solves(Walks(b), 0)
  <2>1. \E w : Solves(w, 0)
    <3>1. Size \in 0 .. Size /\ Size - Size = 0
      BY <1>0
    <3> QED BY <1>1, <3>1
  <2> QED BY <2>1 DEF Walks
<1> QED BY <1>2

\* The headers met from the first element of s on.
Chained(b, s) ==
  /\ s \in Seq(Nat) /\ Len(s) > 0
  /\ \A i \in 1 .. Len(s) : ParseHeader(b, s[i])
  /\ \A i \in 1 .. Len(s) - 1 : ~EndBit(b, s[i]) /\ Next1(b, s[i]) <= Size /\ s[i + 1] = Next1(b, s[i])
  /\ \/ EndBit(b, s[Len(s)])
     \/ Next1(b, s[Len(s)]) > Size
     \/ ~ParseHeader(b, Next1(b, s[Len(s)]))

\* A walk from a header that adds up is a chain of records.
LEMMA WalksChained ==
  ASSUME NEW b \in Buffers, NEW p \in 0 .. Size, ParseHeader(b, p)
  PROVE  Chained(b, Walks(b)[p]) /\ Walks(b)[p][1] = p
<1> DEFINE w == Walks(b)
           Bad == {d \in 0 .. Size : ParseHeader(b, Size - d) /\ ~(Chained(b, w[Size - d]) /\ w[Size - d][1] = Size - d)}
<1>0. Size \in Nat
  BY FruAssumption DEF FruAssumption
<1>1. w = [q \in 0 .. Size |-> IF ~ParseHeader(b, q) THEN <<>> ELSE IF EndBit(b, q) \/ Next1(b, q) > Size THEN <<q>>
                              ELSE <<q>> \o w[Next1(b, q)]]
  BY WalksExist
<1> HIDE DEF w
<1>2. Bad = {}
  <2> SUFFICES ASSUME Bad # {} PROVE FALSE
    OBVIOUS
  <2>1. PICK d \in Bad : \A y \in Bad : d <= y
    <3>1. Bad \subseteq Nat
      BY <1>0
    <3> HIDE DEF Bad
    <3> QED BY <3>1, NatMin
  <2> DEFINE q == Size - d
             n == Next1(b, q)
  <2>2. d \in 0 .. Size /\ q \in 0 .. Size /\ ParseHeader(b, q) /\ ~(Chained(b, w[q]) /\ w[q][1] = q)
    BY <1>0, <2>1
  <2> HIDE DEF q
  <2>3. n \in Nat /\ n >= q + 5
    BY <2>2, HeaderInside
  <2> HIDE DEF n
  <2>4. w[q] = IF EndBit(b, q) \/ n > Size THEN <<q>> ELSE <<q>> \o w[n]
    BY <1>1, <2>2 DEF n
  <2>5. (EndBit(b, q) \/ n > Size \/ ~ParseHeader(b, n)) /\ w[q] = <<q>> => Chained(b, w[q]) /\ w[q][1] = q
    BY <2>2 DEF Chained, n
  <2>6. CASE EndBit(b, q) \/ n > Size
    BY <2>2, <2>4, <2>5, <2>6
  <2>7. CASE ~EndBit(b, q) /\ n <= Size /\ ~ParseHeader(b, n)
    <3>1. w[n] = <<>>
      BY <1>0, <1>1, <2>3, <2>7
    <3>2. <<q>> \o <<>> = <<q>>
      BY <2>2
    <3> QED BY <2>2, <2>3, <2>4, <2>5, <2>7, <3>1, <3>2
  <2>8. CASE ~EndBit(b, q) /\ n <= Size /\ ParseHeader(b, n)
    <3>1. Chained(b, w[n]) /\ w[n][1] = n
      <4>1. Size - n \in 0 .. Size /\ Size - n < d /\ Size - (Size - n) = n
        BY <1>0, <2>2, <2>3, <2>8 DEF q
      <4>2. Size - n \notin Bad
        BY <2>1, <2>2, <4>1
      <4> QED BY <2>8, <4>1, <4>2
    <3> DEFINE t == w[n]
               u == <<q>> \o t
    <3>2. t \in Seq(Nat) /\ Len(t) > 0 /\ Len(t) \in Nat /\ q \in Nat
      BY <1>0, <2>2, <3>1 DEF Chained
    <3>3. w[q] = u
      <4>1. ~(n > Size)
        BY <1>0, <2>3, <2>8
      <4>2. w[q] = <<q>> \o w[n]
        BY <2>4, <2>8, <4>1, Zenon
      <4> QED BY <4>2
    <3>4. Chained(b, t) /\ t[1] = n
      BY <3>1
    <3> HIDE DEF t
    <3>5. u \in Seq(Nat) /\ Len(u) = Len(t) + 1 /\ u[1] = q /\ \A i \in 1 .. Len(t) : u[i + 1] = t[i]
      BY <3>2
    <3> HIDE DEF u
    <3>6. ASSUME NEW i \in 1 .. Len(u) PROVE ParseHeader(b, u[i])
      <4>1. CASE i = 1
        BY <2>2, <3>5, <4>1
      <4>2. CASE i # 1
        <5>1. i - 1 \in 1 .. Len(t) /\ (i - 1) + 1 = i
          BY <3>2, <3>5, <4>2
        <5>2. u[i] = t[i - 1]
          BY <3>5, <5>1
        <5> QED BY <3>4, <5>1, <5>2 DEF Chained
      <4> QED BY <4>1, <4>2
    <3>7. ASSUME NEW i \in 1 .. Len(u) - 1 PROVE ~EndBit(b, u[i]) /\ Next1(b, u[i]) <= Size /\ u[i + 1] = Next1(b, u[i])
      <4>1. CASE i = 1
        BY <2>8, <3>2, <3>4, <3>5, <4>1 DEF n
      <4>2. CASE i # 1
        <5>1. i - 1 \in 1 .. Len(t) - 1 /\ (i - 1) + 1 = i /\ i - 1 \in 1 .. Len(t) /\ i \in 1 .. Len(t)
          <6>1. i \in 1 .. (Len(t) + 1) - 1 /\ Len(t) \in Nat
            BY <3>2, <3>5
          <6> QED BY <4>2, <6>1
        <5>2. u[i] = t[i - 1] /\ u[i + 1] = t[i]
          BY <3>5, <5>1
        <5> QED BY <3>4, <5>1, <5>2 DEF Chained
      <4> QED BY <4>1, <4>2
    <3>8. u[Len(u)] = t[Len(t)]
      <4> DEFINE k == Len(t)
      <4>1. Len(u) = k + 1 /\ k \in Nat /\ k > 0 /\ \A i \in 1 .. k : u[i + 1] = t[i]
        BY <3>2, <3>5
      <4> HIDE DEF k
      <4>2. k \in 1 .. k
        BY <4>1
      <4>3. u[k + 1] = t[k]
        BY <4>1, <4>2
      <4>4. u[Len(u)] = t[k]
        BY <4>1, <4>3, Zenon
      <4> QED BY <4>4 DEF k
    <3>9. Chained(b, u)
      <4>1. Len(u) > 0
        BY <3>2, <3>5
      <4> QED BY <3>4, <3>5, <3>6, <3>7, <3>8, <4>1 DEF Chained
    <3> QED BY <2>2, <3>3, <3>5, <3>9
  <2> QED BY <1>0, <2>3, <2>6, <2>7, <2>8
<1>3. Size - p \in 0 .. Size /\ Size - (Size - p) = p
  BY <1>0
<1> QED BY <1>2, <1>3 DEF w

\* There is one chain from a position.
LEMMA ChainWithin ==
  ASSUME NEW b, NEW s, NEW t, Chained(b, s), Chained(b, t), s[1] = t[1]
  PROVE  Len(s) <= Len(t) /\ \A i \in 1 .. Len(s) : s[i] = t[i]
<1>0. s \in Seq(Nat) /\ t \in Seq(Nat) /\ Len(s) \in Nat /\ Len(t) \in Nat /\ Len(s) > 0 /\ Len(t) > 0
  BY DEF Chained
<1> DEFINE Bad == {i \in 1 .. Len(s) : ~(i <= Len(t) /\ s[i] = t[i])}
<1>1. Bad = {}
  <2> SUFFICES ASSUME Bad # {} PROVE FALSE
    OBVIOUS
  <2>1. PICK m \in Bad : \A y \in Bad : m <= y
    <3>1. Bad \subseteq Nat
      BY <1>0
    <3> HIDE DEF Bad
    <3> QED BY <3>1, NatMin
  <2>2. m # 1
    BY <1>0, <2>1
  <2> DEFINE k == m - 1
  <2>3. k \in 1 .. Len(s) - 1 /\ k \in 1 .. Len(s) /\ k + 1 = m /\ k \notin Bad
    <3>1. m \in 1 .. Len(s)
      BY <2>1
    <3>2. k \in 1 .. Len(s) - 1 /\ k \in 1 .. Len(s) /\ k + 1 = m /\ ~(m <= k)
      BY <1>0, <2>2, <3>1
    <3> QED BY <2>1, <3>2
  <2>4. k \in 1 .. Len(t) /\ s[k] = t[k] /\ ~EndBit(b, s[k]) /\ Next1(b, s[k]) <= Size /\ s[m] = Next1(b, s[k])
    BY <1>0, <2>3 DEF Chained
  <2>5. ParseHeader(b, Next1(b, s[k])) /\ Size \in Nat /\ Next1(b, s[k]) \in Nat
    <3>1. s[m] \in Nat /\ ParseHeader(b, s[m])
      BY <1>0, <2>1 DEF Chained
    <3> QED BY <2>4, <3>1, FruAssumption DEF FruAssumption
  <2>6. k # Len(t)
    <3>1. ~(Next1(b, s[k]) > Size)
      BY <2>4, <2>5
    <3> QED BY <2>4, <2>5, <3>1 DEF Chained
  <2>7. k \in 1 .. Len(t) - 1 /\ m <= Len(t)
    BY <1>0, <2>3, <2>4, <2>6
  <2>8. t[m] = s[m]
    BY <2>3, <2>4, <2>7 DEF Chained
  <2> QED BY <2>1, <2>7, <2>8
<1>2. Len(s) <= Len(t) /\ \A i \in 1 .. Len(s) : s[i] = t[i]
  <2>1. \A i \in 1 .. Len(s) : i <= Len(t) /\ s[i] = t[i]
    BY <1>1
  <2>2. Len(s) \in 1 .. Len(s)
    BY <1>0
  <2> QED BY <2>1, <2>2
<1> QED BY <1>2

\* There is one chain from a place.
LEMMA ChainUnique ==
  ASSUME NEW b, NEW s, NEW t, Chained(b, s), Chained(b, t), s[1] = t[1]
  PROVE  s = t
<1>1. s \in Seq(Nat) /\ t \in Seq(Nat) /\ Len(s) \in Nat /\ Len(t) \in Nat
  BY DEF Chained
<1>2. Len(s) = Len(t) /\ \A i \in 1 .. Len(s) : s[i] = t[i]
  BY <1>1, ChainWithin
<1> QED BY <1>1, <1>2, SeqEqual

\* Records follow one another.
LEMMA ChainOrdered ==
  ASSUME NEW b \in Buffers, NEW s, Chained(b, s), NEW i \in 1 .. Len(s), NEW j \in 1 .. Len(s), i < j
  PROVE  s[j] >= Next1(b, s[i]) /\ s[j] >= s[i] + 5
<1>0. s \in Seq(Nat) /\ Len(s) \in Nat
  BY DEF Chained
<1>1. ASSUME NEW k \in 1 .. Len(s) PROVE s[k] \in Nat /\ Next1(b, s[k]) \in Nat /\ Next1(b, s[k]) >= s[k] + 5
  BY <1>0, HeaderInside DEF Chained
<1> DEFINE Bad == {k \in 1 .. Len(s) : i < k /\ ~(s[k] >= Next1(b, s[i]))}
<1>2. Bad = {}
  <2> SUFFICES ASSUME Bad # {} PROVE FALSE
    OBVIOUS
  <2>1. PICK m \in Bad : \A y \in Bad : m <= y
    <3>1. Bad \subseteq Nat
      BY <1>0
    <3> HIDE DEF Bad
    <3> QED BY <3>1, NatMin
  <2> DEFINE k == m - 1
  <2>2. k \in 1 .. Len(s) - 1 /\ k \in 1 .. Len(s) /\ k + 1 = m /\ k \notin Bad /\ k >= i
    BY <1>0, <2>1
  <2>3. s[m] = Next1(b, s[k])
    BY <2>2 DEF Chained
  <2>4. CASE k = i
    BY <1>1, <2>1, <2>3, <2>4
  <2>5. CASE k # i
    <3>1. s[k] >= Next1(b, s[i])
      BY <2>2, <2>5
    <3>2. Next1(b, s[k]) >= s[k] + 5 /\ s[k] \in Nat /\ Next1(b, s[k]) \in Nat /\ Next1(b, s[i]) \in Nat
      BY <1>1, <2>2
    <3> QED BY <2>1, <2>3, <3>1, <3>2
  <2> QED BY <2>4, <2>5
<1>3. s[j] >= Next1(b, s[i])
  BY <1>2
<1> QED BY <1>1, <1>3

\* An area starts inside the buffer, at a multiple of eight.
LEMMA AreaType ==
  ASSUME NEW b \in Buffers, NEW i \in 0 .. 7, AreaOf(b, i) # NotFound
  PROVE  /\ AreaOf(b, i) = b[i] * 8 /\ AreaOf(b, i) \in 8 .. Size - 1 /\ CommonHeaderOk(b)
<1>1. Size \in Nat /\ Size >= 8
  BY FruAssumption DEF FruAssumption
<1>2. b[i] \in 0 .. 255
  BY <1>1, BufferByte
<1>3. CommonHeaderOk(b) /\ b[i] # 0 /\ b[i] * 8 < Size /\ AreaOf(b, i) = b[i] * 8
  BY DEF AreaOf
<1> QED BY <1>1, <1>2, <1>3

\* A walk that is not empty is the chain from the area of the records.
LEMMA WalkFacts ==
  ASSUME NEW b \in Buffers, Walk(b) # <<>>
  PROVE  AreaOf(b, 5) # NotFound /\ Chained(b, Walk(b)) /\ Walk(b)[1] = AreaOf(b, 5)
<1>1. Walk(b) = IF AreaOf(b, 5) = NotFound THEN <<>> ELSE Walks(b)[AreaOf(b, 5)]
  BY DEF Walk, Walks
<1>2. AreaOf(b, 5) # NotFound /\ Walk(b) = Walks(b)[AreaOf(b, 5)]
  BY <1>1
<1>3. AreaOf(b, 5) \in 0 .. Size
  BY <1>2, AreaType, FruAssumption DEF FruAssumption
<1>4. ParseHeader(b, AreaOf(b, 5))
  BY <1>2, <1>3, WalksExist
<1> QED BY <1>2, <1>3, <1>4, WalksChained

\* The chain from the area of the records is the walk.
LEMMA WalkIs ==
  ASSUME NEW b \in Buffers, AreaOf(b, 5) # NotFound, NEW s, Chained(b, s), s[1] = AreaOf(b, 5)
  PROVE  Walk(b) = s
<1>1. Walk(b) = Walks(b)[AreaOf(b, 5)]
  BY DEF Walk, Walks
<1>2. AreaOf(b, 5) \in 0 .. Size /\ ParseHeader(b, AreaOf(b, 5))
  BY AreaType, FruAssumption DEF Chained, FruAssumption
<1> QED BY <1>1, <1>2, WalksChained, ChainUnique

----------------------------------------------------------------------------
(* What a buffer keeps of the factory image f. *)

Policied(f) == \E i \in DOMAIN Walk(f) : f[Walk(f)[i]] = PPOL
LastOf(f) == Walk(f)[Len(Walk(f))]
\* The record a rewrite changes first: the policy if there is one, else the last.
Target(f) == IF Policied(f) THEN FirstOf(Walk(f), LAMBDA r : Rewritable(f, r)) ELSE LastOf(f)
Touched(f) == IF Policied(f) THEN Target(f) + 3 .. Target(f) + 4 + Length(f, Target(f))
              ELSE {LastOf(f) + 1, LastOf(f) + 4} \cup End(f) .. Size - 1
NewLength == IF OemId = 0 THEN 1 ELSE 4
\* Behind the chain, if there is room: the header of a policy, the first bytes of one, or nothing yet.
Appended(f, b) == LET e == End(f) IN
  IF e + 9 < Size THEN /\ b[e] \in {PPOL, 255} /\ b[e + 1] \in {130, 255} /\ b[e + 2] \in {NewLength, 255}
                       /\ b[e] = 255 => b[e + 1] = 255
                       /\ b[e + 1] = 255 => b[e + 2] = 255
                       /\ b[e + 2] = 255 => b[e + 3] = 255 /\ b[e + 4] = 255
  ELSE \A i \in e .. Size - 1 : b[i] = 255
\* Everything but the bytes of a rewrite is the factory's.
Framed(f, b) ==
  /\ b \in Buffers
  /\ \A i \in 0 .. Size - 1 : i \notin Touched(f) => b[i] = f[i]
  /\ ~Policied(f) => b[LastOf(f) + 1] \in {f[LastOf(f) + 1], f[LastOf(f) + 1] % 128} /\ Appended(f, b)
Good(f, b) == Framed(f, b) /\ Sum(b, Target(f), 5) = 0
\* A cut left the header of the record that was rewritten without its checksum: the chain ends in front of it.
Broken(f, b) ==
  /\ b \in Buffers
  /\ \A i \in 0 .. 7 : b[i] = f[i]
  /\ \A i \in 1 .. Len(Walk(f)) : Walk(f)[i] < Target(f) => \A j \in Walk(f)[i] .. Walk(f)[i] + 4 : b[j] = f[j]
  /\ Sum(b, Target(f), 5) # 0

\* Min of the community modules, of a set of numbers.
LEMMA MinOf ==
  ASSUME NEW I, I \subseteq Nat, I # {}
  PROVE  Min(I) \in I /\ \A j \in I : Min(I) <= j
BY NatMin DEF Min

\* What is taken for granted of an image with records.
Recorded(f) == f \in Buffers /\ WellFormed(f) /\ AreaOf(f, 5) # NotFound

\* The records of an image lie in order between their area and its end.
LEMMA ImageFacts ==
  ASSUME NEW f, Recorded(f)
  PROVE  /\ Chained(f, Walk(f)) /\ Walk(f) # <<>> /\ Walk(f)[1] = AreaOf(f, 5)
         /\ EndBit(f, LastOf(f)) /\ End(f) = Next1(f, LastOf(f)) /\ End(f) \in Nat /\ End(f) <= Size
         /\ Len(Walk(f)) \in Nat /\ Len(Walk(f)) > 0 /\ LastOf(f) = Walk(f)[Len(Walk(f))]
         /\ \A i \in 1 .. Len(Walk(f)) :
              /\ Walk(f)[i] \in Nat /\ Walk(f)[i] >= 8 /\ Length(f, Walk(f)[i]) \in 0 .. 255
              /\ Walk(f)[i] + 5 + Length(f, Walk(f)[i]) <= End(f)
              /\ f[Walk(f)[i]] = PPOL => Rewritable(f, Walk(f)[i])
<1> DEFINE K == Walk(f)
<1>1. Ended(f) /\ f \in Buffers
  BY DEF Recorded, WellFormed
<1>2. K # <<>> /\ EndBit(f, LastOf(f)) /\ LastOf(f) = K[Len(K)] /\ End(f) = Next1(f, LastOf(f)) /\ End(f) <= Size
  BY <1>1 DEF Ended, LastOf, End, Recorded, WellFormed
<1>3. Chained(f, K) /\ K[1] = AreaOf(f, 5)
  BY <1>1, <1>2, WalkFacts
<1>4. \A i \in DOMAIN K : f[K[i]] = PPOL => Rewritable(f, K[i])
  BY DEF Recorded, WellFormed
<1> HIDE DEF K
<1>5. K \in Seq(Nat) /\ Len(K) \in Nat /\ Len(K) > 0 /\ DOMAIN K = 1 .. Len(K)
  BY <1>3 DEF Chained
<1>6. ASSUME NEW i \in 1 .. Len(K)
      PROVE  /\ K[i] \in Nat /\ Length(f, K[i]) \in 0 .. 255 /\ Next1(f, K[i]) \in Nat /\ Next1(f, K[i]) = K[i] + 5 + Length(f, K[i])
  <2>1. K[i] \in Nat /\ ParseHeader(f, K[i])
    BY <1>3, <1>5 DEF Chained
  <2>2. Length(f, K[i]) \in 0 .. 255 /\ Next1(f, K[i]) \in Nat
    BY <1>1, <2>1, HeaderInside
  <2> QED BY <2>1, <2>2 DEF Next1
<1>7. K[1] >= 8
  BY <1>1, <1>3, AreaType DEF Recorded
<1>8. ASSUME NEW i \in 1 .. Len(K) PROVE K[i] >= 8
  <2>1. CASE i = 1
    BY <1>7, <2>1
  <2>2. CASE i # 1
    <3>1. 1 \in 1 .. Len(K) /\ 1 < i
      BY <1>5, <2>2
    <3>2. K[i] >= K[1] + 5
      BY <1>1, <1>3, <3>1, ChainOrdered
    <3> QED BY <1>6, <1>7, <3>1, <3>2
  <2> QED BY <2>1, <2>2
<1>9. Len(K) \in 1 .. Len(K)
  BY <1>5
<1>10. ASSUME NEW i \in 1 .. Len(K) PROVE K[i] + 5 + Length(f, K[i]) <= End(f)
  <2>1. CASE i = Len(K)
    BY <1>2, <1>6, <2>1
  <2>2. CASE i # Len(K)
    <3>1. i < Len(K)
      <4> DEFINE n == Len(K)
      <4>1. n \in Nat /\ i \in 1 .. n /\ i # n
        BY <1>5, <2>2
      <4> HIDE DEF n
      <4>2. i < n
        BY <4>1
      <4> QED BY <4>2 DEF n
    <3>2. K[Len(K)] >= Next1(f, K[i])
      BY <1>1, <1>3, <1>9, <3>1, ChainOrdered
    <3>3. K[Len(K)] \in Nat /\ End(f) = K[Len(K)] + 5 + Length(f, K[Len(K)]) /\ Length(f, K[Len(K)]) \in 0 .. 255
      BY <1>2, <1>6, <1>9
    <3>4. Next1(f, K[i]) = K[i] + 5 + Length(f, K[i]) /\ Next1(f, K[i]) \in Nat
      BY <1>6
    <3>5. Next1(f, K[i]) <= End(f)
      <4>1. \A x, y, n \in Nat : x >= y => y <= x + 5 + n
        OBVIOUS
      <4>2. \A n \in 0 .. 255 : n \in Nat
        OBVIOUS
      <4>3. K[Len(K)] \in Nat /\ Next1(f, K[i]) \in Nat /\ Length(f, K[Len(K)]) \in Nat
        BY <3>3, <3>4, <4>2, Zenon
      <4> QED BY <3>2, <3>3, <4>1, <4>3, Zenon
    <3> QED BY <3>4, <3>5
  <2> QED BY <2>1, <2>2
<1>11. End(f) \in Nat
  BY <1>2, <1>6, <1>9
<1> QED BY <1>2, <1>3, <1>4, <1>5, <1>6, <1>8, <1>10, <1>11 DEF K

\* The record a rewrite changes first is the first with a policy, else the last one.
LEMMA TargetFacts ==
  ASSUME NEW f, Recorded(f)
  PROVE  \E t \in 1 .. Len(Walk(f)) :
           /\ Target(f) = Walk(f)[t]
           /\ Policied(f) => Rewritable(f, Walk(f)[t]) /\ \A i \in 1 .. t - 1 : f[Walk(f)[i]] # PPOL
           /\ ~Policied(f) => t = Len(Walk(f)) /\ \A i \in 1 .. Len(Walk(f)) : f[Walk(f)[i]] # PPOL
<1> DEFINE K == Walk(f)
           I == {i \in DOMAIN K : Rewritable(f, K[i])}
<1>1. /\ Len(K) \in Nat /\ Len(K) > 0 /\ DOMAIN K = 1 .. Len(K)
      /\ \A i \in 1 .. Len(K) : f[K[i]] = PPOL <=> Rewritable(f, K[i])
  BY ImageFacts DEF Chained, Rewritable
<1>2. CASE Policied(f)
  <2>1. I \subseteq Nat /\ I # {}
    BY <1>1, <1>2 DEF Policied
  <2>2. Min(I) \in I /\ \A j \in I : Min(I) <= j
    <3> HIDE DEF I
    <3> QED BY <2>1, MinOf
  <2>3. Target(f) = K[Min(I)]
    BY <1>2, <2>2 DEF Target, FirstOf
  <2> HIDE DEF K
  <2>4. \A i \in 1 .. Min(I) - 1 : f[K[i]] # PPOL
    <3> SUFFICES ASSUME NEW i \in 1 .. Min(I) - 1, f[K[i]] = PPOL PROVE FALSE
      OBVIOUS
    <3>1. Min(I) \in 1 .. Len(K)
      BY <1>1, <2>2
    <3> DEFINE m == Min(I)
    <3>2. m \in 1 .. Len(K) /\ i \in 1 .. m - 1
      BY <3>1
    <3> HIDE DEF m
    <3>3. i \in 1 .. Len(K) /\ ~(m <= i)
      BY <1>1, <3>2
    <3> QED BY <1>1, <2>2, <3>3 DEF m
  <2>5. Min(I) \in 1 .. Len(K) /\ Rewritable(f, K[Min(I)])
    BY <1>1, <2>2
  <2> QED BY <1>2, <2>3, <2>4, <2>5 DEF K
<1>3. CASE ~Policied(f)
  <2>1. Target(f) = K[Len(K)] /\ Len(K) \in 1 .. Len(K)
    BY <1>1, <1>3 DEF Target, LastOf
  <2>2. \A i \in 1 .. Len(K) : f[K[i]] # PPOL
    BY <1>1, <1>3 DEF Policied
  <2> QED BY <1>3, <2>1, <2>2
<1> QED BY <1>2, <1>3

\* The other records, and what is in front of the chain, are not touched.
LEMMA Untouched ==
  ASSUME NEW f, Recorded(f)
  PROVE  /\ \A j \in Touched(f) : j \in Nat /\ j >= AreaOf(f, 5) /\ j >= 8
         /\ \A i \in 1 .. Len(Walk(f)) : Walk(f)[i] # Target(f) =>
              \A j \in Touched(f) : ~(Walk(f)[i] <= j /\ j < Walk(f)[i] + 5 + Length(f, Walk(f)[i]))
         /\ \A j \in Touched(f) : j >= Target(f) + 1 /\ j # Target(f) + 2
         /\ Policied(f) => \A j \in Touched(f) : j >= Target(f) + 3 /\ j < Target(f) + 5 + Length(f, Target(f))
         /\ ~Policied(f) => \A j \in Touched(f) : j < End(f) => j = Target(f) + 1 \/ j = Target(f) + 4
<1> DEFINE K == Walk(f)
           e == End(f)
<1>1. PICK t \in 1 .. Len(K) : Target(f) = K[t] /\ (~Policied(f) => t = Len(K))
  BY TargetFacts
<1>2. /\ Chained(f, K) /\ K[1] = AreaOf(f, 5) /\ Len(K) \in Nat /\ Len(K) > 0 /\ LastOf(f) = K[Len(K)] /\ e \in Nat
      /\ \A i \in 1 .. Len(K) : /\ K[i] \in Nat /\ K[i] >= 8 /\ Length(f, K[i]) \in 0 .. 255
                              /\ K[i] + 5 + Length(f, K[i]) <= e
  BY ImageFacts
<1>3. f \in Buffers /\ Size \in Nat
  BY FruAssumption DEF Recorded, FruAssumption
<1> HIDE DEF K, e
<1>4. ASSUME NEW i \in 1 .. Len(K), NEW j \in 1 .. Len(K), i < j PROVE K[j] >= K[i] + 5 + Length(f, K[i])
  BY <1>2, <1>3, <1>4, ChainOrdered DEF Next1
<1> DEFINE k1 == K[1]
           kt == K[t]
           lt == Length(f, K[t])
<1>5. kt \in Nat /\ kt >= 8 /\ lt \in 0 .. 255 /\ kt + 5 + lt <= e /\ kt >= k1 /\ k1 \in Nat
  <2>1. kt >= k1
    <3>1. CASE t = 1
      BY <1>2, <3>1
    <3>2. CASE t # 1
      <4>1. 1 \in 1 .. Len(K) /\ 1 < t
        BY <1>2, <3>2
      <4>2. K[t] >= K[1] + 5 + Length(f, K[1]) /\ K[1] \in Nat /\ K[t] \in Nat /\ Length(f, K[1]) \in 0 .. 255
        BY <1>2, <1>4, <4>1
      <4>3. \A x, y \in Nat : \A n \in 0 .. 255 : x >= y + 5 + n => x >= y
        OBVIOUS
      <4> QED BY <4>2, <4>3, Zenon
    <3> QED BY <3>1, <3>2
  <2> QED BY <1>2, <2>1
<1>6. /\ Policied(f) => Touched(f) = kt + 3 .. kt + 4 + lt
      /\ ~Policied(f) => Touched(f) = {kt + 1, kt + 4} \cup e .. Size - 1
  BY <1>1, <1>2 DEF Touched, e
<1>7. ASSUME NEW i \in 1 .. Len(K), K[i] # K[t]
      PROVE  K[i] + 5 + Length(f, K[i]) <= kt \/ (K[i] >= kt + 5 + lt /\ Policied(f))
  <2> DEFINE n == Len(K)
  <2>1. n \in Nat /\ i \in 1 .. n /\ t \in 1 .. n /\ i # t
    BY <1>2, <1>7
  <2> HIDE DEF n
  <2>2. i < t \/ (t < i /\ t # n)
    BY <2>1
  <2>3. CASE i < t
    BY <1>2, <1>4, <2>3
  <2>4. CASE t < i /\ t # n
    <3>1. K[i] >= K[t] + 5 + Length(f, K[t])
      BY <1>4, <2>4
    <3> QED BY <1>1, <2>4, <3>1 DEF n
  <2> QED BY <2>2, <2>3, <2>4
<1>e. e \in Nat
  BY <1>2
<1>k. /\ Target(f) = kt /\ Length(f, Target(f)) = lt /\ AreaOf(f, 5) = k1
      /\ \A i \in 1 .. Len(K) : K[i] \in Nat /\ Length(f, K[i]) \in 0 .. 255
  BY <1>1, <1>2
<1> HIDE DEF k1, kt, lt
<1>8. ASSUME NEW j \in Touched(f)
      PROVE /\ j \in Nat /\ j >= kt + 1 /\ j # kt + 2
            /\ Policied(f) => j >= kt + 3 /\ j < kt + 5 + lt
            /\ ~Policied(f) => j = kt + 1 \/ j = kt + 4 \/ j >= e
  <2>1. CASE Policied(f)
    <3>1. j \in kt + 3 .. kt + 4 + lt
      BY <1>6, <2>1
    <3> QED BY <1>5, <2>1, <3>1
  <2>2. CASE ~Policied(f)
    <3>1. j \in {kt + 1, kt + 4} \cup e .. Size - 1
      BY <1>6, <2>2
    <3> QED BY <1>3, <1>5, <1>e, <2>2, <3>1
  <2> QED BY <2>1, <2>2
<1>9. ASSUME NEW i \in 1 .. Len(K), K[i] # kt, NEW j \in Touched(f)
      PROVE  ~(K[i] <= j /\ j < K[i] + 5 + Length(f, K[i]))
  <2> DEFINE ki == K[i]
             li == Length(f, K[i])
  <2>1. ki \in Nat /\ li \in 0 .. 255
    BY <1>k
  <2>2. ki + 5 + li <= kt \/ (ki >= kt + 5 + lt /\ Policied(f))
    BY <1>7, <1>9 DEF kt, lt
  <2> HIDE DEF ki, li
  <2>3. j \in Nat /\ j >= kt + 1 /\ (Policied(f) => j < kt + 5 + lt)
    BY <1>8
  <2>4. CASE ki + 5 + li <= kt
    <3>1. ~(ki <= j /\ j < ki + 5 + li)
      BY <1>5, <2>1, <2>3, <2>4
    <3> QED BY <3>1 DEF ki, li
  <2>5. CASE ki >= kt + 5 + lt /\ Policied(f)
    <3>1. ~(ki <= j /\ j < ki + 5 + li)
      BY <1>5, <2>1, <2>3, <2>5
    <3> QED BY <3>1 DEF ki, li
  <2> QED BY <2>2, <2>4, <2>5
<1>10. ASSUME NEW j \in Touched(f) PROVE j \in Nat /\ j >= k1 /\ j >= 8
  <2>1. j \in Nat /\ j >= kt + 1
    BY <1>8
  <2> QED BY <1>5, <2>1
<1>11. ASSUME NEW j \in Touched(f), ~Policied(f), j < e PROVE j = kt + 1 \/ j = kt + 4
  <2>1. j \in Nat /\ (j = kt + 1 \/ j = kt + 4 \/ j >= e)
    BY <1>8, <1>11
  <2> QED BY <1>e, <1>11, <2>1
<1> QED BY <1>k, <1>8, <1>9, <1>10, <1>11 DEF K, e

----------------------------------------------------------------------------
(* The chain of a buffer that keeps its image. *)

LEMMA SameHeader ==
  ASSUME NEW b \in Buffers, NEW c, NEW p \in Nat, p + 5 <= Size, \A i \in p .. p + 4 : c[i] = b[i]
  PROVE  /\ Sum(c, p, 5) = Sum(b, p, 5) /\ (ParseHeader(c, p) <=> ParseHeader(b, p))
         /\ Length(c, p) = Length(b, p) /\ Next1(c, p) = Next1(b, p) /\ (EndBit(c, p) <=> EndBit(b, p))
<1>1. Size \in Nat
  BY FruAssumption DEF FruAssumption
<1>2. \A i \in p .. p + 5 - 1 : b[i] \in 0 .. 255 /\ c[i] = b[i]
  BY <1>1, BufferByte
<1>3. Sum(c, p, 5) = Sum(b, p, 5)
  BY <1>2, SumSame
<1>4. c[p + 1] = b[p + 1] /\ c[p + 2] = b[p + 2]
  OBVIOUS
<1> QED BY <1>3, <1>4 DEF ParseHeader, Length, Next1, EndBit

\* The areas depend on the common header only.
LEMMA SameAreas ==
  ASSUME NEW b \in Buffers, NEW c, \A i \in 0 .. 7 : c[i] = b[i], NEW i \in 0 .. 7
  PROVE  AreaOf(c, i) = AreaOf(b, i)
<1>1. Size \in Nat /\ Size >= 8
  BY FruAssumption DEF FruAssumption
<1>2. \A j \in 0 .. 0 + 8 - 1 : b[j] \in 0 .. 255 /\ c[j] = b[j]
  BY <1>1, BufferByte
<1>3. Sum(c, 0, 8) = Sum(b, 0, 8)
  BY <1>2, SumSame
<1>4. c[0] = b[0] /\ c[i] = b[i]
  OBVIOUS
<1> QED BY <1>3, <1>4 DEF AreaOf, CommonHeaderOk

\* What a framed buffer has of its image.
LEMMA Frame ==
  ASSUME NEW f, Recorded(f), NEW b, Framed(f, b)
  PROVE  /\ \A i \in 0 .. Size - 1 : i < AreaOf(f, 5) \/ i < 8 => b[i] = f[i]
         /\ \A i \in 1 .. Len(Walk(f)) : Walk(f)[i] # Target(f) =>
              \A j \in Walk(f)[i] .. Walk(f)[i] + 4 + Length(f, Walk(f)[i]) : b[j] = f[j]
         /\ b[Target(f)] = f[Target(f)] /\ b[Target(f) + 2] = f[Target(f) + 2]
         /\ Policied(f) => b[Target(f) + 1] = f[Target(f) + 1]
         /\ ~Policied(f) => /\ b[Target(f) + 1] \in {f[Target(f) + 1], f[Target(f) + 1] % 128}
                            /\ \A j \in Target(f) .. Target(f) + 4 + Length(f, Target(f)) :
                                 j # Target(f) + 1 /\ j # Target(f) + 4 => b[j] = f[j]
<1> DEFINE K == Walk(f)
           T == Target(f)
           e == End(f)
           a == AreaOf(f, 5)
           l == Length(f, Target(f))
<1>1. /\ \A j \in Touched(f) : j \in Nat /\ j >= a /\ j >= 8
      /\ \A i \in 1 .. Len(K) : K[i] # T => \A j \in Touched(f) : ~(K[i] <= j /\ j < K[i] + 5 + Length(f, K[i]))
      /\ \A j \in Touched(f) : j >= T + 1 /\ j # T + 2
      /\ Policied(f) => \A j \in Touched(f) : j >= T + 3
      /\ ~Policied(f) => \A j \in Touched(f) : j < e => j = T + 1 \/ j = T + 4
  BY Untouched
<1>2. PICK t \in 1 .. Len(K) : T = K[t] /\ (~Policied(f) => t = Len(K))
  BY TargetFacts
<1>3. /\ e \in Nat /\ e <= Size /\ Size \in Nat /\ LastOf(f) = K[Len(K)]
      /\ \A i \in 1 .. Len(K) : K[i] \in Nat /\ Length(f, K[i]) \in 0 .. 255 /\ K[i] + 5 + Length(f, K[i]) <= e
  BY ImageFacts, FruAssumption DEF FruAssumption
<1>4. T \in Nat /\ l \in 0 .. 255 /\ T + 5 + l <= e
  BY <1>2, <1>3
<1>5. \A i \in 0 .. Size - 1 : i \notin Touched(f) => b[i] = f[i]
  BY DEF Framed
<1>6. ~Policied(f) => b[T + 1] \in {f[T + 1], f[T + 1] % 128}
  BY <1>2, <1>3 DEF Framed
<1>7. a \in Int
  BY AreaType, FruAssumption DEF Recorded, FruAssumption
<1> HIDE DEF K, T, e, a, l
<1>8. ASSUME NEW i \in 0 .. Size - 1, i < a \/ i < 8 PROVE b[i] = f[i]
  <2>1. i \notin Touched(f)
    BY <1>1, <1>7, <1>8, <1>3
  <2> QED BY <1>5, <2>1
<1>9. ASSUME NEW i \in 1 .. Len(K), K[i] # T, NEW j \in K[i] .. K[i] + 4 + Length(f, K[i]) PROVE b[j] = f[j]
  <2> DEFINE k == K[i]
             m == Length(f, K[i])
  <2>1. k \in Nat /\ m \in 0 .. 255 /\ k + 5 + m <= e /\ j \in k .. k + 4 + m
    BY <1>3
  <2>2. j \in Touched(f) => ~(k <= j /\ j < k + 5 + m)
    BY <1>1, <1>9
  <2> HIDE DEF k, m
  <2>3. j \in 0 .. Size - 1 /\ k <= j /\ j < k + 5 + m
    BY <1>3, <2>1
  <2> QED BY <1>5, <2>2, <2>3
<1>10. b[T] = f[T] /\ b[T + 2] = f[T + 2]
  <2>1. T \in 0 .. Size - 1 /\ T + 2 \in 0 .. Size - 1 /\ ~(T >= T + 1)
    BY <1>3, <1>4
  <2>2. T \notin Touched(f) /\ T + 2 \notin Touched(f)
    BY <1>1, <2>1
  <2> QED BY <1>5, <2>1, <2>2
<1>11. ASSUME Policied(f) PROVE b[T + 1] = f[T + 1]
  <2>1. T + 1 \in 0 .. Size - 1 /\ ~(T + 1 >= T + 3)
    BY <1>3, <1>4
  <2>2. T + 1 \notin Touched(f)
    BY <1>1, <1>11, <2>1
  <2> QED BY <1>5, <2>1, <2>2
<1>12. ASSUME ~Policied(f), NEW j \in T .. T + 4 + l, j # T + 1, j # T + 4 PROVE b[j] = f[j]
  <2>1. j \in 0 .. Size - 1 /\ j < e
    BY <1>3, <1>4
  <2>2. j \notin Touched(f)
    BY <1>1, <1>12, <2>1
  <2> QED BY <1>5, <2>1, <2>2
<1> QED BY <1>6, <1>8, <1>9, <1>10, <1>11, <1>12 DEF K, T, a, l

\* The headers of the chain are found again.
LEMMA Headers ==
  ASSUME NEW f, Recorded(f), NEW b, Framed(f, b), NEW i \in 1 .. Len(Walk(f))
  PROVE  LET k == Walk(f)[i] IN
         /\ b[k] = f[k] /\ Length(b, k) = Length(f, k) /\ Next1(b, k) = Next1(f, k)
         /\ k # Target(f) \/ Sum(b, Target(f), 5) = 0 => ParseHeader(b, k)
         /\ Policied(f) \/ i < Len(Walk(f)) => (EndBit(b, k) <=> EndBit(f, k))
<1> DEFINE K == Walk(f)
           T == Target(f)
           n == Len(K)
           k == K[i]
<1>1. /\ Chained(f, K) /\ n \in Nat /\ End(f) <= Size /\ End(f) \in Nat
      /\ \A j \in 1 .. n : K[j] \in Nat /\ Length(f, K[j]) \in 0 .. 255 /\ K[j] + 5 + Length(f, K[j]) <= End(f)
  BY ImageFacts
<1>2. PICK t \in 1 .. n : T = K[t] /\ (~Policied(f) => t = n)
  BY TargetFacts
<1>3. f \in Buffers /\ b \in Buffers /\ Size \in Nat
  BY FruAssumption DEF Recorded, Framed, FruAssumption
<1>4. ParseHeader(f, k)
  BY <1>1 DEF Chained
<1>5. ASSUME NEW l, l = Length(f, k) PROVE k \in Nat /\ k + 5 <= Size /\ l \in 0 .. 255
  BY <1>1, <1>4, <1>5, <1>3, HeaderInside
<1>6. CASE k # T
  <2>1. \A j \in k .. k + 4 : b[j] = f[j]
    <3> DEFINE l == Length(f, k)
    <3>1. \A j \in k .. k + 4 + l : b[j] = f[j]
      BY <1>6, Frame
    <3>2. k \in Nat /\ l \in 0 .. 255
      BY <1>5
    <3> HIDE DEF k, l
    <3> QED BY <3>1, <3>2
  <2>2. k \in Nat /\ k + 5 <= Size
    BY <1>5
  <2>3. b[k] = f[k]
    BY <2>1, <2>2
  <2> HIDE DEF k
  <2> QED BY <1>3, <1>4, <1>6, <2>1, <2>2, <2>3, SameHeader DEF k
<1>7. CASE k = T
  <2>1. b[k] = f[k] /\ Length(b, k) = Length(f, k)
    BY <1>7, Frame DEF Length
  <2>2. Next1(b, k) = Next1(f, k)
    BY <2>1 DEF Next1
  <2>3. Sum(b, T, 5) = 0 => ParseHeader(b, k)
    BY <1>4, <1>7 DEF ParseHeader
  <2>4. Policied(f) => (EndBit(b, k) <=> EndBit(f, k))
    BY <1>7, Frame DEF EndBit
  <2>5. ~Policied(f) => ~(i < n)
    <3> SUFFICES ASSUME ~Policied(f), i < n PROVE FALSE
      OBVIOUS
    <3>1. n \in 1 .. n /\ K[n] = K[i]
      BY <1>1, <1>2, <1>7
    <3>2. K[n] >= K[i] + 5 /\ K[i] \in Nat
      BY <1>1, <1>3, <3>1, ChainOrdered
    <3> QED BY <3>1, <3>2
  <2> QED BY <1>7, <2>1, <2>2, <2>3, <2>4, <2>5
<1> QED BY <1>6, <1>7

\* A header behind the chain is that of a policy: nothing, and the first bytes of one, do not add up.
LEMMA HeaderBehind ==
  ASSUME NEW f, Recorded(f), NEW b \in Buffers, Appended(f, b), ParseHeader(b, End(f))
  PROVE  /\ End(f) + 9 < Size /\ b[End(f)] = PPOL /\ b[End(f) + 1] = 130 /\ b[End(f) + 2] = NewLength
<1> DEFINE e == End(f)
<1>1. e \in Nat /\ Size \in Nat
  BY ImageFacts, FruAssumption DEF FruAssumption
<1>2. e + 5 <= Size /\ Sum(b, e, 5) = 0
  BY <1>1, HeaderInside DEF ParseHeader
<1> HIDE DEF e
<1>3. \A i \in e .. e + 4 : b[i] \in 0 .. 255
  BY <1>1, <1>2, BufferByte
<1>4. b[e] \in 0 .. 255 /\ b[e + 1] \in 0 .. 255 /\ b[e + 2] \in 0 .. 255 /\ b[e + 3] \in 0 .. 255 /\ b[e + 4] \in 0 .. 255
  BY <1>1, <1>3
<1>5. (b[e] + b[e + 1] + b[e + 2] + b[e + 3] + b[e + 4]) % 256 = 0
  BY <1>1, <1>2, <1>3, SumOfHeader
<1>6. PICK u \in 0 .. 255, v \in 0 .. 255, w \in 0 .. 255, x \in 0 .. 255, y \in 0 .. 255 :
        u = b[e] /\ v = b[e + 1] /\ w = b[e + 2] /\ x = b[e + 3] /\ y = b[e + 4]
  BY <1>4, Zenon
<1>7. (u + v + w + x + y) % 256 = 0
  BY <1>5, <1>6
<1>8. u = 255 /\ v = 255 /\ w = 255 /\ x = 255 /\ y = 255 => FALSE
  BY <1>7
<1>9. e + 9 < Size
  <2> SUFFICES ASSUME ~(e + 9 < Size) PROVE FALSE
    OBVIOUS
  <2>1. \A i \in e .. Size - 1 : b[i] = 255
    BY DEF Appended, e
  <2>2. b[e] = 255 /\ b[e + 1] = 255 /\ b[e + 2] = 255 /\ b[e + 3] = 255 /\ b[e + 4] = 255
    BY <1>1, <1>2, <2>1
  <2> QED BY <1>6, <1>8, <2>2
<1>10. /\ u \in {196, 255} /\ v \in {130, 255} /\ w \in {NewLength, 255}
       /\ (u = 255 => v = 255) /\ (v = 255 => w = 255) /\ (w = 255 => x = 255 /\ y = 255)
  BY <1>6, <1>9 DEF Appended, e, PPOL
<1>11. w # 255
  BY <1>7, <1>10
<1> QED BY <1>6, <1>9, <1>10, <1>11 DEF PPOL, e

\* The walk over a good buffer: the chain of the image, and behind it, once the end bit of the last record is
\* cleared, the policy if its header is complete.
LEMMA WalkGood ==
  ASSUME NEW f, Recorded(f), NEW b, Good(f, b)
  PROVE  /\ Policied(f) => EndBit(b, LastOf(f))
         /\ EndBit(b, LastOf(f)) \/ ~ParseHeader(b, End(f)) => Walk(b) = Walk(f)
         /\ ~EndBit(b, LastOf(f)) /\ ParseHeader(b, End(f)) =>
              Walk(b) = Append(Walk(f), End(f)) /\ EndBit(b, End(f)) /\ Rewritable(b, End(f)) /\ Length(b, End(f)) = NewLength
              /\ End(f) + 9 < Size
<1> DEFINE K == Walk(f)
           n == Len(K)
           e == End(f)
<1>1. /\ Chained(f, K) /\ n \in Nat /\ n > 0 /\ LastOf(f) = K[n] /\ e = Next1(f, K[n]) /\ e \in Nat /\ e <= Size
      /\ EndBit(f, K[n]) /\ K[1] = AreaOf(f, 5) /\ K \in Seq(Nat)
  BY ImageFacts DEF Chained
<1>2. Framed(f, b) /\ Sum(b, Target(f), 5) = 0 /\ b \in Buffers /\ Size \in Nat /\ f \in Buffers /\ AreaOf(f, 5) # NotFound
  BY FruAssumption DEF Good, Framed, FruAssumption, Recorded
<1>3. ASSUME NEW i \in 1 .. n
      PROVE  ParseHeader(b, K[i]) /\ Next1(b, K[i]) = Next1(f, K[i]) /\ (Policied(f) \/ i < n => (EndBit(b, K[i]) <=> EndBit(f, K[i])))
  BY <1>2, Headers
<1>4. AreaOf(b, 5) = AreaOf(f, 5)
  <2>1. \A i \in 0 .. 7 : b[i] = f[i]
    <3>1. Size >= 8
      BY FruAssumption DEF FruAssumption
    <3> QED BY <1>2, <3>1, Frame
  <2> QED BY <1>2, <2>1, SameAreas
<1>5. /\ K \in Seq(Nat) /\ n > 0
      /\ \A i \in 1 .. n : ParseHeader(b, K[i])
      /\ \A i \in 1 .. n - 1 : ~EndBit(b, K[i]) /\ Next1(b, K[i]) <= Size /\ K[i + 1] = Next1(b, K[i])
      /\ Next1(b, K[n]) = e
  <2>1. ASSUME NEW i \in 1 .. n - 1 PROVE ~EndBit(b, K[i]) /\ Next1(b, K[i]) <= Size /\ K[i + 1] = Next1(b, K[i])
    <3>1. i \in 1 .. n /\ i < n
      BY <1>1
    <3> QED BY <1>1, <1>3, <3>1 DEF Chained
  <2>2. n \in 1 .. n
    BY <1>1
  <2> QED BY <1>1, <1>3, <2>1, <2>2
<1>6. ASSUME EndBit(b, K[n]) \/ ~ParseHeader(b, e) PROVE Walk(b) = K
  <2>1. Chained(b, K)
    BY <1>5, <1>6 DEF Chained
  <2> QED BY <1>1, <1>2, <1>4, <2>1, WalkIs
<1>7. ASSUME ~EndBit(b, K[n]), ParseHeader(b, e)
      PROVE  /\ Walk(b) = Append(K, e) /\ EndBit(b, e) /\ Rewritable(b, e) /\ Length(b, e) = NewLength /\ e + 9 < Size
  <2>1. ~Policied(f)
    BY <1>1, <1>3, <1>7
  <2>2. e + 9 < Size /\ b[e] = PPOL /\ b[e + 1] = 130 /\ b[e + 2] = NewLength
    BY <1>2, <1>7, <2>1, HeaderBehind DEF Framed
  <2>3. EndBit(b, e) /\ Rewritable(b, e) /\ Length(b, e) = NewLength
    BY <2>2 DEF EndBit, Rewritable, Length, NewLength
  <2> DEFINE s == Append(K, e)
  <2>4. s \in Seq(Nat) /\ Len(s) = n + 1 /\ s[n + 1] = e /\ \A i \in 1 .. n : s[i] = K[i]
    BY <1>1, <1>5
  <2> HIDE DEF K, s
  <2>5. s[1] = K[1]
    BY <1>1, <2>4
  <2>6. ASSUME NEW i \in 1 .. Len(s) PROVE ParseHeader(b, s[i])
    <3>1. i \in 1 .. n \/ i = n + 1
      BY <1>1, <2>4
    <3> QED BY <1>5, <1>7, <2>4, <3>1
  <2>7. ASSUME NEW i \in 1 .. Len(s) - 1 PROVE ~EndBit(b, s[i]) /\ Next1(b, s[i]) <= Size /\ s[i + 1] = Next1(b, s[i])
    <3>1. CASE i = n
      <4>1. s[i] = K[n] /\ s[i + 1] = e
        BY <1>1, <2>4, <3>1
      <4> QED BY <1>1, <1>5, <1>7, <4>1
    <3>2. CASE i # n
      <4>1. i \in 1 .. n - 1 /\ i \in 1 .. n /\ i + 1 \in 1 .. n
        BY <1>1, <2>4, <3>2
      <4> QED BY <1>5, <2>4, <4>1
    <3> QED BY <3>1, <3>2
  <2>8. Chained(b, s)
    <3>1. Len(s) > 0 /\ s[Len(s)] = e
      BY <1>1, <2>4
    <3> QED BY <2>3, <2>4, <2>6, <2>7, <3>1 DEF Chained
  <2>9. Walk(b) = s
    BY <1>1, <1>2, <1>4, <2>5, <2>8, WalkIs
  <2> QED BY <2>2, <2>3, <2>9 DEF s, K
<1>8. Policied(f) => EndBit(b, K[n])
  BY <1>1, <1>3
<1> QED BY <1>1, <1>6, <1>7, <1>8

\* The walk over a broken one ends in front of the target, without an end bit.
LEMMA WalkBroken ==
  ASSUME NEW f, Recorded(f), NEW b, Broken(f, b)
  PROVE  /\ AreaOf(b, 5) = AreaOf(f, 5)
         /\ \A i \in 1 .. Len(Walk(b)) : Walk(b)[i] \in Nat /\ Walk(b)[i] + 5 <= Target(f) /\ Walk(b)[i] >= 8
                                      /\ ParseHeader(b, Walk(b)[i]) /\ b[Walk(b)[i]] # PPOL /\ ~EndBit(b, Walk(b)[i])
         /\ Walk(b) # <<>> => Next1(b, Walk(b)[Len(Walk(b))]) = Target(f) /\ Walk(b) \in Seq(Nat)
         /\ ~Ended(b)
<1> DEFINE K == Walk(f)
           n == Len(K)
           T == Target(f)
<1>1. /\ Chained(f, K) /\ n \in Nat /\ n > 0 /\ K[1] = AreaOf(f, 5) /\ K \in Seq(Nat) /\ End(f) <= Size /\ End(f) \in Nat
      /\ \A i \in 1 .. n : K[i] \in Nat /\ K[i] >= 8 /\ Length(f, K[i]) \in 0 .. 255 /\ K[i] + 5 + Length(f, K[i]) <= End(f)
  BY ImageFacts DEF Chained
<1>2. PICK t \in 1 .. n : /\ T = K[t] /\ (~Policied(f) => t = n)
                          /\ \A i \in 1 .. t - 1 : f[K[i]] # PPOL
  <2>1. PICK t \in 1 .. n : /\ T = K[t] /\ (~Policied(f) => t = n /\ \A i \in 1 .. n : f[K[i]] # PPOL)
                            /\ Policied(f) => \A i \in 1 .. t - 1 : f[K[i]] # PPOL
    BY TargetFacts
  <2>2. \A i \in 1 .. t - 1 : i \in 1 .. n
    BY <1>1
  <2>3. ASSUME NEW i \in 1 .. t - 1 PROVE f[K[i]] # PPOL
    <3>1. CASE Policied(f)
      BY <2>1, <3>1
    <3>2. CASE ~Policied(f)
      BY <2>1, <2>2, <3>2
    <3> QED BY <3>1, <3>2
  <2> QED BY <2>1, <2>3, Zenon
<1>3. b \in Buffers /\ Size \in Nat /\ f \in Buffers /\ AreaOf(f, 5) # NotFound /\ T \in Nat
  BY <1>1, <1>2, FruAssumption DEF Broken, FruAssumption, Recorded
<1>4. AreaOf(b, 5) = AreaOf(f, 5)
  BY <1>3, SameAreas DEF Broken
<1> HIDE DEF T
<1>5. ASSUME NEW i \in 1 .. t - 1
      PROVE  /\ K[i] \in Nat /\ K[i] >= 8 /\ K[i] + 5 <= T /\ ParseHeader(b, K[i]) /\ ~EndBit(b, K[i]) /\ b[K[i]] # PPOL
             /\ Next1(b, K[i]) = K[i + 1] /\ Next1(b, K[i]) <= Size
  <2>1. i \in 1 .. n /\ i < t /\ t \in 1 .. n /\ i \in 1 .. n - 1
    BY <1>1
  <2>2. K[i] + 5 <= K[t] /\ K[i] \in Nat /\ K[i] >= 8
    <3>1. K[t] >= K[i] + 5
      BY <1>1, <1>3, <2>1, ChainOrdered
    <3>2. K[i] \in Nat /\ K[t] \in Nat
      BY <1>1, <2>1
    <3> QED BY <1>1, <2>1, <3>1, <3>2
  <2>3. K[i] < T /\ K[i] + 5 <= Size
    <3>1. ParseHeader(f, K[i])
      BY <1>1, <2>1 DEF Chained
    <3>2. K[i] + 5 <= Size
      BY <1>3, <2>2, <3>1, HeaderInside
    <3> QED BY <1>2, <2>2, <3>2, <1>3
  <2>4. \A j \in K[i] .. K[i] + 4 : b[j] = f[j]
    BY <2>1, <2>3 DEF Broken, T
  <2>5. b[K[i]] = f[K[i]]
    BY <2>2, <2>4
  <2>6. ParseHeader(f, K[i]) /\ ~EndBit(f, K[i]) /\ Next1(f, K[i]) <= Size /\ K[i + 1] = Next1(f, K[i])
    BY <1>1, <2>1 DEF Chained
  <2> DEFINE k == K[i]
  <2>7. k \in Nat /\ k + 5 <= Size /\ \A j \in k .. k + 4 : b[j] = f[j]
    BY <2>2, <2>3, <2>4
  <2>8. /\ ParseHeader(b, k) <=> ParseHeader(f, k)
        /\ Next1(b, k) = Next1(f, k) /\ (EndBit(b, k) <=> EndBit(f, k))
    <3> HIDE DEF k
    <3> QED BY <1>3, <2>7, SameHeader
  <2> QED BY <1>2, <2>2, <2>5, <2>6, <2>8
<1>6. ~ParseHeader(b, T)
  BY DEF ParseHeader, Broken, T
<1>7. CASE t = 1
  <2>1. Walk(b) = <<>>
    <3>1. Walk(b) = Walks(b)[AreaOf(b, 5)]
      BY <1>3, <1>4 DEF Walk, Walks
    <3>2. AreaOf(b, 5) \in 0 .. Size /\ ~ParseHeader(b, AreaOf(b, 5))
      BY <1>1, <1>2, <1>3, <1>4, <1>6, <1>7, AreaType
    <3> QED BY <1>3, <3>1, <3>2, WalksExist
  <2> QED BY <1>4, <2>1 DEF Ended
<1>8. CASE t # 1
  <2> DEFINE m == t - 1
             s == [i \in 1 .. m |-> K[i]]
  <2>1. m \in 1 .. n /\ m + 1 = t /\ m \in Nat /\ m > 0
    BY <1>1, <1>8
  <2>2. s \in Seq(Nat) /\ Len(s) = m /\ \A i \in 1 .. m : s[i] = K[i]
    BY <1>1, <2>1
  <2>3. ASSUME NEW i \in 1 .. m - 1 PROVE s[i + 1] = K[i + 1]
    BY <2>1, <2>2
  <2> HIDE DEF s
  <2>4. s[1] = K[1] /\ s[m] = K[m] /\ m \in 1 .. t - 1
    BY <2>1, <2>2
  <2> HIDE DEF m
  <2>5. Chained(b, s)
    <3>1. \A i \in 1 .. m : ParseHeader(b, s[i])
      BY <1>5, <2>2 DEF m
    <3>2. \A i \in 1 .. m - 1 : ~EndBit(b, s[i]) /\ Next1(b, s[i]) <= Size /\ s[i + 1] = Next1(b, s[i])
      <4>1. \A i \in 1 .. m - 1 : i \in 1 .. m /\ i \in 1 .. t - 1
        BY <2>1
      <4> QED BY <1>5, <2>2, <2>3, <4>1
    <3>3. Next1(b, s[m]) = T
      BY <1>2, <1>5, <2>1, <2>4
    <3> QED BY <1>6, <2>1, <2>2, <3>1, <3>2, <3>3 DEF Chained
  <2>6. Walk(b) = s
    BY <1>1, <1>3, <1>4, <2>4, <2>5, WalkIs
  <2>7. \A i \in 1 .. m : s[i] \in Nat /\ s[i] + 5 <= T /\ s[i] >= 8 /\ ParseHeader(b, s[i]) /\ b[s[i]] # PPOL /\ ~EndBit(b, s[i])
    BY <1>5, <2>2 DEF m
  <2>8. Next1(b, s[m]) = T
    BY <1>2, <1>5, <2>1, <2>4
  <2>9. ~Ended(b)
    BY <2>1, <2>2, <2>6, <2>7 DEF Ended
  <2> QED BY <1>4, <2>2, <2>6, <2>7, <2>8, <2>9 DEF T
<1> QED BY <1>7, <1>8

----------------------------------------------------------------------------
(* Searches. *)

LEMMA MinIs ==
  ASSUME NEW I, I \subseteq Nat, NEW i \in I, \A j \in I : i <= j
  PROVE  Min(I) = i
<1>1. Min(I) \in I /\ Min(I) <= i
  BY MinOf
<1>2. i <= Min(I) /\ i \in Nat /\ Min(I) \in Nat
  BY <1>1
<1> DEFINE m == Min(I)
<1>3. m <= i /\ i <= m /\ i \in Nat /\ m \in Nat
  BY <1>1, <1>2
<1> HIDE DEF m
<1>4. m = i
  BY <1>3
<1> QED BY <1>4 DEF m

\* The least index of those a test holds for.
LEMMA FirstAt ==
  ASSUME NEW n \in Nat, NEW I, I \subseteq 1 .. n, NEW i \in I, \A j \in 1 .. i - 1 : j \notin I
  PROVE  Min(I) = i
<1>1. I \subseteq Nat
  OBVIOUS
<1>2. ASSUME NEW j \in I PROVE i <= j
  <2>1. i \in Nat /\ j \in Nat /\ j >= 1
    OBVIOUS
  <2>2. j \notin 1 .. i - 1
    BY <1>2
  <2> QED BY <2>1, <2>2
<1> QED BY <1>1, <1>2, MinIs

\* The first record that can be rewritten is the one found.
LEMMA FirstRewritable ==
  ASSUME NEW b, NEW s \in Seq(Nat)
  PROVE  /\ \A i \in 1 .. Len(s) : Rewritable(b, s[i]) /\ (\A j \in 1 .. i - 1 : ~Rewritable(b, s[j])) =>
              FirstOf(s, LAMBDA r : Rewritable(b, r)) = s[i]
         /\ (\A j \in 1 .. Len(s) : ~Rewritable(b, s[j])) => FirstOf(s, LAMBDA r : Rewritable(b, r)) = NotFound
<1> DEFINE I == {i \in DOMAIN s : Rewritable(b, s[i])}
<1>1. DOMAIN s = 1 .. Len(s) /\ Len(s) \in Nat
  OBVIOUS
<1>2. FirstOf(s, LAMBDA r : Rewritable(b, r)) = IF \E i \in DOMAIN s : Rewritable(b, s[i]) THEN s[Min(I)] ELSE NotFound
  BY DEF FirstOf
<1>3. ASSUME NEW i \in 1 .. Len(s), Rewritable(b, s[i]), \A j \in 1 .. i - 1 : ~Rewritable(b, s[j]) PROVE Min(I) = i
  <2>1. I \subseteq 1 .. Len(s) /\ i \in I /\ \A j \in 1 .. i - 1 : j \notin I
    BY <1>1, <1>3
  <2> HIDE DEF I
  <2> QED BY <1>1, <2>1, FirstAt
<1> QED BY <1>1, <1>2, <1>3

\* FruInternalsGetMultirecord finds the first record of a type whose data add up.
LEMMA FirstRecord ==
  ASSUME NEW b, NEW type, Walk(b) \in Seq(Nat)
  PROVE  /\ \A i \in 1 .. Len(Walk(b)) :
              b[Walk(b)[i]] = type /\ CheckData(b, Walk(b)[i]) /\ (\A j \in 1 .. i - 1 : b[Walk(b)[j]] # type \/ ~CheckData(b, Walk(b)[j])) =>
              GetMultirecord(b, type) = Walk(b)[i]
         /\ (\A j \in 1 .. Len(Walk(b)) : b[Walk(b)[j]] # type \/ ~CheckData(b, Walk(b)[j])) => GetMultirecord(b, type) = NotFound
<1> DEFINE s == Walk(b)
           I == {i \in DOMAIN s : b[s[i]] = type /\ CheckData(b, s[i])}
<1>1. DOMAIN s = 1 .. Len(s) /\ Len(s) \in Nat
  OBVIOUS
<1>2. GetMultirecord(b, type) = IF \E i \in DOMAIN s : b[s[i]] = type /\ CheckData(b, s[i]) THEN s[Min(I)] ELSE NotFound
  BY DEF GetMultirecord, FirstOf
<1> HIDE DEF s
<1>3. ASSUME NEW i \in 1 .. Len(s), b[s[i]] = type, CheckData(b, s[i]), \A j \in 1 .. i - 1 : b[s[j]] # type \/ ~CheckData(b, s[j])
      PROVE  Min(I) = i
  <2>1. I \subseteq 1 .. Len(s) /\ i \in I /\ \A j \in 1 .. i - 1 : j \notin I
    BY <1>1, <1>3
  <2> HIDE DEF I
  <2> QED BY <1>1, <2>1, FirstAt
<1> HIDE DEF I
<1> QED BY <1>1, <1>2, <1>3 DEF s

----------------------------------------------------------------------------
(* What SetMultirecord writes. *)

LEMMA HeaderBytes ==
  ASSUME NEW b \in Buffers, NEW p \in Nat, p + 5 <= Size
  PROVE  /\ \A i \in p .. p + 4 : i \in 0 .. Size - 1 /\ b[i] \in 0 .. 255
         /\ p \in 0 .. Size - 1 /\ p + 1 \in 0 .. Size - 1 /\ p + 2 \in 0 .. Size - 1 /\ p + 3 \in 0 .. Size - 1 /\ p + 4 \in 0 .. Size - 1
<1>1. Size \in Nat
  BY FruAssumption DEF FruAssumption
<1> QED BY <1>1, BufferByte

\* The header checksum that is computed last makes the header add up.
LEMMA Sealed ==
  ASSUME NEW b \in Buffers, NEW p \in Nat, p + 5 <= Size
  PROVE  \A c : c = [b EXCEPT ![p + 4] = Negated(Sum(b, p, 4))] =>
              c \in Buffers /\ Sum(c, p, 5) = 0 /\ \A i \in 0 .. Size - 1 : i # p + 4 => c[i] = b[i]
<1> SUFFICES ASSUME NEW c, c = [b EXCEPT ![p + 4] = Negated(Sum(b, p, 4))]
             PROVE  c \in Buffers /\ Sum(c, p, 5) = 0 /\ \A i \in 0 .. Size - 1 : i # p + 4 => c[i] = b[i]
  OBVIOUS
<1>1. Size \in Nat /\ p + 4 \in 0 .. Size - 1
  BY FruAssumption DEF FruAssumption
<1>2. \A i \in p .. p + 4 : b[i] \in 0 .. 255
  BY <1>1, BufferByte
<1>3. Sum(b, p, 4) = (b[p] + b[p + 1] + b[p + 2] + b[p + 3]) % 256 /\ Sum(b, p, 4) \in 0 .. 255
  <2>1. \A i \in p .. p + 4 - 1 : b[i] \in 0 .. 255
    BY <1>2
  <2> QED BY <1>2, <2>1, SumOfHeader, SumRange
<1>4. Negated(Sum(b, p, 4)) \in 0 .. 255
  BY <1>3, Checksum
<1>5. c \in Buffers /\ c[p + 4] = Negated(Sum(b, p, 4)) /\ \A i \in 0 .. Size - 1 : i # p + 4 => c[i] = b[i]
  BY <1>1, <1>4 DEF Buffers
<1>6. \A i \in p .. p + 4 : c[i] \in 0 .. 255
  BY <1>5, HeaderBytes, Zenon
<1>7. Sum(c, p, 5) = (c[p] + c[p + 1] + c[p + 2] + c[p + 3] + c[p + 4]) % 256
  <2>1. p \in Int
    OBVIOUS
  <2> QED BY <1>6, <2>1, SumOfHeader, Zenon
<1>8. c[p] = b[p] /\ c[p + 1] = b[p + 1] /\ c[p + 2] = b[p + 2] /\ c[p + 3] = b[p + 3]
  BY <1>1, <1>5
<1>9. b[p] \in 0 .. 255 /\ b[p + 1] \in 0 .. 255 /\ b[p + 2] \in 0 .. 255 /\ b[p + 3] \in 0 .. 255
  BY <1>2
<1>10. PICK u \in 0 .. 255, v \in 0 .. 255, x \in 0 .. 255, y \in 0 .. 255 : u = b[p] /\ v = b[p + 1] /\ x = b[p + 2] /\ y = b[p + 3]
  BY <1>9, Zenon
<1>11. (u + v + x + y + Negated((u + v + x + y) % 256)) % 256 = 0
  BY DEF Negated
<1>12. Sum(c, p, 5) = (u + v + x + y + Negated((u + v + x + y) % 256)) % 256
  BY <1>3, <1>5, <1>7, <1>8, <1>10
<1> QED BY <1>5, <1>11, <1>12

\* The bytes of the manufacturer.
LEMMA OemByte == ASSUME NEW i \in 0 .. 2 PROVE Oem(i) \in 0 .. 255
<1>1. OemId \in Nat
  BY FruAssumption DEF FruAssumption
<1>2. OemId \in Int /\ OemId \div 256 \in Int /\ OemId \div 65536 \in Int
  BY <1>1
<1>3. CASE i = 0
  BY <1>2, <1>3 DEF Oem
<1>4. CASE i = 1
  BY <1>2, <1>4 DEF Oem
<1>5. CASE i = 2
  BY <1>2, <1>5 DEF Oem
<1> QED BY <1>3, <1>4, <1>5

\* A record of a policy that is complete: header and data add up, and the byte is where readers look.
WithPolicy(c, b, p, n, v) ==
  /\ c \in Buffers /\ Sum(c, p, 5) = 0
  /\ \A i \in 0 .. Size - 1 : i \notin p + 3 .. p + 4 + n => c[i] = b[i]
  /\ b[p + 1] % 128 = 2 => CheckData(c, p)
  /\ (IF n = 4 THEN c[p + 8] ELSE c[p + 5]) = v

\* A record with a policy and its checksums written is complete.
LEMMA PolicyWritten ==
  ASSUME NEW b \in Buffers, NEW p \in Nat, NEW n \in {1, 4}, NEW v \in 0 .. 255, p + 5 + n <= Size, b[p + 2] = n
  PROVE  \A c : c = WithChecksums(WithData(b, p, n, v), p) => WithPolicy(c, b, p, n, v)
<1> SUFFICES ASSUME NEW c, c = WithChecksums(WithData(b, p, n, v), p)
             PROVE  /\ c \in Buffers /\ Sum(c, p, 5) = 0
                    /\ \A i \in 0 .. Size - 1 : i \notin p + 3 .. p + 4 + n => c[i] = b[i]
                    /\ b[p + 1] % 128 = 2 => CheckData(c, p)
                    /\ (IF n = 4 THEN c[p + 8] ELSE c[p + 5]) = v
  BY DEF WithPolicy
<1>1. Size \in Nat /\ DOMAIN b = 0 .. Size - 1 /\ p + 4 + n \in 0 .. Size - 1
  BY FruAssumption DEF FruAssumption, Buffers
<1> DEFINE d == WithData(b, p, n, v)
<1>2. d \in Buffers /\ (\A i \in 0 .. Size - 1 : i \notin p + 5 .. p + 4 + n => d[i] = b[i]) /\ d[p + 4 + n] = v
  <2>1. \A i \in 0 .. Size - 1 : d[i] = IF i = p + 5 + n - 1 THEN v ELSE IF n = 4 /\ i \in p + 5 .. p + 7 THEN Oem(i - p - 5) ELSE b[i]
    BY <1>1 DEF WithData
  <2>2. ASSUME NEW i \in 0 .. Size - 1 PROVE d[i] \in 0 .. 255
    <3>1. i \in p + 5 .. p + 7 => Oem(i - p - 5) \in 0 .. 255
      <4>1. i \in p + 5 .. p + 7 => i - p - 5 \in 0 .. 2
        OBVIOUS
      <4> QED BY <4>1, OemByte
    <3>2. b[i] \in 0 .. 255
      BY BufferByte
    <3> QED BY <2>1, <3>1, <3>2
  <2>3. d = [i \in 0 .. Size - 1 |-> d[i]]
    BY <1>1 DEF WithData
  <2>4. d \in Buffers
    <3> HIDE DEF d
    <3> QED BY <2>2, <2>3 DEF Buffers
  <2>5. ASSUME NEW i \in 0 .. Size - 1, i \notin p + 5 .. p + 4 + n PROVE d[i] = b[i]
    BY <2>1, <2>5
  <2>6. d[p + 4 + n] = v
    BY <1>1, <2>1
  <2> QED BY <2>4, <2>5, <2>6
<1> HIDE DEF d
<1> DEFINE k == Sum(d, p + 5, n)
           e == [d EXCEPT ![p + 3] = Negated(k)]
<1>3. Length(d, p) = n
  BY <1>1, <1>2 DEF Length
<1>4. c = [e EXCEPT ![p + 4] = Negated(Sum(e, p, 4))]
  BY <1>3 DEF WithChecksums, d
<1>5. k \in 0 .. 255 /\ Negated(k) \in 0 .. 255 /\ (k + Negated(k)) % 256 = 0
  <2>1. \A i \in p + 5 .. p + 5 + n - 1 : d[i] \in 0 .. 255
    BY <1>1, <1>2, BufferByte
  <2>2. k \in 0 .. 255
    BY <2>1, SumRange
  <2> QED BY <2>2, Checksum
<1>6. e \in Buffers /\ e[p + 3] = Negated(k) /\ \A i \in 0 .. Size - 1 : i # p + 3 => e[i] = d[i]
  <2> DEFINE m == Negated(k)
  <2>1. m \in 0 .. 255 /\ p + 3 \in 0 .. Size - 1
    BY <1>1, <1>5
  <2>2. e = [d EXCEPT ![p + 3] = m]
    OBVIOUS
  <2> HIDE DEF m, e
  <2>3. e \in Buffers /\ e[p + 3] = m /\ \A i \in 0 .. Size - 1 : i # p + 3 => e[i] = d[i]
    BY <1>2, <2>1, <2>2 DEF Buffers
  <2> QED BY <2>3 DEF m
<1> HIDE DEF e
<1>7. c \in Buffers /\ Sum(c, p, 5) = 0 /\ \A i \in 0 .. Size - 1 : i # p + 4 => c[i] = e[i]
  <2>1. p + 5 <= Size
    BY <1>1
  <2>2. \A x : x = [e EXCEPT ![p + 4] = Negated(Sum(e, p, 4))] =>
             x \in Buffers /\ Sum(x, p, 5) = 0 /\ \A i \in 0 .. Size - 1 : i # p + 4 => x[i] = e[i]
    BY <1>6, <2>1, Sealed, Zenon
  <2> QED BY <1>4, <2>2, Zenon
<1>8. ASSUME NEW i \in 0 .. Size - 1, i \notin p + 3 .. p + 4 + n PROVE c[i] = b[i]
  <2>1. i # p + 3 /\ i # p + 4 /\ i \notin p + 5 .. p + 4 + n
    BY <1>8
  <2> QED BY <1>2, <1>6, <1>7, <2>1
<1>9. \A i \in p + 5 .. p + 4 + n : c[i] = d[i] /\ d[i] \in 0 .. 255
  BY <1>1, <1>2, <1>6, <1>7, BufferByte
<1>10. c[p + 3] = Negated(k)
  BY <1>1, <1>6, <1>7
<1>11. ASSUME b[p + 1] % 128 = 2 PROVE CheckData(c, p)
  <2>1. c[p + 1] = b[p + 1] /\ c[p + 2] = n /\ b[p + 1] \in 0 .. 255
    <3>1. /\ p + 1 \in 0 .. Size - 1 /\ p + 1 \notin p + 3 .. p + 4 + n
          /\ p + 2 \in 0 .. Size - 1 /\ p + 2 \notin p + 3 .. p + 4 + n
      BY <1>1
    <3> QED BY <1>8, <3>1, BufferByte, Zenon
  <2>2. c[p + 1] % 8 = 2
    <3>1. \A u \in 0 .. 255 : u % 128 = 2 => u % 8 = 2
      OBVIOUS
    <3> QED BY <1>11, <2>1, <3>1
  <2>3. Sum(c, p + 5, n) = k
    <3>1. \A i \in p + 5 .. p + 5 + n - 1 : d[i] \in 0 .. 255 /\ c[i] = d[i]
      BY <1>9
    <3> QED BY <3>1, SumSame
  <2>4. Length(c, p) = n
    BY <2>1 DEF Length
  <2>5. Size - p >= 5 + n
    BY <1>1
  <2> QED BY <1>5, <1>10, <2>2, <2>3, <2>4, <2>5 DEF CheckData
<1>12. (IF n = 4 THEN c[p + 8] ELSE c[p + 5]) = v
  <2>1. c[p + 4 + n] = v
    BY <1>2, <1>9
  <2> QED BY <2>1
<1> QED BY <1>7, <1>8, <1>11, <1>12

\* The end bit is cleared and the header adds up.
LEMMA Cleared ==
  ASSUME NEW b \in Buffers, NEW p \in Nat, p + 5 <= Size
  PROVE  \A c : c = ClearLast(b, p) =>
              /\ c \in Buffers /\ Sum(c, p, 5) = 0 /\ c[p + 1] = b[p + 1] % 128
              /\ \A i \in 0 .. Size - 1 : i # p + 1 /\ i # p + 4 => c[i] = b[i]
<1> SUFFICES ASSUME NEW c, c = ClearLast(b, p)
             PROVE  /\ c \in Buffers /\ Sum(c, p, 5) = 0 /\ c[p + 1] = b[p + 1] % 128
                    /\ \A i \in 0 .. Size - 1 : i # p + 1 /\ i # p + 4 => c[i] = b[i]
  OBVIOUS
<1>1. Size \in Nat /\ p + 1 \in 0 .. Size - 1
  BY FruAssumption DEF FruAssumption
<1> DEFINE d == NotLast(b, p)
<1>2. b[p + 1] % 128 \in 0 .. 255
  <2>1. b[p + 1] \in 0 .. 255
    BY <1>1, BufferByte
  <2> QED BY <2>1
<1>3. d \in Buffers /\ d[p + 1] = b[p + 1] % 128 /\ \A i \in 0 .. Size - 1 : i # p + 1 => d[i] = b[i]
  BY <1>1, <1>2 DEF NotLast, Buffers
<1>4. c = [d EXCEPT ![p + 4] = Negated(Sum(d, p, 4))]
  BY DEF ClearLast
<1> HIDE DEF d
<1>5. c \in Buffers /\ Sum(c, p, 5) = 0 /\ \A i \in 0 .. Size - 1 : i # p + 4 => c[i] = d[i]
  <2>1. \A x : x = [d EXCEPT ![p + 4] = Negated(Sum(d, p, 4))] =>
             x \in Buffers /\ Sum(x, p, 5) = 0 /\ \A i \in 0 .. Size - 1 : i # p + 4 => x[i] = d[i]
    BY <1>3, Sealed, Zenon
  <2> QED BY <1>4, <2>1, Zenon
<1>6. c[p + 1] = b[p + 1] % 128
  <2>1. p + 1 # p + 4
    OBVIOUS
  <2> QED BY <1>1, <1>3, <1>5, <2>1
<1> QED BY <1>3, <1>5, <1>6

\* The first complete policy is the one that is read.
LEMMA PolicyFound ==
  ASSUME NEW b, Walk(b) \in Seq(Nat), NEW i \in 1 .. Len(Walk(b)), NEW n \in {1, 4}, NEW v,
         b[Walk(b)[i]] = PPOL, CheckData(b, Walk(b)[i]), Length(b, Walk(b)[i]) = n,
         \A j \in 1 .. i - 1 : b[Walk(b)[j]] # PPOL,
         (IF n = 4 THEN b[Walk(b)[i] + 8] ELSE b[Walk(b)[i] + 5]) = v
  PROVE  PowerPolicy(b) = v
<1> DEFINE p == Walk(b)[i]
<1>1. GetMultirecord(b, PPOL) = p /\ p \in Nat
  BY FirstRecord
<1>2. p # NotFound
  BY <1>1 DEF NotFound
<1> QED BY <1>1, <1>2 DEF PowerPolicy

\* The image has a policy: it is overwritten in place.
LEMMA RewritePolicied ==
  ASSUME NEW f, Recorded(f), NEW b, Good(f, b), NEW v \in 0 .. 255, Policied(f), NEW r, r = SetMultirecord(b, v)
  PROVE  r.ok /\ Good(f, r.buf) /\ PowerPolicy(r.buf) = v
<1> DEFINE K == Walk(f)
           n == Len(K)
           T == Target(f)
           l == Length(f, T)
<1>1. PICK t \in 1 .. n : T = K[t] /\ Rewritable(f, K[t]) /\ \A i \in 1 .. t - 1 : f[K[i]] # PPOL
  BY TargetFacts
<1>2. /\ K # <<>> /\ K \in Seq(Nat) /\ n \in Nat /\ Size \in Nat /\ T \in Nat /\ l \in 0 .. 255 /\ T + 5 + l <= Size
      /\ T + 5 + l <= End(f)
  <2>1. /\ K # <<>> /\ K \in Seq(Nat) /\ n \in Nat /\ Size \in Nat /\ T \in Nat /\ l \in 0 .. 255 /\ T + 5 + l <= End(f)
        /\ End(f) \in Nat /\ End(f) <= Size
    BY <1>1, ImageFacts, FruAssumption DEF Chained, FruAssumption
  <2> HIDE DEF T, l
  <2>2. T + 5 + l <= Size
    BY <2>1
  <2> QED BY <2>1, <2>2
<1>3. ASSUME NEW c, Good(f, c)
      PROVE  /\ Walk(c) = K /\ \A i \in 1 .. n : c[K[i]] = f[K[i]]
             /\ c[T] = PPOL /\ c[T + 1] = f[T + 1] /\ Length(c, T) = l /\ Rewritable(c, T)
  <2>1. Walk(c) = K
    BY <1>3, WalkGood
  <2>2. \A i \in 1 .. n : c[K[i]] = f[K[i]] /\ Length(c, K[i]) = Length(f, K[i])
    BY <1>3, Headers DEF Good
  <2>3. c[T + 1] = f[T + 1]
    BY <1>3, Frame DEF Good
  <2> QED BY <1>1, <2>1, <2>2, <2>3 DEF Rewritable
<1>4. l \in {1, 4} /\ f[T + 1] % 128 = 2
  BY <1>1 DEF Rewritable
<1>5. FirstOf(K, LAMBDA x : Rewritable(b, x)) = T
  <2>1. \A i \in 1 .. t - 1 : ~Rewritable(b, K[i])
    <3>1. ASSUME NEW i \in 1 .. t - 1 PROVE ~Rewritable(b, K[i])
      <4>1. i \in 1 .. n
        BY <1>2
      <4> QED BY <1>1, <1>3, <4>1 DEF Rewritable
    <3> QED BY <3>1
  <2>2. Rewritable(b, K[t])
    BY <1>1, <1>3
  <2> HIDE DEF K, T
  <2> QED BY <1>1, <1>2, <2>1, <2>2, FirstRewritable
<1> DEFINE c == WithChecksums(WithData(b, T, l, v), T)
<1>6. r.ok /\ r.buf = c
  <2>1. Walk(b) = K /\ Length(b, T) = l /\ T # NotFound
    BY <1>2, <1>3 DEF NotFound
  <2> HIDE DEF K, T, l
  <2> QED BY <1>2, <1>5, <2>1 DEF SetMultirecord
<1>7. b \in Buffers /\ b[T + 2] = l /\ b[T + 1] % 128 = 2
  BY <1>3, <1>4 DEF Length, Good, Framed
<1>8. /\ c \in Buffers /\ Sum(c, T, 5) = 0
      /\ \A i \in 0 .. Size - 1 : i \notin T + 3 .. T + 4 + l => c[i] = b[i]
      /\ CheckData(c, T) /\ (IF l = 4 THEN c[T + 8] ELSE c[T + 5]) = v
  <2> DEFINE d == c
  <2>1. d = WithChecksums(WithData(b, T, l, v), T)
    OBVIOUS
  <2> HIDE DEF d, T, l, c
  <2>2. /\ d \in Buffers /\ Sum(d, T, 5) = 0
        /\ \A i \in 0 .. Size - 1 : i \notin T + 3 .. T + 4 + l => d[i] = b[i]
        /\ CheckData(d, T) /\ (IF l = 4 THEN d[T + 8] ELSE d[T + 5]) = v
    <3>1. b \in Buffers /\ T \in Nat /\ l \in {1, 4} /\ v \in 0 .. 255 /\ T + 5 + l <= Size /\ b[T + 2] = l
      BY <1>2, <1>4, <1>7
    <3>2. WithPolicy(d, b, T, l, v)
      BY <2>1, <3>1, PolicyWritten, Zenon
    <3> QED BY <1>7, <3>2 DEF WithPolicy
  <2> QED BY <2>2 DEF d
<1> HIDE DEF c
<1>9. Good(f, c)
  <2>1. Touched(f) = T + 3 .. T + 4 + l
    BY DEF Touched
  <2>2. \A i \in 0 .. Size - 1 : i \notin Touched(f) => c[i] = f[i]
    BY <1>8, <2>1 DEF Good, Framed
  <2> QED BY <1>8, <2>2 DEF Good, Framed
<1>10. PowerPolicy(c) = v
  <2>1. Walk(c) = K /\ (\A i \in 1 .. n : c[K[i]] = f[K[i]]) /\ c[T] = PPOL /\ Length(c, T) = l
    BY <1>3, <1>9
  <2>2. \A j \in 1 .. t - 1 : c[K[j]] # PPOL
    <3>1. \A j \in 1 .. t - 1 : j \in 1 .. n
      BY <1>2
    <3> QED BY <1>1, <2>1, <3>1
  <2> HIDE DEF K, T, l
  <2> QED BY <1>1, <1>2, <1>4, <1>8, <2>1, <2>2, PolicyFound
<1> QED BY <1>6, <1>9, <1>10

\* A new record at q, behind the last one at p.
NewRecord(b, p, q, v) ==
  WithChecksums(WithData([ClearLast(b, p) EXCEPT ![q] = PPOL, ![q + 1] = 130, ![q + 2] = NewLength], q, NewLength, v), q)

NewLinked(c, b, p, q, v) ==
  /\ c \in Buffers /\ Sum(c, p, 5) = 0 /\ c[p + 1] = b[p + 1] % 128
  /\ \A i \in 0 .. Size - 1 : i < q /\ i # p + 1 /\ i # p + 4 => c[i] = b[i]
  /\ c[q] = PPOL /\ c[q + 1] = 130 /\ c[q + 2] = NewLength /\ ParseHeader(c, q) /\ CheckData(c, q)
  /\ (IF NewLength = 4 THEN c[q + 8] ELSE c[q + 5]) = v

\* The new record is complete, and the header in front of it adds up without its end bit.
LEMMA Linked ==
  ASSUME NEW b \in Buffers, NEW p \in Nat, NEW q \in Nat, p + 5 <= q, q + 9 < Size, NEW v \in 0 .. 255
  PROVE  \A x : x = NewRecord(b, p, q, v) => NewLinked(x, b, p, q, v)
<1>1. Size \in Nat /\ NewLength \in {1, 4}
  BY FruAssumption DEF FruAssumption, NewLength
<1> DEFINE d == ClearLast(b, p)
           m == NewLength
           e == [d EXCEPT ![q] = PPOL, ![q + 1] = 130, ![q + 2] = m]
           c == WithChecksums(WithData(e, q, m, v), q)
<1>2. p + 5 <= Size /\ q + 5 + m <= Size
  BY <1>1
<1>3. d \in Buffers /\ Sum(d, p, 5) = 0 /\ d[p + 1] = b[p + 1] % 128 /\ \A i \in 0 .. Size - 1 : i # p + 1 /\ i # p + 4 => d[i] = b[i]
  <2>1. \A x : x = ClearLast(b, p) =>
             /\ x \in Buffers /\ Sum(x, p, 5) = 0 /\ x[p + 1] = b[p + 1] % 128
             /\ \A i \in 0 .. Size - 1 : i # p + 1 /\ i # p + 4 => x[i] = b[i]
    BY <1>2, Cleared, Zenon
  <2>2. d = ClearLast(b, p)
    OBVIOUS
  <2> HIDE DEF d
  <2> QED BY <2>1, <2>2, Zenon
<1> HIDE DEF d, m
<1>m. m \in {1, 4}
  BY <1>1 DEF m
<1>4. e \in Buffers /\ e[q] = PPOL /\ e[q + 1] = 130 /\ e[q + 2] = m /\ \A i \in 0 .. Size - 1 : i # q /\ i # q + 1 /\ i # q + 2 => e[i] = d[i]
  <2>1. q \in 0 .. Size - 1 /\ q + 1 \in 0 .. Size - 1 /\ q + 2 \in 0 .. Size - 1 /\ q # q + 1 /\ q # q + 2 /\ q + 1 # q + 2
    BY <1>1
  <2>2. PPOL \in 0 .. 255 /\ 130 \in 0 .. 255 /\ m \in 0 .. 255
    BY <1>m DEF PPOL
  <2>3. d \in [0 .. Size - 1 -> 0 .. 255]
    BY <1>3 DEF Buffers
  <2>4. e \in [0 .. Size - 1 -> 0 .. 255]
    BY <2>1, <2>2, <2>3
  <2>5. e[q] = PPOL /\ e[q + 1] = 130 /\ e[q + 2] = m /\ \A i \in 0 .. Size - 1 : i # q /\ i # q + 1 /\ i # q + 2 => e[i] = d[i]
    BY <2>1, <2>3
  <2> QED BY <2>4, <2>5 DEF Buffers
<1> HIDE DEF e
<1>5. /\ c \in Buffers /\ Sum(c, q, 5) = 0
      /\ \A i \in 0 .. Size - 1 : i \notin q + 3 .. q + 4 + m => c[i] = e[i]
      /\ CheckData(c, q) /\ (IF m = 4 THEN c[q + 8] ELSE c[q + 5]) = v
  <2>1. e[q + 1] % 128 = 2
    BY <1>4
  <2>2. e \in Buffers /\ q \in Nat /\ m \in {1, 4} /\ v \in 0 .. 255 /\ q + 5 + m <= Size /\ e[q + 2] = m
    BY <1>2, <1>4, <1>m
  <2> HIDE DEF c
  <2>3. c = WithChecksums(WithData(e, q, m, v), q)
    BY DEF c
  <2>4. WithPolicy(c, e, q, m, v)
    BY <2>2, <2>3, PolicyWritten, Zenon
  <2> QED BY <2>1, <2>4 DEF WithPolicy
<1> HIDE DEF c
<1>6. ASSUME NEW i \in 0 .. Size - 1, i < q PROVE c[i] = d[i]
  <2>1. i \notin q + 3 .. q + 4 + m /\ i # q /\ i # q + 1 /\ i # q + 2
    BY <1>6
  <2> QED BY <1>4, <1>5, <2>1
<1>7. c[p + 1] = d[p + 1] /\ Sum(c, p, 5) = Sum(d, p, 5)
  <2>1. \A i \in p .. p + 4 : i \in 0 .. Size - 1 /\ i < q
    BY <1>1
  <2>2. \A i \in p .. p + 4 : c[i] = d[i]
    BY <1>6, <2>1
  <2>3. p + 1 \in p .. p + 4
    OBVIOUS
  <2> QED BY <1>2, <1>3, <2>2, <2>3, SameHeader
<1>8. c[q] = PPOL /\ c[q + 1] = 130 /\ c[q + 2] = m
  <2>1. /\ q \in 0 .. Size - 1 /\ q \notin q + 3 .. q + 4 + m /\ q + 1 \in 0 .. Size - 1 /\ q + 1 \notin q + 3 .. q + 4 + m
        /\ q + 2 \in 0 .. Size - 1 /\ q + 2 \notin q + 3 .. q + 4 + m
    BY <1>1, <1>m
  <2> QED BY <1>4, <1>5, <2>1
<1>9. ParseHeader(c, q)
  BY <1>1, <1>5 DEF ParseHeader
<1>10. ASSUME NEW i \in 0 .. Size - 1, i < q, i # p + 1, i # p + 4 PROVE c[i] = b[i]
  BY <1>3, <1>6, <1>10
<1>11. c = NewRecord(b, p, q, v)
  BY DEF c, e, d, m, NewRecord
<1>12. NewLinked(c, b, p, q, v)
  BY <1>3, <1>5, <1>7, <1>8, <1>9, <1>10 DEF m, NewLinked
<1> QED BY <1>11, <1>12, Zenon

\* Without a record to rewrite, a new one is appended if it fits.
LEMMA SetNew ==
  ASSUME NEW b, NEW v, Walk(b) \in Seq(Nat), Walk(b) # <<>>, \A i \in 1 .. Len(Walk(b)) : ~Rewritable(b, Walk(b)[i])
  PROVE  LET p == Walk(b)[Len(Walk(b))]
             at == IF EndBit(b, p) THEN p ELSE Next1(b, p)
         IN SetMultirecord(b, v) = IF ~Fits(at, Length(b, p)) THEN [ok |-> FALSE, buf |-> b]
                                   ELSE [ok |-> TRUE, buf |-> NewRecord(b, p, at + 5 + Length(b, p), v)]
<1>1. FirstOf(Walk(b), LAMBDA r : Rewritable(b, r)) = NotFound
  <2> DEFINE s == Walk(b)
  <2>1. s \in Seq(Nat) /\ \A i \in 1 .. Len(s) : ~Rewritable(b, s[i])
    OBVIOUS
  <2> HIDE DEF s
  <2>2. FirstOf(s, LAMBDA r : Rewritable(b, r)) = NotFound
    <3>1. DOMAIN s = 1 .. Len(s)
      BY <2>1
    <3>2. ~ \E i \in DOMAIN s : Rewritable(b, s[i])
      BY <2>1, <3>1, Zenon
    <3> QED BY <3>2, Zenon DEF FirstOf
  <2> QED BY <2>2 DEF s
<1> QED BY <1>1 DEF SetMultirecord, NewRecord, NewLength

----------------------------------------------------------------------------
(* An image without a policy. *)

\* What a rewrite with the policy v leaves.
Rewritten(f, c, b, v) ==
  /\ Good(f, c) /\ (Ended(b) => PowerPolicy(c) = v) /\ End(f) + 9 < Size
  /\ \A i \in 0 .. 2 : c[End(f) + i] = 255 => b[End(f) + i] = 255

\* The last record of an image without a policy, and the end of its chain.
LEMMA PlainFacts ==
  ASSUME NEW f, Recorded(f), ~Policied(f)
  PROVE  LET K == Walk(f) T == Target(f) IN
         /\ K # <<>> /\ K \in Seq(Nat) /\ Len(K) \in Nat /\ Len(K) > 0 /\ LastOf(f) = K[Len(K)] /\ T = K[Len(K)]
         /\ T \in Nat /\ Length(f, T) \in 0 .. 255 /\ End(f) = T + 5 + Length(f, T) /\ End(f) \in Nat /\ End(f) <= Size /\ Size \in Nat
         /\ \A b : Framed(f, b) => /\ Length(b, T) = Length(f, T) /\ Next1(b, T) = End(f)
                                   /\ \A i \in 1 .. Len(K) : b[K[i]] # PPOL
<1>1. /\ Walk(f) # <<>> /\ Walk(f) \in Seq(Nat) /\ Len(Walk(f)) \in Nat /\ Len(Walk(f)) > 0 /\ LastOf(f) = Walk(f)[Len(Walk(f))]
      /\ End(f) \in Nat /\ End(f) <= Size /\ Size \in Nat /\ End(f) = Next1(f, LastOf(f))
      /\ \A i \in 1 .. Len(Walk(f)) : Walk(f)[i] \in Nat /\ Length(f, Walk(f)[i]) \in 0 .. 255
  BY ImageFacts, FruAssumption DEF Chained, FruAssumption
<1>2. Target(f) = Walk(f)[Len(Walk(f))] /\ \A i \in 1 .. Len(Walk(f)) : f[Walk(f)[i]] # PPOL
  BY TargetFacts
<1>3. Len(Walk(f)) \in 1 .. Len(Walk(f))
  BY <1>1
<1>4. Target(f) \in Nat /\ Length(f, Target(f)) \in 0 .. 255 /\ End(f) = Target(f) + 5 + Length(f, Target(f))
  BY <1>1, <1>2, <1>3 DEF Next1
<1>5. ASSUME NEW b, Framed(f, b)
      PROVE  /\ Length(b, Target(f)) = Length(f, Target(f)) /\ Next1(b, Target(f)) = End(f)
             /\ \A i \in 1 .. Len(Walk(f)) : b[Walk(f)[i]] # PPOL
  BY <1>1, <1>2, <1>3, <1>5, Headers
<1> QED BY <1>1, <1>2, <1>4, <1>5

\* A buffer that differs from a good one in the bytes of a rewrite only.
LEMMA GoodPlain ==
  ASSUME NEW f, Recorded(f), ~Policied(f), NEW b, Good(f, b), NEW c \in Buffers,
         \A i \in 0 .. Size - 1 : i < End(f) /\ i # Target(f) + 1 /\ i # Target(f) + 4 => c[i] = b[i],
         c[Target(f) + 1] \in {f[Target(f) + 1], f[Target(f) + 1] % 128}, Sum(c, Target(f), 5) = 0, Appended(f, c)
  PROVE  Good(f, c)
<1> DEFINE T == Target(f)
           e == End(f)
<1>1. T \in Nat /\ e \in Nat /\ LastOf(f) = T /\ Size \in Nat
  BY PlainFacts
<1>2. Touched(f) = {T + 1, T + 4} \cup e .. Size - 1
  BY <1>1 DEF Touched
<1> HIDE DEF T, e
<1>3. ASSUME NEW i \in 0 .. Size - 1, i \notin Touched(f) PROVE c[i] = f[i]
  <2>1. i < e /\ i # T + 1 /\ i # T + 4
    BY <1>1, <1>2, <1>3
  <2>2. c[i] = b[i]
    BY <2>1 DEF T, e
  <2> QED BY <1>3, <2>2 DEF Good, Framed
<1> QED BY <1>1, <1>3 DEF Good, Framed, T

\* A complete policy behind the chain is the one that is read.
LEMMA PolicyBehind ==
  ASSUME NEW f, Recorded(f), ~Policied(f), NEW c, Good(f, c), ~EndBit(c, Target(f)), ParseHeader(c, End(f)), CheckData(c, End(f)),
         NEW v, (IF NewLength = 4 THEN c[End(f) + 8] ELSE c[End(f) + 5]) = v
  PROVE  PowerPolicy(c) = v
<1> DEFINE K == Walk(f)
           n == Len(K)
           e == End(f)
<1>1. K \in Seq(Nat) /\ n \in Nat /\ e \in Nat /\ LastOf(f) = Target(f) /\ \A i \in 1 .. n : c[K[i]] # PPOL
  BY PlainFacts DEF Good
<1>2. Walk(c) = Append(K, e) /\ Rewritable(c, e) /\ Length(c, e) = NewLength
  BY <1>1, WalkGood
<1> HIDE DEF K, e
<1>3. Walk(c) \in Seq(Nat) /\ Len(Walk(c)) = n + 1 /\ Walk(c)[n + 1] = e /\ \A i \in 1 .. n : Walk(c)[i] = K[i]
  BY <1>1, <1>2
<1>4. n + 1 \in 1 .. Len(Walk(c)) /\ \A j \in 1 .. (n + 1) - 1 : j \in 1 .. n
  BY <1>1, <1>3
<1>5. \A j \in 1 .. (n + 1) - 1 : c[Walk(c)[j]] # PPOL
  BY <1>1, <1>3, <1>4
<1>6. NewLength \in {1, 4} /\ c[Walk(c)[n + 1]] = PPOL /\ CheckData(c, Walk(c)[n + 1]) /\ Length(c, Walk(c)[n + 1]) = NewLength
  BY <1>2, <1>3 DEF NewLength, Rewritable, e
<1>7. (IF NewLength = 4 THEN c[Walk(c)[n + 1] + 8] ELSE c[Walk(c)[n + 1] + 5]) = v
  BY <1>3 DEF e
<1> QED BY <1>3, <1>4, <1>5, <1>6, <1>7, PolicyFound

\* The policy behind the chain is overwritten.
LEMMA PlainOverwritten ==
  ASSUME NEW f, Recorded(f), ~Policied(f), NEW b, Good(f, b), NEW v \in 0 .. 255, ~EndBit(b, Target(f)), ParseHeader(b, End(f))
  PROVE  \A c : c = WithChecksums(WithData(b, End(f), NewLength, v), End(f)) =>
               /\ Good(f, c) /\ PowerPolicy(c) = v /\ End(f) + 9 < Size
               /\ \A i \in 0 .. 2 : c[End(f) + i] = b[End(f) + i]
<1> SUFFICES ASSUME NEW c, c = WithChecksums(WithData(b, End(f), NewLength, v), End(f))
             PROVE  /\ Good(f, c) /\ PowerPolicy(c) = v /\ End(f) + 9 < Size
                    /\ \A i \in 0 .. 2 : c[End(f) + i] = b[End(f) + i]
  OBVIOUS
<1> DEFINE T == Target(f)
           e == End(f)
           m == NewLength
<1>1. T \in Nat /\ e \in Nat /\ T + 5 <= e /\ LastOf(f) = T /\ Size \in Nat /\ m \in {1, 4}
  <2>1. \A x \in Nat : \A y \in 0 .. 255 : x + 5 <= x + 5 + y
    OBVIOUS
  <2> QED BY <2>1, PlainFacts DEF NewLength
<1>2. e + 9 < Size /\ b[e + 2] = m /\ b[e + 1] % 128 = 2
  BY <1>1, WalkGood DEF Rewritable, Length
<1>3. b \in Buffers /\ Sum(b, T, 5) = 0 /\ b[T + 1] \in {f[T + 1], f[T + 1] % 128} /\ Appended(f, b)
  BY <1>1 DEF Good, Framed
<1> HIDE DEF T, e, m
<1>4. /\ c \in Buffers /\ Sum(c, e, 5) = 0
      /\ \A i \in 0 .. Size - 1 : i \notin e + 3 .. e + 4 + m => c[i] = b[i]
      /\ CheckData(c, e)
      /\ (IF m = 4 THEN c[e + 8] ELSE c[e + 5]) = v
  <2>1. b \in Buffers /\ e \in Nat /\ m \in {1, 4} /\ v \in 0 .. 255 /\ e + 5 + m <= Size /\ b[e + 2] = m
    BY <1>1, <1>2, <1>3
  <2>2. c = WithChecksums(WithData(b, e, m, v), e)
    BY DEF e, m
  <2>3. WithPolicy(c, b, e, m, v)
    BY <2>1, <2>2, PolicyWritten, Zenon
  <2> QED BY <1>2, <2>3 DEF WithPolicy
<1>5. ASSUME NEW i \in 0 .. Size - 1, i < e + 3 PROVE c[i] = b[i]
  <2>1. i \notin e + 3 .. e + 4 + m
    BY <1>1, <1>5
  <2> QED BY <1>4, <2>1
<1>6. \A i \in 0 .. 2 : c[e + i] = b[e + i]
  BY <1>1, <1>2, <1>5
<1>7. \A i \in T .. T + 4 : c[i] = b[i]
  <2>1. \A i \in T .. T + 4 : i \in 0 .. Size - 1 /\ i < e + 3
    BY <1>1, <1>2
  <2> QED BY <1>5, <2>1
<1>8. Sum(c, T, 5) = 0 /\ c[T + 1] = b[T + 1] /\ ~EndBit(c, T)
  <2>1. T + 5 <= Size /\ T + 1 \in T .. T + 4
    BY <1>1, <1>2
  <2>2. Sum(c, T, 5) = Sum(b, T, 5) /\ (EndBit(c, T) <=> EndBit(b, T))
    BY <1>1, <1>3, <1>7, <2>1, SameHeader
  <2> QED BY <1>3, <1>7, <2>1, <2>2 DEF T
<1>9. Appended(f, c)
  <2>1. c[e] = b[e] /\ c[e + 1] = b[e + 1] /\ c[e + 2] = b[e + 2] /\ b[e + 2] # 255
    BY <1>1, <1>2, <1>6
  <2> QED BY <1>2, <1>3, <2>1 DEF Appended, e
<1>10. Good(f, c)
  <2>1. \A i \in 0 .. Size - 1 : i < e => c[i] = b[i]
    BY <1>1, <1>5
  <2> QED BY <1>3, <1>4, <1>8, <1>9, <2>1, GoodPlain DEF T, e
<1>11. ParseHeader(c, e)
  BY <1>1, <1>2, <1>4 DEF ParseHeader
<1>12. PowerPolicy(c) = v
  BY <1>4, <1>8, <1>10, <1>11, PolicyBehind DEF T, e, m
<1> QED BY <1>2, <1>6, <1>10, <1>12 DEF e

\* A new record is linked to the last one of the image, right behind it or too far away to be found.
LEMMA PlainLinked ==
  ASSUME NEW f, Recorded(f), ~Policied(f), NEW b, Good(f, b), NEW v \in 0 .. 255, NEW q \in Nat, q + 9 < Size,
         q = End(f) \/ (q >= End(f) + 5 /\ ~ParseHeader(b, End(f)) /\ ~EndBit(b, Target(f)))
  PROVE  \A c : c = NewRecord(b, Target(f), q, v) => Rewritten(f, c, b, v)
<1> SUFFICES ASSUME NEW c, c = NewRecord(b, Target(f), q, v)
             PROVE  /\ Good(f, c) /\ (Ended(b) => PowerPolicy(c) = v) /\ End(f) + 9 < Size
                    /\ \A i \in 0 .. 2 : c[End(f) + i] = 255 => b[End(f) + i] = 255
  BY DEF Rewritten
<1> DEFINE T == Target(f)
           e == End(f)
<1>1. T \in Nat /\ e \in Nat /\ T + 5 <= e /\ LastOf(f) = T /\ Size \in Nat /\ e <= Size /\ Walk(f)[Len(Walk(f))] = T
  <2>1. \A x \in Nat : \A y \in 0 .. 255 : x + 5 <= x + 5 + y
    OBVIOUS
  <2> QED BY <2>1, PlainFacts
<1>2. b \in Buffers /\ b[T + 1] \in {f[T + 1], f[T + 1] % 128} /\ Appended(f, b) /\ f \in Buffers
  BY <1>1 DEF Good, Framed, Recorded
<1>3. (q = e \/ (q >= e + 5 /\ ~ParseHeader(b, e) /\ ~EndBit(b, T)))
  OBVIOUS
<1> HIDE DEF T, e
<1>4. /\ c \in Buffers /\ Sum(c, T, 5) = 0 /\ c[T + 1] = b[T + 1] % 128
      /\ \A i \in 0 .. Size - 1 : i < q /\ i # T + 1 /\ i # T + 4 => c[i] = b[i]
      /\ c[q] = PPOL /\ c[q + 1] = 130 /\ c[q + 2] = NewLength /\ ParseHeader(c, q) /\ CheckData(c, q)
      /\ (IF NewLength = 4 THEN c[q + 8] ELSE c[q + 5]) = v
  <2>1. b \in Buffers /\ T \in Nat /\ q \in Nat /\ T + 5 <= q /\ q + 9 < Size /\ v \in 0 .. 255
    BY <1>1, <1>2, <1>3
  <2>2. c = NewRecord(b, T, q, v)
    BY DEF T
  <2>3. NewLinked(c, b, T, q, v)
    BY <2>1, <2>2, Linked, Zenon
  <2> QED BY <2>3 DEF NewLinked
<1>5. c[T + 1] = f[T + 1] % 128 /\ ~EndBit(c, T)
  <2>1. f[T + 1] \in 0 .. 255
    <3>1. T + 1 \in 0 .. Size - 1
      BY <1>1
    <3> QED BY <1>2, <3>1, BufferByte
  <2>2. \A x \in 0 .. 255 : (x % 128) % 128 = x % 128 /\ ~(x % 128 >= 128)
    OBVIOUS
  <2>3. c[T + 1] = f[T + 1] % 128
    <3>1. c[T + 1] = b[T + 1] % 128 /\ b[T + 1] \in {f[T + 1], f[T + 1] % 128}
      BY <1>2, <1>4
    <3> QED BY <2>1, <2>2, <3>1, Zenon
  <2> QED BY <2>1, <2>2, <2>3 DEF EndBit
<1>6. \A i \in 0 .. Size - 1 : i < e /\ i # T + 1 /\ i # T + 4 => c[i] = b[i]
  BY <1>1, <1>3, <1>4
<1>7. e + 9 < Size
  BY <1>1, <1>3
<1>8. CASE q = e
  <2>1. c[e] = PPOL /\ c[e + 1] = 130 /\ c[e + 2] = NewLength /\ NewLength \in {1, 4}
    BY <1>4, <1>8 DEF NewLength
  <2>2. Appended(f, c)
    BY <1>7, <2>1 DEF Appended, e, PPOL
  <2>3. Good(f, c)
    BY <1>4, <1>5, <1>6, <2>2, GoodPlain DEF T, e
  <2>4. PowerPolicy(c) = v
    BY <1>4, <1>5, <1>8, <2>3, PolicyBehind DEF T, e
  <2>5. ASSUME NEW i \in 0 .. 2 PROVE c[e + i] # 255
    <3>1. i = 0 \/ i = 1 \/ i = 2
      OBVIOUS
    <3> QED BY <1>1, <2>1, <3>1 DEF PPOL
  <2> QED BY <1>7, <2>3, <2>4, <2>5 DEF T, e
<1>9. CASE q >= e + 5 /\ ~ParseHeader(b, e) /\ ~EndBit(b, T)
  <2>1. ASSUME NEW i \in e .. e + 4 PROVE c[i] = b[i]
    <3>1. i \in 0 .. Size - 1 /\ i < q /\ i # T + 1 /\ i # T + 4
      BY <1>1, <1>7, <1>9
    <3> QED BY <1>4, <3>1
  <2>2. c[e] = b[e] /\ c[e + 1] = b[e + 1] /\ c[e + 2] = b[e + 2] /\ c[e + 3] = b[e + 3] /\ c[e + 4] = b[e + 4]
    BY <1>1, <2>1
  <2>3. Appended(f, c)
    BY <1>2, <1>7, <2>2 DEF Appended, e
  <2>4. Good(f, c)
    BY <1>4, <1>5, <1>6, <2>3, GoodPlain DEF T, e
  <2>6. ~Ended(b)
    <3>1. Walk(b) = Walk(f)
      BY <1>9, WalkGood DEF e
    <3> QED BY <1>1, <1>9, <3>1 DEF Ended
  <2>7. ASSUME NEW i \in 0 .. 2 PROVE c[e + i] = b[e + i]
    <3>1. e + i \in {e, e + 1, e + 2}
      BY <1>1
    <3> QED BY <2>2, <3>1, Zenon
  <2> QED BY <1>7, <2>4, <2>6, <2>7 DEF T, e
<1> QED BY <1>3, <1>8, <1>9

\* A rewrite of a good copy without a policy of the factory fails and changes nothing, or leaves a good one.
LEMMA RewritePlain ==
  ASSUME NEW f, Recorded(f), ~Policied(f), NEW b, Good(f, b), NEW v \in 0 .. 255, NEW r, r = SetMultirecord(b, v)
  PROVE  \/ ~r.ok /\ r.buf = b
         \/ r.ok /\ Rewritten(f, r.buf, b, v)
<1> DEFINE K == Walk(f)
           n == Len(K)
           T == Target(f)
           e == End(f)
           l == Length(f, T)
<1>1. /\ K # <<>> /\ K \in Seq(Nat) /\ n \in Nat /\ n > 0 /\ K[n] = T /\ LastOf(f) = T /\ T \in Nat /\ l \in 0 .. 255
      /\ e = T + 5 + l /\ e \in Nat /\ Size \in Nat /\ Length(b, T) = l /\ Next1(b, T) = e /\ \A i \in 1 .. n : b[K[i]] # PPOL
  BY PlainFacts DEF Good
<1> HIDE DEF K, T, e, l
<1>2. CASE ~EndBit(b, T) /\ ParseHeader(b, e)
  <2> DEFINE s == Append(K, e)
  <2>1. Walk(b) = s /\ Rewritable(b, e) /\ Length(b, e) = NewLength
    BY <1>1, <1>2, WalkGood DEF K, T, e
  <2>2. s \in Seq(Nat) /\ Len(s) = n + 1 /\ s[n + 1] = e /\ s # <<>> /\ \A i \in 1 .. n : s[i] = K[i]
    BY <1>1
  <2>3. FirstOf(s, LAMBDA x : Rewritable(b, x)) = e
    <3> HIDE DEF s
    <3>1. n + 1 \in 1 .. Len(s) /\ \A j \in 1 .. (n + 1) - 1 : j \in 1 .. n
      BY <1>1, <2>2
    <3>2. \A j \in 1 .. (n + 1) - 1 : ~Rewritable(b, s[j])
      BY <1>1, <2>2, <3>1 DEF Rewritable
    <3> QED BY <2>1, <2>2, <3>1, <3>2, FirstRewritable
  <2>4. e # NotFound
    BY <1>1 DEF NotFound
  <2> DEFINE c == WithChecksums(WithData(b, e, NewLength, v), e)
  <2>5. r = [ok |-> TRUE, buf |-> c]
    <3> HIDE DEF s
    <3> QED BY <2>1, <2>2, <2>3, <2>4 DEF SetMultirecord
  <2>6. r.ok /\ r.buf = c
    BY <2>5
  <2> HIDE DEF c
  <2>7. c = WithChecksums(WithData(b, e, NewLength, v), e)
    BY DEF c
  <2>8. Good(f, c) /\ PowerPolicy(c) = v /\ e + 9 < Size /\ \A i \in 0 .. 2 : c[e + i] = b[e + i]
    <3>1. \A x : x = WithChecksums(WithData(b, e, NewLength, v), e) =>
               Good(f, x) /\ PowerPolicy(x) = v /\ e + 9 < Size /\ \A i \in 0 .. 2 : x[e + i] = b[e + i]
      BY <1>2, PlainOverwritten, Zenon DEF T, e
    <3> QED BY <2>7, <3>1, Zenon
  <2>9. Rewritten(f, c, b, v)
    BY <2>8 DEF Rewritten, e
  <2> QED BY <2>6, <2>9
<1>3. CASE EndBit(b, T) \/ ~ParseHeader(b, e)
  <2>1. Walk(b) = K
    BY <1>1, <1>3, WalkGood DEF K, T, e
  <2>2. \A i \in 1 .. Len(Walk(b)) : ~Rewritable(b, Walk(b)[i])
    BY <1>1, <2>1 DEF Rewritable
  <2> DEFINE at == IF EndBit(b, T) THEN T ELSE e
             q == at + 5 + l
  <2>3. SetMultirecord(b, v) = IF ~Fits(at, l) THEN [ok |-> FALSE, buf |-> b] ELSE [ok |-> TRUE, buf |-> NewRecord(b, T, q, v)]
    <3>1. Walk(b) \in Seq(Nat) /\ Walk(b) # <<>> /\ Walk(b)[Len(Walk(b))] = T
      BY <1>1, <2>1
    <3> QED BY <1>1, <2>2, <3>1, SetNew
  <2>4. CASE ~Fits(at, l)
    BY <2>3, <2>4
  <2>5. CASE Fits(at, l)
    <3>1. at \in Nat /\ q \in Nat /\ q + 9 < Size
      <4>1. at \in Nat
        BY <1>1
      <4> HIDE DEF at
      <4> QED BY <1>1, <2>5, <4>1 DEF Fits
    <3>2. q = e \/ (q >= e + 5 /\ ~ParseHeader(b, e) /\ ~EndBit(b, T))
      <4>1. CASE EndBit(b, T)
        BY <1>1, <4>1
      <4>2. CASE ~EndBit(b, T)
        <5>1. q = e + 5 + l /\ ~ParseHeader(b, e)
          BY <1>3, <4>2
        <5> HIDE DEF q
        <5> QED BY <1>1, <4>2, <5>1
      <4> QED BY <4>1, <4>2
    <3> DEFINE c == NewRecord(b, T, q, v)
    <3>3. r.ok /\ r.buf = c
      <4> HIDE DEF c, q, at
      <4>1. SetMultirecord(b, v) = [ok |-> TRUE, buf |-> c]
        BY <2>3, <2>5 DEF c
      <4> QED BY <4>1
    <3> HIDE DEF q
    <3>4. Rewritten(f, c, b, v)
      <4>1. q \in Nat /\ q + 9 < Size /\ (q = End(f) \/ (q >= End(f) + 5 /\ ~ParseHeader(b, End(f)) /\ ~EndBit(b, Target(f))))
        BY <3>1, <3>2 DEF e, T
      <4>2. c = NewRecord(b, Target(f), q, v)
        BY DEF T
      <4> HIDE DEF c, at
      <4> QED BY <4>1, <4>2, PlainLinked, Zenon
    <3> HIDE DEF c
    <3> QED BY <3>3, <3>4
  <2> QED BY <2>4, <2>5
<1> QED BY <1>2, <1>3

----------------------------------------------------------------------------
(* An image whose rewrite was cut inside the header. *)

LEMMA Before ==
  ASSUME NEW f, Recorded(f), NEW i \in 1 .. Len(Walk(f)), Walk(f)[i] < Target(f)
  PROVE  Walk(f)[i] \in Nat /\ Target(f) \in Nat /\ Walk(f)[i] + 5 <= Target(f)
<1> DEFINE K == Walk(f)
<1>1. PICK t \in 1 .. Len(K) : Target(f) = K[t]
  BY TargetFacts
<1>2. Len(K) \in Nat /\ K[i] \in Nat /\ K[t] \in Nat /\ f \in Buffers /\ Chained(f, K)
  BY <1>1, ImageFacts DEF Recorded
<1> HIDE DEF K
<1>3. CASE i < t
  <2>1. K[t] >= K[i] + 5
    BY <1>2, <1>3, ChainOrdered DEF K
  <2> QED BY <1>1, <1>2, <2>1 DEF K
<1>4. CASE i = t
  BY <1>1, <1>2, <1>4 DEF K
<1>5. CASE t < i
  <2>1. K[i] >= K[t] + 5
    BY <1>2, <1>5, ChainOrdered DEF K
  <2> DEFINE x == K[i]
             y == K[t]
  <2>2. x \in Nat /\ y \in Nat /\ x >= y + 5 /\ x < y
    BY <1>1, <1>2, <2>1 DEF K
  <2> HIDE DEF x, y
  <2>3. FALSE
    BY <2>2
  <2> QED BY <2>3
<1> QED BY <1>2, <1>3, <1>4, <1>5

\* Two headers that add up and agree in four bytes agree in the fifth.
LEMMA SamePin ==
  ASSUME NEW b, NEW c, NEW p \in Int, \A i \in p .. p + 4 : b[i] \in 0 .. 255 /\ c[i] \in 0 .. 255,
         \A i \in p .. p + 3 : c[i] = b[i], Sum(b, p, 5) = 0, Sum(c, p, 5) = 0
  PROVE  c[p + 4] = b[p + 4]
<1>1. /\ Sum(b, p, 5) = (b[p] + b[p + 1] + b[p + 2] + b[p + 3] + b[p + 4]) % 256
      /\ Sum(c, p, 5) = (c[p] + c[p + 1] + c[p + 2] + c[p + 3] + c[p + 4]) % 256
  BY SumOfHeader
<1>2. c[p] = b[p] /\ c[p + 1] = b[p + 1] /\ c[p + 2] = b[p + 2] /\ c[p + 3] = b[p + 3]
  OBVIOUS
<1> DEFINE s == b[p] + b[p + 1] + b[p + 2] + b[p + 3]
           x == b[p + 4]
           y == c[p + 4]
<1>3. s \in Int /\ x \in 0 .. 255 /\ y \in 0 .. 255 /\ (s + x) % 256 = 0 /\ (s + y) % 256 = 0
  <2>1. b[p] \in 0 .. 255 /\ b[p + 1] \in 0 .. 255 /\ b[p + 2] \in 0 .. 255 /\ b[p + 3] \in 0 .. 255 /\ x \in 0 .. 255 /\ y \in 0 .. 255
    OBVIOUS
  <2>2. s \in Int
    <3> DEFINE b1 == b[p]
               b2 == b[p + 1]
               b3 == b[p + 2]
               b4 == b[p + 3]
    <3>1. b1 \in 0 .. 255 /\ b2 \in 0 .. 255 /\ b3 \in 0 .. 255 /\ b4 \in 0 .. 255 /\ s = b1 + b2 + b3 + b4
      BY <2>1
    <3> HIDE DEF b1, b2, b3, b4, s
    <3> QED BY <3>1
  <2>3. (s + x) % 256 = 0 /\ (s + y) % 256 = 0
    BY <1>1, <1>2
  <2> QED BY <2>1, <2>2, <2>3
<1> HIDE DEF s, x, y
<1>4. x = y
  <2>1. PICK u \in 0 .. 255 : u = s % 256
    BY <1>3, ModAdd, Zenon
  <2>2. (u + x) % 256 = 0 /\ (u + y) % 256 = 0
    <3>1. x \in Int /\ y \in Int
      BY <1>3
    <3>2. ((s % 256) + x) % 256 = (s + x) % 256 /\ ((s % 256) + y) % 256 = (s + y) % 256
      BY <1>3, <3>1, ModAdd
    <3> QED BY <1>3, <2>1, <3>2
  <2>3. ASSUME NEW m \in 0 .. 255, (u + m) % 256 = 0 PROVE u + m = 0 \/ u + m = 256
    <3> DEFINE z == u + m
    <3>1. z \in 0 .. 255 \/ z \in 256 .. 510
      OBVIOUS
    <3>2. z % 256 = 0
      BY <2>3
    <3> HIDE DEF z
    <3>3. CASE z \in 0 .. 255
      <4>1. z % 256 = z
        BY <3>3
      <4> QED BY <3>2, <4>1 DEF z
    <3>4. CASE z \in 256 .. 510
      <4>1. z % 256 = z - 256
        BY <3>4
      <4>2. z = 256
        BY <3>2, <3>4, <4>1
      <4> QED BY <4>2 DEF z
    <3> QED BY <3>1, <3>3, <3>4
  <2>4. (u + x = 0 \/ u + x = 256) /\ (u + y = 0 \/ u + y = 256)
    BY <1>3, <2>2, <2>3
  <2> QED BY <1>3, <2>1, <2>4
<1> QED BY <1>4 DEF x, y

BrokenRewritten(f, r, b) ==
  \/ ~r.ok /\ r.buf = b
  \/ r.ok /\ Broken(f, r.buf) /\ \A i \in Target(f) .. Target(f) + 4 : r.buf[i] = b[i]

\* A rewrite of a broken copy changes nothing up to the broken header.
LEMMA RewriteBroken ==
  ASSUME NEW f, Recorded(f), NEW b, Broken(f, b), NEW v \in 0 .. 255
  PROVE  \A r : r = SetMultirecord(b, v) => BrokenRewritten(f, r, b)
<1> SUFFICES ASSUME NEW r, r = SetMultirecord(b, v)
             PROVE  \/ ~r.ok /\ r.buf = b
                    \/ r.ok /\ Broken(f, r.buf) /\ \A i \in Target(f) .. Target(f) + 4 : r.buf[i] = b[i]
  BY DEF BrokenRewritten
<1> DEFINE s == Walk(b)
           T == Target(f)
<1>1. CASE s = <<>>
  BY <1>1 DEF SetMultirecord
<1>2. CASE s # <<>>
  <2> DEFINE p == s[Len(s)]
             l == Length(b, p)
             q == T + 5 + l
  <2>1. /\ s \in Seq(Nat) /\ Next1(b, p) = T
        /\ \A i \in 1 .. Len(s) : s[i] \in Nat /\ s[i] + 5 <= T /\ ParseHeader(b, s[i]) /\ b[s[i]] # PPOL /\ ~EndBit(b, s[i])
    BY <1>2, WalkBroken
  <2>2. Len(s) \in 1 .. Len(s)
    BY <1>2, <2>1
  <2>3. p \in Nat /\ p + 5 <= T /\ ParseHeader(b, p) /\ ~EndBit(b, p)
    BY <2>1, <2>2
  <2>4. b \in Buffers /\ Size \in Nat /\ T \in Nat
    <3>1. T \in Nat
      BY TargetFacts, ImageFacts
    <3> QED BY <3>1, FruAssumption DEF Broken, FruAssumption
  <2>5. l \in 0 .. 255 /\ p + 5 <= Size /\ Sum(b, p, 5) = 0
    BY <2>3, <2>4, HeaderInside DEF ParseHeader
  <2>6. SetMultirecord(b, v) = IF ~Fits(T, l) THEN [ok |-> FALSE, buf |-> b] ELSE [ok |-> TRUE, buf |-> NewRecord(b, p, q, v)]
    <3>1. \A i \in 1 .. Len(s) : ~Rewritable(b, s[i])
      BY <2>1 DEF Rewritable
    <3> QED BY <1>2, <2>1, <2>3, <3>1, SetNew
  <2>7. CASE ~Fits(T, l)
    BY <2>6, <2>7
  <2>8. CASE Fits(T, l)
    <3> DEFINE c == NewRecord(b, p, q, v)
    <3>1. r.ok /\ r.buf = c
      <4> HIDE DEF c, p, l, q, T
      <4>1. SetMultirecord(b, v) = [ok |-> TRUE, buf |-> c]
        BY <2>6, <2>8 DEF c
      <4> QED BY <4>1
    <3> HIDE DEF s, p, l, T
    <3>2. q \in Nat /\ p + 5 <= q /\ T + 5 <= q /\ q + 9 < Size
      BY <2>3, <2>4, <2>5, <2>8 DEF Fits
    <3>3. NewLinked(c, b, p, q, v)
      <4> HIDE DEF q
      <4> QED BY <2>3, <2>4, <3>2, Linked, Zenon DEF c
    <3> HIDE DEF c, q
    <3>4. /\ c \in Buffers /\ Sum(c, p, 5) = 0 /\ c[p + 1] = b[p + 1] % 128
          /\ \A i \in 0 .. Size - 1 : i < q /\ i # p + 1 /\ i # p + 4 => c[i] = b[i]
      BY <3>3 DEF NewLinked
    <3>5. c[p + 1] = b[p + 1]
      <4>1. b[p + 1] \in 0 .. 255
        <5>1. p + 1 \in 0 .. Size - 1
          BY <2>3, <2>4, <2>5
        <5> QED BY <2>4, <5>1, BufferByte
      <4>2. \A x \in 0 .. 255 : ~(x >= 128) => x % 128 = x
        OBVIOUS
      <4> QED BY <2>3, <3>4, <4>1, <4>2, Zenon DEF EndBit
    <3>6. c[p + 4] = b[p + 4]
      <4>1. \A i \in p .. p + 4 : b[i] \in 0 .. 255 /\ c[i] \in 0 .. 255
        BY <2>3, <2>4, <2>5, <3>4, HeaderBytes
      <4>2. ASSUME NEW i \in p .. p + 3 PROVE c[i] = b[i]
        <5>1. i \in 0 .. Size - 1 /\ i < q /\ i # p + 4
          BY <2>3, <2>4, <2>5, <3>2
        <5>2. CASE i = p + 1
          BY <3>5, <5>2
        <5>3. CASE i # p + 1
          BY <3>4, <5>1, <5>3
        <5> QED BY <5>2, <5>3
      <4>3. p \in Int
        BY <2>3
      <4> QED BY <2>5, <3>4, <4>1, <4>2, <4>3, SamePin
    <3>7. ASSUME NEW i \in 0 .. Size - 1, i < q PROVE c[i] = b[i]
      BY <3>4, <3>5, <3>6, <3>7
    <3>8. \A i \in 0 .. 7 : c[i] = f[i]
      <4>1. \A i \in 0 .. 7 : i \in 0 .. Size - 1 /\ i < q
        <5>1. T >= 8
          BY TargetFacts, ImageFacts DEF T
        <5>2. Size >= 8
          BY FruAssumption DEF FruAssumption
        <5> QED BY <2>4, <3>2, <5>1, <5>2
      <4> QED BY <3>7, <4>1 DEF Broken
    <3>9. ASSUME NEW i \in 1 .. Len(Walk(f)), Walk(f)[i] < Target(f), NEW j \in Walk(f)[i] .. Walk(f)[i] + 4 PROVE c[j] = f[j]
      <4>1. Walk(f)[i] \in Nat /\ Walk(f)[i] + 5 <= T
        BY <3>9, Before DEF T
      <4>2. b[j] = f[j]
        BY <3>9 DEF Broken
      <4> DEFINE k == Walk(f)[i]
      <4>3. k \in Nat /\ k + 5 <= T /\ j \in k .. k + 4
        BY <4>1
      <4> HIDE DEF k
      <4>4. j \in 0 .. Size - 1 /\ j < q
        BY <2>4, <3>2, <4>3
      <4> QED BY <3>7, <4>2, <4>4
    <3>10. \A i \in T .. T + 4 : c[i] = b[i]
      <4>1. \A i \in T .. T + 4 : i \in 0 .. Size - 1 /\ i < q
        BY <2>4, <3>2
      <4> QED BY <3>7, <4>1
    <3>11. Sum(c, T, 5) # 0
      <4>1. T + 5 <= Size
        BY <2>4, <3>2
      <4>2. Sum(c, T, 5) = Sum(b, T, 5)
        BY <2>4, <3>10, <4>1, SameHeader
      <4> QED BY <4>2 DEF Broken, T
    <3>12. Broken(f, c)
      BY <3>4, <3>8, <3>9, <3>11 DEF Broken, T
    <3> QED BY <3>1, <3>10, <3>12 DEF T
  <2> QED BY <2>7, <2>8
<1> QED BY <1>1, <1>2

----------------------------------------------------------------------------
(* The copy and the EEPROM, and the pages that are moved from one to the other. *)

\* What is written behind the chain is written in the copy first.
Ahead(f, c, b) == ~Policied(f) /\ End(f) + 9 < Size => \A i \in 0 .. 2 : c[End(f) + i] = 255 => b[End(f) + i] = 255
Kept(f, c, b) ==
  \/ Framed(f, c) /\ Framed(f, b) /\ Ahead(f, c, b) /\ (Good(f, c) \/ b = c)
  \/ Broken(f, c) /\ Broken(f, b) /\ \A i \in Target(f) .. Target(f) + 4 : c[i] = b[i]

\* The copy is read from the EEPROM.
LEMMA Reread == ASSUME NEW f, NEW c, NEW b, Kept(f, c, b) PROVE Kept(f, b, b)
BY DEF Kept, Ahead

\* A copy that is framed and not good is broken.
LEMMA FramedBroken ==
  ASSUME NEW f, Recorded(f), NEW b, Framed(f, b), ~Good(f, b)
  PROVE  Broken(f, b)
<1>1. b \in Buffers /\ Sum(b, Target(f), 5) # 0
  BY DEF Framed, Good
<1>2. \A i \in 0 .. 7 : b[i] = f[i]
  <2>1. \A i \in 0 .. 7 : i \in 0 .. Size - 1 /\ i < 8
    BY FruAssumption DEF FruAssumption
  <2> QED BY <2>1, Frame
<1>3. ASSUME NEW i \in 1 .. Len(Walk(f)), Walk(f)[i] < Target(f), NEW j \in Walk(f)[i] .. Walk(f)[i] + 4 PROVE b[j] = f[j]
  <2> DEFINE k == Walk(f)[i]
             l == Length(f, k)
             T == Target(f)
  <2>1. k \in Nat /\ l \in 0 .. 255 /\ T \in Nat /\ k + 5 <= T
    BY <1>3, ImageFacts, Before
  <2>2. k # T /\ k < T
    <3> HIDE DEF k, T
    <3>1. k < T
      BY <1>3 DEF k, T
    <3> QED BY <2>1, <3>1
  <2>3. \A x \in k .. k + 4 + l : b[x] = f[x]
    BY <2>2, Frame
  <2> HIDE DEF k, l, T
  <2>4. j \in k .. k + 4
    BY DEF k
  <2> QED BY <2>1, <2>3, <2>4
<1> QED BY <1>1, <1>2, <1>3 DEF Broken

\* SetBoardPowerPolicy keeps the relation between copy and EEPROM, and the policy is found if the chain had its end.
LEMMA RewriteKept ==
  ASSUME NEW f, Recorded(f), NEW c, NEW b, Kept(f, c, b), NEW v \in 0 .. 255, NEW r, r = SetMultirecord(c, v)
  PROVE  \/ ~r.ok /\ r.buf = c
         \/ /\ r.ok /\ Kept(f, r.buf, b) /\ (Ended(c) => PowerPolicy(r.buf) = v)
            /\ Good(f, c) => Good(f, r.buf)
<1>1. CASE Good(f, c) /\ Policied(f) /\ Framed(f, b) /\ Ahead(f, c, b)
  <2>1. r.ok /\ Good(f, r.buf) /\ PowerPolicy(r.buf) = v
    BY <1>1, RewritePolicied
  <2> QED BY <1>1, <2>1 DEF Kept, Ahead, Good
<1>2. CASE Good(f, c) /\ ~Policied(f) /\ Framed(f, b) /\ Ahead(f, c, b)
  <2>1. (~r.ok /\ r.buf = c) \/ (r.ok /\ Rewritten(f, r.buf, c, v))
    BY <1>2, RewritePlain
  <2>2. ASSUME Rewritten(f, r.buf, c, v)
        PROVE  Kept(f, r.buf, b) /\ (Ended(c) => PowerPolicy(r.buf) = v) /\ Good(f, r.buf)
    <3>1. /\ Good(f, r.buf) /\ (Ended(c) => PowerPolicy(r.buf) = v) /\ End(f) + 9 < Size
          /\ \A i \in 0 .. 2 : r.buf[End(f) + i] = 255 => c[End(f) + i] = 255
      BY <2>2 DEF Rewritten
    <3>2. Ahead(f, r.buf, b)
      BY <1>2, <3>1 DEF Ahead
    <3> QED BY <1>2, <3>1, <3>2 DEF Kept, Good
  <2> QED BY <2>1, <2>2
<1>3. CASE Broken(f, c) /\ Broken(f, b) /\ \A i \in Target(f) .. Target(f) + 4 : c[i] = b[i]
  <2>1. ~Good(f, c)
    BY <1>3 DEF Broken, Good
  <2>2. \/ ~r.ok /\ r.buf = c
        \/ r.ok /\ Broken(f, r.buf) /\ \A i \in Target(f) .. Target(f) + 4 : r.buf[i] = c[i]
    <3>1. BrokenRewritten(f, r, c)
      BY <1>3, RewriteBroken, Zenon
    <3> QED BY <3>1 DEF BrokenRewritten
  <2>3. ASSUME Broken(f, r.buf), \A i \in Target(f) .. Target(f) + 4 : r.buf[i] = c[i]
        PROVE  Kept(f, r.buf, b) /\ ~Ended(c)
    <3>1. ~Ended(c)
      BY <1>3, WalkBroken
    <3> QED BY <1>3, <2>3, <3>1 DEF Kept
  <2> QED BY <2>1, <2>2, <2>3
<1>4. CASE Framed(f, c) /\ b = c /\ ~Good(f, c)
  <2>1. Broken(f, c)
    BY <1>4, FramedBroken
  <2> QED BY <1>3, <1>4, <2>1
<1> QED BY <1>1, <1>2, <1>3, <1>4 DEF Kept, Good

\* m has the bytes of c in front of the cut and those of b behind it.
Mixed(m, c, b, cut) == m \in Buffers /\ \A i \in 0 .. Size - 1 : m[i] = IF i < cut THEN c[i] ELSE b[i]

\* Behind the chain, pages of the copy in front of pages of the EEPROM are a state of the appended record.
LEMMA MixedAppended ==
  ASSUME NEW f, Recorded(f), ~Policied(f), NEW c, NEW b, NEW m, NEW cut \in Nat, Mixed(m, c, b, cut),
         Appended(f, c), Appended(f, b), Ahead(f, c, b)
  PROVE  Appended(f, m) /\ Ahead(f, c, m)
<1> DEFINE e == End(f)
<1>1. e \in Nat /\ Size \in Nat
  BY PlainFacts
<1>2. CASE e + 9 < Size
  <2> HIDE DEF e
  <2>1. e \in 0 .. Size - 1 /\ e + 1 \in 0 .. Size - 1 /\ e + 2 \in 0 .. Size - 1 /\ e + 3 \in 0 .. Size - 1 /\ e + 4 \in 0 .. Size - 1
    BY <1>1, <1>2
  <2>2. /\ m[e] = (IF e < cut THEN c[e] ELSE b[e]) /\ m[e + 1] = (IF e + 1 < cut THEN c[e + 1] ELSE b[e + 1])
        /\ m[e + 2] = (IF e + 2 < cut THEN c[e + 2] ELSE b[e + 2]) /\ m[e + 3] = (IF e + 3 < cut THEN c[e + 3] ELSE b[e + 3])
        /\ m[e + 4] = (IF e + 4 < cut THEN c[e + 4] ELSE b[e + 4])
    BY <2>1 DEF Mixed
  <2>3. (c[e] = 255 => b[e] = 255) /\ (c[e + 1] = 255 => b[e + 1] = 255) /\ (c[e + 2] = 255 => b[e + 2] = 255)
    <3>1. \A i \in 0 .. 2 : c[e + i] = 255 => b[e + i] = 255
      BY <1>2 DEF Ahead, e
    <3> QED BY <1>1, <3>1
  <2>4. /\ c[e] \in {PPOL, 255} /\ c[e + 1] \in {130, 255} /\ c[e + 2] \in {NewLength, 255}
        /\ c[e] = 255 => c[e + 1] = 255
        /\ c[e + 1] = 255 => c[e + 2] = 255
        /\ c[e + 2] = 255 => c[e + 3] = 255 /\ c[e + 4] = 255
        /\ b[e] \in {PPOL, 255} /\ b[e + 1] \in {130, 255} /\ b[e + 2] \in {NewLength, 255}
        /\ b[e] = 255 => b[e + 1] = 255
        /\ b[e + 1] = 255 => b[e + 2] = 255
        /\ b[e + 2] = 255 => b[e + 3] = 255 /\ b[e + 4] = 255
    BY <1>2 DEF Appended, e
  <2>5. /\ m[e] \in {PPOL, 255} /\ m[e + 1] \in {130, 255} /\ m[e + 2] \in {NewLength, 255}
        /\ m[e] = 255 => m[e + 1] = 255
        /\ m[e + 1] = 255 => m[e + 2] = 255
        /\ m[e + 2] = 255 => m[e + 3] = 255 /\ m[e + 4] = 255
    <3> HIDE <1>2
    <3> USE <1>1
    <3>1. CASE cut <= e
      <4>1. m[e] = b[e] /\ m[e + 1] = b[e + 1] /\ m[e + 2] = b[e + 2] /\ m[e + 3] = b[e + 3] /\ m[e + 4] = b[e + 4]
        BY <2>2, <3>1
      <4> QED BY <2>4, <4>1
    <3>2. CASE cut = e + 1
      <4>1. m[e] = c[e] /\ m[e + 1] = b[e + 1] /\ m[e + 2] = b[e + 2] /\ m[e + 3] = b[e + 3] /\ m[e + 4] = b[e + 4]
        BY <2>2, <3>2
      <4> QED BY <2>3, <2>4, <4>1
    <3>3. CASE cut = e + 2
      <4>1. m[e] = c[e] /\ m[e + 1] = c[e + 1] /\ m[e + 2] = b[e + 2] /\ m[e + 3] = b[e + 3] /\ m[e + 4] = b[e + 4]
        BY <2>2, <3>3
      <4> QED BY <2>3, <2>4, <4>1
    <3>4. CASE cut = e + 3
      <4>1. m[e] = c[e] /\ m[e + 1] = c[e + 1] /\ m[e + 2] = c[e + 2] /\ m[e + 3] = b[e + 3] /\ m[e + 4] = b[e + 4]
        BY <2>2, <3>4
      <4> QED BY <2>3, <2>4, <4>1
    <3>5. CASE cut = e + 4
      <4>1. m[e] = c[e] /\ m[e + 1] = c[e + 1] /\ m[e + 2] = c[e + 2] /\ m[e + 3] = c[e + 3] /\ m[e + 4] = b[e + 4]
        BY <2>2, <3>5
      <4> QED BY <2>3, <2>4, <4>1
    <3>6. CASE cut >= e + 5
      <4>1. m[e] = c[e] /\ m[e + 1] = c[e + 1] /\ m[e + 2] = c[e + 2] /\ m[e + 3] = c[e + 3] /\ m[e + 4] = c[e + 4]
        BY <2>2, <3>6
      <4> QED BY <2>4, <4>1
    <3>7. cut <= e \/ cut = e + 1 \/ cut = e + 2 \/ cut = e + 3 \/ cut = e + 4 \/ cut >= e + 5
      OBVIOUS
    <3> QED BY <3>1, <3>2, <3>3, <3>4, <3>5, <3>6, <3>7
  <2>6. Appended(f, m)
    BY <1>2, <2>5 DEF Appended, e
  <2>7. ASSUME NEW i \in 0 .. 2, c[e + i] = 255 PROVE m[e + i] = 255
    <3>1. i = 0 \/ i = 1 \/ i = 2
      OBVIOUS
    <3>2. (c[e] = 255 => m[e] = 255) /\ (c[e + 1] = 255 => m[e + 1] = 255) /\ (c[e + 2] = 255 => m[e + 2] = 255)
      BY <2>2, <2>3
    <3> QED BY <1>1, <2>7, <3>1, <3>2
  <2> QED BY <2>6, <2>7 DEF Ahead, e
<1>3. CASE ~(e + 9 < Size)
  <2>1. \A i \in e .. Size - 1 : c[i] = 255 /\ b[i] = 255
    BY <1>3 DEF Appended
  <2>2. \A i \in e .. Size - 1 : m[i] = 255
    BY <1>1, <2>1 DEF Mixed
  <2> QED BY <1>3, <2>2 DEF Appended, Ahead
<1> QED BY <1>2, <1>3

\* Pages of the copy in front of pages of the EEPROM keep the relation between the two.
LEMMA MixedKept ==
  ASSUME NEW f, Recorded(f), NEW c, NEW b, Kept(f, c, b), NEW m, NEW cut \in Nat, Mixed(m, c, b, cut)
  PROVE  Kept(f, c, m)
<1>1. CASE Framed(f, c) /\ Framed(f, b) /\ Ahead(f, c, b) /\ (Good(f, c) \/ b = c)
  <2>1. \A i \in 0 .. Size - 1 : i \notin Touched(f) => m[i] = f[i]
    BY <1>1 DEF Framed, Mixed
  <2>2. ASSUME ~Policied(f) PROVE m[LastOf(f) + 1] \in {f[LastOf(f) + 1], f[LastOf(f) + 1] % 128}
    <3> DEFINE T == LastOf(f)
    <3>1. T \in Nat /\ T + 5 <= Size /\ Size \in Nat
      <4>1. T \in Nat /\ Length(f, T) \in 0 .. 255 /\ T + 5 + Length(f, T) <= Size /\ Size \in Nat
        BY <2>2, PlainFacts
      <4> DEFINE l == Length(f, T)
      <4> HIDE DEF T, l
      <4>2. T \in Nat /\ l \in 0 .. 255 /\ T + 5 + l <= Size /\ Size \in Nat
        BY <4>1 DEF l
      <4> QED BY <4>2
    <3>2. c[T + 1] \in {f[T + 1], f[T + 1] % 128} /\ b[T + 1] \in {f[T + 1], f[T + 1] % 128}
      BY <1>1, <2>2 DEF Framed
    <3>3. T + 1 \in 0 .. Size - 1
      BY <3>1
    <3>4. m[T + 1] = c[T + 1] \/ m[T + 1] = b[T + 1]
      BY <3>3 DEF Mixed
    <3> QED BY <3>2, <3>4
  <2>3. ASSUME ~Policied(f) PROVE Appended(f, m) /\ Ahead(f, c, m)
    BY <1>1, <2>3, MixedAppended DEF Framed
  <2>4. Framed(f, m) /\ Ahead(f, c, m)
    BY <2>1, <2>2, <2>3 DEF Framed, Mixed, Ahead
  <2>5. b = c => m = c
    <3> SUFFICES ASSUME b = c PROVE m = c
      OBVIOUS
    <3>1. \A i \in 0 .. Size - 1 : m[i] = c[i]
      BY DEF Mixed
    <3>2. m \in [0 .. Size - 1 -> 0 .. 255] /\ c \in [0 .. Size - 1 -> 0 .. 255]
      BY <1>1 DEF Framed, Buffers, Mixed
    <3>3. m = [i \in 0 .. Size - 1 |-> m[i]] /\ c = [i \in 0 .. Size - 1 |-> c[i]]
      BY <3>2
    <3>4. [i \in 0 .. Size - 1 |-> m[i]] = [i \in 0 .. Size - 1 |-> c[i]]
      BY <3>1, Zenon
    <3> QED BY <3>3, <3>4
  <2> QED BY <1>1, <2>4, <2>5 DEF Kept
<1>2. CASE Broken(f, c) /\ Broken(f, b) /\ \A i \in Target(f) .. Target(f) + 4 : c[i] = b[i]
  <2> DEFINE T == Target(f)
  <2>1. m \in Buffers /\ Size \in Nat /\ Size >= 8 /\ T \in Nat /\ T + 5 <= Size
    <3>1. T \in Nat /\ Length(f, T) \in 0 .. 255 /\ T + 5 + Length(f, T) <= End(f) /\ End(f) \in Nat /\ End(f) <= Size
      BY TargetFacts, ImageFacts
    <3> DEFINE l == Length(f, T)
               e == End(f)
    <3>2. T \in Nat /\ l \in 0 .. 255 /\ T + 5 + l <= e /\ e \in Nat /\ e <= Size
      BY <3>1
    <3> HIDE DEF l, e, T
    <3>3. T + 5 <= Size
      BY <3>2, FruAssumption DEF FruAssumption
    <3> QED BY <3>2, <3>3, FruAssumption DEF FruAssumption, Mixed
  <2>2. \A i \in 0 .. 7 : m[i] = f[i]
    BY <1>2, <2>1 DEF Mixed, Broken
  <2>3. ASSUME NEW i \in 1 .. Len(Walk(f)), Walk(f)[i] < Target(f), NEW j \in Walk(f)[i] .. Walk(f)[i] + 4 PROVE m[j] = f[j]
    <3> DEFINE k == Walk(f)[i]
    <3>1. k \in Nat /\ k + 5 <= T
      BY <2>3, Before
    <3>2. c[j] = f[j] /\ b[j] = f[j]
      BY <1>2, <2>3 DEF Broken
    <3> HIDE DEF k, T
    <3>3. j \in k .. k + 4
      BY DEF k
    <3>4. j \in 0 .. Size - 1
      BY <2>1, <3>1, <3>3
    <3> QED BY <3>2, <3>4 DEF Mixed
  <2>4. \A i \in T .. T + 4 : m[i] = c[i]
    <3> HIDE DEF T
    <3>1. \A i \in T .. T + 4 : i \in 0 .. Size - 1
      BY <2>1
    <3> QED BY <1>2, <3>1 DEF Mixed, T
  <2>5. Sum(m, T, 5) # 0
    <3>1. c \in Buffers /\ Sum(c, T, 5) # 0
      BY <1>2 DEF Broken
    <3>2. Sum(m, T, 5) = Sum(c, T, 5)
      BY <2>1, <2>4, <3>1, SameHeader
    <3> QED BY <3>1, <3>2
  <2>6. Broken(f, m)
    BY <2>1, <2>2, <2>3, <2>5 DEF Broken
  <2> QED BY <1>2, <2>4, <2>6 DEF Kept
<1> QED BY <1>1, <1>2 DEF Kept

\* If the bytes of the header are in one page, a cut between two pages leaves it with its checksum.
LEMMA MixedGood ==
  ASSUME NEW f, Recorded(f), NEW c, NEW b, Good(f, c), Good(f, b), Kept(f, c, b),
         NEW m, NEW k \in Nat, Mixed(m, c, b, k * Page), HeaderInOnePage(f)
  PROVE  Good(f, m)
<1> DEFINE T == Target(f)
           cut == k * Page
<1>1. c \in Buffers /\ b \in Buffers /\ m \in Buffers /\ Sum(c, T, 5) = 0 /\ Sum(b, T, 5) = 0 /\ cut \in Nat /\ Page \in Nat \ {0}
  BY FruAssumption DEF FruAssumption, Good, Framed, Mixed
<1>2. Framed(f, m)
  <2>1. Kept(f, c, m)
    BY <1>1, MixedKept
  <2>2. ~Broken(f, c)
    BY DEF Good, Broken
  <2> QED BY <2>1, <2>2 DEF Kept
<1>3. Size \in Nat /\ T \in Nat /\ T + 5 <= Size
  <2>1. T \in Nat /\ Length(f, T) \in 0 .. 255 /\ T + 5 + Length(f, T) <= End(f) /\ End(f) \in Nat /\ End(f) <= Size
    BY TargetFacts, ImageFacts
  <2> DEFINE l == Length(f, T)
             e == End(f)
  <2>2. T \in Nat /\ l \in 0 .. 255 /\ T + 5 + l <= e /\ e \in Nat /\ e <= Size
    BY <2>1
  <2> HIDE DEF l, e, T
  <2>3. T + 5 <= Size
    BY <2>2, FruAssumption DEF FruAssumption
  <2> QED BY <2>2, <2>3, FruAssumption DEF FruAssumption
<1>4. cut % Page = 0
  <2>1. \A x \in Nat : \A y \in Nat \ {0} : (x * y) % y = 0
    OBVIOUS
  <2> QED BY <1>1, <2>1
<1>5. /\ Policied(f) => (T + 4) % Page # 0
      /\ ~Policied(f) => \A j \in T + 2 .. T + 4 : j % Page # 0
  <2>1. Walk(f) # <<>>
    BY ImageFacts
  <2>2. CASE Policied(f)
    <3>1. T # NotFound
      BY <1>3 DEF NotFound
    <3> QED BY <2>1, <2>2, <3>1 DEF HeaderInOnePage, Target
  <2>3. CASE ~Policied(f)
    <3>1. \A i \in 1 .. Len(Walk(f)) : ~Rewritable(f, Walk(f)[i])
      BY <2>3, TargetFacts DEF Rewritable
    <3>2. FirstOf(Walk(f), LAMBDA x : Rewritable(f, x)) = NotFound
      <4> DEFINE s == Walk(f)
      <4>1. s \in Seq(Nat)
        BY ImageFacts DEF Chained
      <4>2. \A i \in DOMAIN s : ~Rewritable(f, s[i])
        BY <3>1, <4>1
      <4> HIDE DEF s
      <4>3. FirstOf(s, LAMBDA x : Rewritable(f, x)) = NotFound
        BY <4>2, Zenon DEF FirstOf
      <4> QED BY <4>3 DEF s
    <3>3. Walk(f)[Len(Walk(f))] = T
      BY <2>3 DEF Target, LastOf
    <3> QED BY <2>1, <2>3, <3>2, <3>3 DEF HeaderInOnePage
  <2> QED BY <2>2, <2>3
<1> HIDE DEF cut
<1>6. \A i \in T .. T + 4 : i \in 0 .. Size - 1 /\ (i < cut => m[i] = c[i]) /\ (~(i < cut) => m[i] = b[i])
  <2> HIDE DEF T
  <2>1. \A i \in T .. T + 4 : i \in 0 .. Size - 1
    BY <1>3
  <2> QED BY <2>1 DEF Mixed, cut
<1>7. (\A i \in T .. T + 4 : m[i] = c[i]) \/ (\A i \in T .. T + 4 : m[i] = b[i])
  <2>1. CASE Policied(f)
    <3>1. c[T] = b[T] /\ c[T + 1] = b[T + 1] /\ c[T + 2] = b[T + 2]
      BY <2>1, Frame DEF Good
    <3> HIDE DEF T
    <3>2. cut # T + 4
      BY <1>4, <1>5, <2>1
    <3>3. CASE cut >= T + 5
      BY <1>1, <1>3, <1>6, <3>3
    <3>4. CASE cut <= T + 3
      <4>1. ASSUME NEW i \in T .. T + 4 PROVE m[i] = b[i]
        <5>1. i = T \/ i = T + 1 \/ i = T + 2 \/ ~(i < cut)
          BY <1>1, <1>3, <3>4
        <5> QED BY <1>6, <3>1, <5>1
      <4> QED BY <4>1
    <3> QED BY <1>1, <1>3, <3>2, <3>3, <3>4
  <2>2. CASE ~Policied(f)
    <3>1. c[T] = b[T]
      BY <2>2, Frame DEF Good
    <3> HIDE DEF T
    <3>2. cut \notin T + 2 .. T + 4
      BY <1>4, <1>5, <2>2
    <3>3. CASE cut >= T + 5
      BY <1>1, <1>3, <1>6, <3>3
    <3>4. CASE cut <= T + 1
      <4>1. ASSUME NEW i \in T .. T + 4 PROVE m[i] = b[i]
        <5>1. i = T \/ ~(i < cut)
          BY <1>1, <1>3, <3>4
        <5> QED BY <1>6, <3>1, <5>1
      <4> QED BY <4>1
    <3> QED BY <1>1, <1>3, <3>2, <3>3, <3>4
  <2> QED BY <2>1, <2>2
<1>8. Sum(m, T, 5) = 0
  <2> HIDE DEF T
  <2>1. CASE \A i \in T .. T + 4 : m[i] = c[i]
    BY <1>1, <1>3, <2>1, SameHeader
  <2>2. CASE \A i \in T .. T + 4 : m[i] = b[i]
    BY <1>1, <1>3, <2>2, SameHeader
  <2> QED BY <1>7, <2>1, <2>2
<1> QED BY <1>2, <1>8 DEF Good

----------------------------------------------------------------------------
(* The invariant: copy and EEPROM are the factory's but for the bytes of a rewrite. *)

FruCalls ==
  /\ fruPc = "writing" => /\ fruRet = "none" /\ \E k \in Nat : page = k * Page
                          /\ \A i \in 0 .. Size - 1 : i < page => eeprom[i] = fru[i]
  /\ fruRet = "success" => eeprom = fru
  /\ (fruPc = "writing" \/ fruRet = "success") /\ wasEnded => PowerPolicy(fru) = want
FruImages ==
  /\ factory \in Images
  /\ ~Recorded(factory) => fru = factory /\ eeprom = factory /\ fruPc # "writing" /\ fruRet # "success"
  /\ Recorded(factory) => /\ Kept(factory, fru, eeprom)
                          /\ HeaderInOnePage(factory) => Good(factory, fru) /\ Good(factory, eeprom)
FruInv == FruImages /\ FruCalls

\* What is assumed of an image.
LEMMA ImageRecorded ==
  ASSUME NEW f \in Images
  PROVE  f \in Buffers /\ WellFormed(f) /\ (Recorded(f) <=> AreaOf(f, 5) # NotFound)
BY FruAssumption DEF FruAssumption, WellFormed, Recorded, Buffers

\* An image is good as it left the factory.
LEMMA GoodAtFirst == ASSUME NEW f, Recorded(f) PROVE Good(f, f)
<1> DEFINE T == Target(f)
<1>1. ParseHeader(f, T)
  BY TargetFacts, ImageFacts DEF Chained
<1>2. f \in Buffers /\ \A i \in End(f) .. Size - 1 : f[i] = 255
  BY DEF Recorded, WellFormed
<1>3. Appended(f, f)
  <2> DEFINE e == End(f)
  <2>1. e \in Nat /\ Size \in Nat
    BY ImageFacts, FruAssumption DEF FruAssumption
  <2>2. CASE e + 9 < Size
    <3>1. \A i \in e .. Size - 1 : f[i] = 255
      BY <1>2
    <3> HIDE DEF e
    <3>2. f[e] = 255 /\ f[e + 1] = 255 /\ f[e + 2] = 255 /\ f[e + 3] = 255 /\ f[e + 4] = 255
      BY <2>1, <2>2, <3>1
    <3> QED BY <2>2, <3>2 DEF Appended, e
  <2>3. CASE ~(e + 9 < Size)
    BY <1>2, <2>3 DEF Appended
  <2> QED BY <2>2, <2>3
<1> QED BY <1>1, <1>2, <1>3 DEF Good, Framed, ParseHeader

\* An image without records cannot take a policy.
LEMMA NothingToSet ==
  ASSUME NEW f \in Images, ~Recorded(f), NEW v, NEW r, r = SetMultirecord(f, v)
  PROVE  ~r.ok /\ r.buf = f
<1>1. Walk(f) = <<>>
  BY ImageRecorded DEF Walk
<1>2. r = [ok |-> FALSE, buf |-> f]
  BY <1>1 DEF SetMultirecord
<1> QED BY <1>2

\* The invariant holds at first.
LEMMA FruStart == FruInit => FruInv
<1> SUFFICES ASSUME FruInit PROVE FruInv
  OBVIOUS
<1>1. factory \in Images /\ eeprom = factory /\ fru = factory /\ fruPc = "off" /\ fruRet = "none"
  BY DEF FruInit
<1>2. ASSUME Recorded(factory) PROVE Kept(factory, fru, eeprom) /\ Good(factory, fru) /\ Good(factory, eeprom)
  <2>1. Good(factory, factory)
    BY <1>2, GoodAtFirst
  <2> QED BY <1>1, <2>1 DEF Kept, Ahead, Good
<1> QED BY <1>1, <1>2 DEF FruInv, FruImages, FruCalls

\* Copy and EEPROM hold bytes.
LEMMA KeptBuffers == ASSUME NEW f, NEW c, NEW b, Kept(f, c, b) PROVE c \in Buffers /\ b \in Buffers
BY DEF Kept, Framed, Broken

\* So they do in every state of the invariant.
LEMMA BuffersKept ==
  ASSUME FruInv
  PROVE  fru \in Buffers /\ eeprom \in Buffers
BY KeptBuffers, ImageRecorded DEF FruInv, FruImages

\* What a page leaves in the EEPROM: the copy in front of it and in it, the EEPROM behind it.
LEMMA StoredMixed ==
  ASSUME FruInv, fruPc = "writing", NEW k \in Nat, page = k * Page
  PROVE  Mixed(Stored, fru, eeprom, (k + 1) * Page) /\ (k + 1) * Page = page + Page /\ page \in Nat /\ page + Page \in Nat
<1>1. fru \in Buffers /\ eeprom \in Buffers /\ Page \in Nat \ {0} /\ Size \in Nat
  BY BuffersKept, FruAssumption DEF FruAssumption
<1>2. (k + 1) * Page = page + Page /\ page \in Nat /\ page + Page \in Nat
  BY <1>1
<1>3. Stored \in Buffers
  BY <1>1 DEF Buffers, Stored
<1>4. ASSUME NEW i \in 0 .. Size - 1 PROVE Stored[i] = IF i < page + Page THEN fru[i] ELSE eeprom[i]
  <2>1. Stored[i] = IF i \in page .. page + Page - 1 THEN fru[i] ELSE eeprom[i]
    BY <1>1 DEF Stored, Buffers
  <2>2. i < page => eeprom[i] = fru[i]
    BY DEF FruInv, FruCalls
  <2> HIDE DEF Stored
  <2> QED BY <1>1, <1>2, <2>1, <2>2
<1> QED BY <1>2, <1>3, <1>4 DEF Mixed

\* A page that is taken keeps the relation, and the last one makes the two equal.
LEMMA StoredKept ==
  ASSUME FruInv, fruPc = "writing"
  PROVE  /\ Recorded(factory) /\ Kept(factory, fru, Stored) /\ \E k \in Nat : page = k * Page /\ page + Page = (k + 1) * Page
         /\ HeaderInOnePage(factory) => Good(factory, fru) /\ Good(factory, Stored)
         /\ \A i \in 0 .. Size - 1 : i < page + Page => Stored[i] = fru[i]
         /\ Size <= page + Page => Stored = fru
<1>1. PICK k \in Nat : page = k * Page
  BY DEF FruInv, FruCalls
<1>2. Mixed(Stored, fru, eeprom, (k + 1) * Page) /\ (k + 1) * Page = page + Page /\ page \in Nat /\ page + Page \in Nat
  BY <1>1, StoredMixed
<1>3. /\ Recorded(factory) /\ Kept(factory, fru, eeprom)
      /\ HeaderInOnePage(factory) => Good(factory, fru) /\ Good(factory, eeprom)
  BY DEF FruInv, FruImages
<1>4. Kept(factory, fru, Stored)
  BY <1>2, <1>3, MixedKept
<1>5. ASSUME HeaderInOnePage(factory) PROVE Good(factory, Stored)
  <2>1. k + 1 \in Nat
    OBVIOUS
  <2> QED BY <1>2, <1>3, <1>5, <2>1, MixedGood
<1>6. \A i \in 0 .. Size - 1 : i < page + Page => Stored[i] = fru[i]
  BY <1>2 DEF Mixed
<1>7. ASSUME Size <= page + Page PROVE Stored = fru
  <2>1. Stored \in Buffers /\ fru \in Buffers /\ Size \in Nat
    BY <1>2, BuffersKept, FruAssumption DEF Mixed, FruAssumption
  <2> DEFINE m == Stored
  <2> HIDE DEF m
  <2>2. \A i \in 0 .. Size - 1 : m[i] = fru[i]
    <3>1. \A i \in 0 .. Size - 1 : i < page + Page
      BY <1>2, <1>7, <2>1
    <3> QED BY <1>6, <3>1 DEF m
  <2>3. m = [i \in 0 .. Size - 1 |-> m[i]] /\ fru = [i \in 0 .. Size - 1 |-> fru[i]]
    BY <2>1 DEF Buffers, m
  <2>4. [i \in 0 .. Size - 1 |-> m[i]] = [i \in 0 .. Size - 1 |-> fru[i]]
    BY <2>2, Zenon
  <2>5. m = fru
    BY <2>3, <2>4
  <2> QED BY <2>5 DEF m
<1>8. page + Page = (k + 1) * Page
  BY <1>2
<1> QED BY <1>1, <1>3, <1>4, <1>5, <1>6, <1>7, <1>8

\* Every step keeps the invariant.
LEMMA FruStep == FruInv /\ [FruNext]_fruVars => FruInv'
<1> SUFFICES ASSUME FruInv, [FruNext]_fruVars PROVE FruInv'
  OBVIOUS
<1>1. CASE FruClientDxeInitialize
  <2>1. fru' = eeprom /\ eeprom' = eeprom /\ factory' = factory /\ fruRet' = fruRet /\ want' = want /\ wasEnded' = wasEnded /\ page' = page
        /\ fruPc' # "writing" /\ fruPc = "off"
    BY <1>1 DEF FruClientDxeInitialize
  <2>2. FruImages'
    BY <2>1, Reread DEF FruInv, FruImages
  <2>3. fruRet = "success" => fru' = fru
    BY <2>1 DEF FruInv, FruCalls
  <2>4. FruCalls'
    BY <2>1, <2>3 DEF FruInv, FruCalls
  <2> QED BY <2>2, <2>4 DEF FruInv
<1>2. CASE SetBoardPowerPolicy
  <2>1. PICK v \in PolicyValues :
          /\ want' = v /\ wasEnded' = Ended(fru) /\ fru' = SetMultirecord(fru, v).buf /\ page' = 0 /\ eeprom' = eeprom /\ factory' = factory
          /\ IF SetMultirecord(fru, v).ok THEN fruPc' = "writing" /\ fruRet' = "none" ELSE fruPc' = "ready" /\ fruRet' = "failed"
    BY <1>2 DEF SetBoardPowerPolicy
  <2>2. v \in 0 .. 255 /\ Page \in Nat
    BY FruAssumption DEF FruAssumption
  <2> DEFINE r == SetMultirecord(fru, v)
  <2>3. r = SetMultirecord(fru, v)
    OBVIOUS
  <2> HIDE DEF r
  <2>4. CASE ~r.ok /\ r.buf = fru
    <3>1. fru' = fru /\ fruPc' = "ready" /\ fruRet' = "failed" /\ eeprom' = eeprom /\ factory' = factory
      BY <2>1, <2>4 DEF r
    <3> QED BY <3>1 DEF FruInv, FruImages, FruCalls
  <2>5. CASE /\ Recorded(factory) /\ r.ok /\ Kept(factory, r.buf, eeprom) /\ (Ended(fru) => PowerPolicy(r.buf) = v)
             /\ Good(factory, fru) => Good(factory, r.buf)
    <3>1. fru' = r.buf /\ fruPc' = "writing" /\ fruRet' = "none" /\ eeprom' = eeprom /\ factory' = factory /\ want' = v /\ page' = 0
          /\ wasEnded' = Ended(fru)
      BY <2>1, <2>5 DEF r
    <3>2. FruImages'
      BY <2>5, <3>1 DEF FruInv, FruImages
    <3>3. 0 = 0 * Page /\ 0 \in Nat /\ \A i \in 0 .. Size - 1 : ~(i < 0)
      BY <2>2
    <3>4. FruCalls'
      BY <2>5, <3>1, <3>3 DEF FruCalls
    <3> QED BY <3>2, <3>4 DEF FruInv
  <2>6. CASE Recorded(factory)
    <3>1. Kept(factory, fru, eeprom)
      BY <2>6 DEF FruInv, FruImages
    <3> QED BY <2>2, <2>3, <2>4, <2>5, <2>6, <3>1, RewriteKept
  <2>7. CASE ~Recorded(factory)
    <3>1. factory \in Images /\ fru = factory
      BY <2>7 DEF FruInv, FruImages
    <3>2. ~r.ok /\ r.buf = fru
      BY <2>3, <2>7, <3>1, NothingToSet
    <3> QED BY <2>4, <3>2
  <2> QED BY <2>6, <2>7
<1>3. CASE WritePage
  <2>1. fruPc = "writing" /\ eeprom' = Stored /\ page' = page + Page /\ fru' = fru /\ want' = want /\ factory' = factory
        /\ wasEnded' = wasEnded
    BY <1>3 DEF WritePage
  <2>2. /\ page + Page < Size => fruPc' = "writing" /\ fruRet' = fruRet
        /\ ~(page + Page < Size) => fruPc' = "ready" /\ fruRet' = "success"
    BY <1>3 DEF WritePage
  <2>3. /\ Recorded(factory) /\ Kept(factory, fru, Stored) /\ \E k \in Nat : page = k * Page /\ page + Page = (k + 1) * Page
        /\ HeaderInOnePage(factory) => Good(factory, fru) /\ Good(factory, Stored)
        /\ \A i \in 0 .. Size - 1 : i < page + Page => Stored[i] = fru[i]
        /\ Size <= page + Page => Stored = fru
    BY <2>1, StoredKept
  <2>4. FruImages'
    BY <2>1, <2>3 DEF FruInv, FruImages
  <2>5. fruRet = "none" /\ (wasEnded => PowerPolicy(fru) = want)
    BY <2>1 DEF FruInv, FruCalls
  <2>6. CASE page + Page < Size
    <3>1. \E k \in Nat : page + Page = k * Page
      <4>1. PICK k \in Nat : page + Page = (k + 1) * Page
        BY <2>3
      <4>2. k + 1 \in Nat
        OBVIOUS
      <4> QED BY <4>1, <4>2
    <3> QED BY <2>1, <2>2, <2>3, <2>4, <2>5, <2>6, <3>1 DEF FruInv, FruCalls
  <2>7. CASE ~(page + Page < Size)
    <3>1. Size <= page + Page
      <4>1. Size \in Nat /\ Page \in Nat
        BY FruAssumption DEF FruAssumption
      <4>2. page \in Nat
        BY <2>3, <4>1
      <4> QED BY <2>7, <4>1, <4>2
    <3> QED BY <2>1, <2>2, <2>3, <2>4, <2>5, <2>7, <3>1 DEF FruInv, FruCalls
  <2> QED BY <2>6, <2>7
<1>4. CASE PageFails
  <2>1. /\ fruPc = "writing" /\ eeprom' \in {eeprom, Stored} /\ fruPc' = "ready" /\ fruRet' = "failed"
        /\ fru' = fru /\ want' = want /\ factory' = factory
    BY <1>4 DEF PageFails
  <2>2. Recorded(factory) /\ Kept(factory, fru, Stored) /\ (HeaderInOnePage(factory) => Good(factory, fru) /\ Good(factory, Stored))
    BY <2>1, StoredKept
  <2>3. FruImages'
    BY <2>1, <2>2 DEF FruInv, FruImages
  <2>4. FruCalls'
    BY <2>1 DEF FruCalls
  <2> QED BY <2>3, <2>4 DEF FruInv
<1>5. CASE FruPowerCut
  <2>1. fruPc' = "off" /\ eeprom' = eeprom /\ fru' = fru /\ page' = page /\ want' = want /\ fruRet' = fruRet /\ factory' = factory
        /\ wasEnded' = wasEnded
    BY <1>5 DEF FruPowerCut
  <2> QED BY <2>1 DEF FruInv, FruImages, FruCalls
<1>6. CASE UNCHANGED fruVars
  BY <1>6 DEF FruInv, FruImages, FruCalls, fruVars
<1> QED BY <1>1, <1>2, <1>3, <1>4, <1>5, <1>6 DEF FruNext

\* When SetBoardPowerPolicy has returned success, the EEPROM holds what the copy holds, whatever was cut or refused
\* before.  If moreover the chain of records had its end when the call began, the policy that is read is the one that
\* was set; a chain that a cut left without its end is the case the theorem leaves out, as the code does not repair it.
THEOREM PolicyIsRead == FruSpec => []PolicyReadBack
<1>1. FruInv => PolicyReadBack
  BY DEF FruInv, FruCalls, PolicyReadBack
<1> QED BY <1>1, FruStart, FruStep, PTL DEF FruSpec

----------------------------------------------------------------------------
(* What the factory stored. *)

SameRecord(f, b, p) ==
  /\ b[p] = f[p] /\ Length(b, p) = Length(f, p) /\ p \in Nat /\ Length(f, p) \in 0 .. 255
  /\ CheckData(b, p) <=> CheckData(f, p)
  /\ \A j \in p + 5 .. p + 4 + Length(f, p) : b[j] = f[j]

\* Every record but a policy keeps its type, its length and its data.
LEMMA RecordKept ==
  ASSUME NEW f, Recorded(f), NEW b, Good(f, b), NEW i \in 1 .. Len(Walk(f)), f[Walk(f)[i]] # PPOL
  PROVE  SameRecord(f, b, Walk(f)[i])
<1> DEFINE p == Walk(f)[i]
           l == Length(f, p)
           e == End(f)
           T == Target(f)
<1>1. /\ p \in Nat /\ l \in 0 .. 255 /\ p + 5 + l <= e /\ e \in Nat /\ e <= Size /\ Framed(f, b) /\ f \in Buffers
      /\ b[p] = f[p] /\ Length(b, p) = l /\ b \in Buffers /\ Size \in Nat
  <2>1. p \in Nat /\ l \in 0 .. 255 /\ p + 5 + l <= e /\ e \in Nat /\ e <= Size
    BY ImageFacts
  <2>2. Framed(f, b) /\ f \in Buffers /\ b \in Buffers /\ Size \in Nat
    BY FruAssumption DEF FruAssumption, Good, Framed, Recorded
  <2>3. b[p] = f[p] /\ Length(b, p) = l
    BY <2>2, Headers
  <2> QED BY <2>1, <2>2, <2>3
<1>2. /\ \A j \in p .. p + 4 + l : j # p + 1 /\ j # p + 4 => b[j] = f[j]
      /\ b[p + 1] \in {f[p + 1], f[p + 1] % 128}
  <2>1. CASE p # T
    <3>1. \A j \in p .. p + 4 + l : b[j] = f[j]
      BY <1>1, <2>1, Frame
    <3> HIDE DEF p, l
    <3>2. p + 1 \in p .. p + 4 + l
      BY <1>1
    <3> QED BY <3>1, <3>2
  <2>2. CASE p = T
    <3>1. ~Policied(f)
      <4>1. Policied(f) => f[T] = PPOL
        BY TargetFacts DEF Rewritable
      <4> QED BY <2>2, <4>1
    <3> QED BY <1>1, <2>2, <3>1, Frame
  <2> QED BY <2>1, <2>2
<1> HIDE DEF p, l, e, T
<1>3. \A j \in p + 5 .. p + 4 + l : b[j] = f[j]
  BY <1>1, <1>2
<1>4. b[p + 3] = f[p + 3]
  BY <1>1, <1>2
<1>5. b[p + 1] % 8 = f[p + 1] % 8
  <2>1. p + 1 \in 0 .. Size - 1
    BY <1>1
  <2>2. f[p + 1] \in 0 .. 255
    BY <1>1, <2>1, BufferByte
  <2>3. \A x \in 0 .. 255 : (x % 128) % 8 = x % 8
    OBVIOUS
  <2> QED BY <1>2, <2>2, <2>3
<1>6. Sum(b, p + 5, l) = Sum(f, p + 5, l)
  <2>1. \A j \in p + 5 .. p + 5 + l - 1 : f[j] \in 0 .. 255 /\ b[j] = f[j]
    <3>1. \A j \in p + 5 .. p + 5 + l - 1 : j \in 0 .. Size - 1 /\ j \in p + 5 .. p + 4 + l
      BY <1>1
    <3> QED BY <1>1, <1>3, <3>1, BufferByte
  <2>2. p + 5 \in Int /\ l \in Nat
    BY <1>1
  <2> QED BY <2>1, <2>2, SumSame
<1>7. CheckData(b, p) <=> CheckData(f, p)
  BY <1>1, <1>4, <1>5, <1>6 DEF CheckData, l
<1>8. SameRecord(f, b, p)
  BY <1>1, <1>3, <1>7 DEF SameRecord, l
<1> QED BY <1>8 DEF p

\* So it is found where the factory put it.
LEMMA RecordsFound ==
  ASSUME NEW f, Recorded(f), NEW b, Good(f, b), NEW type, type # PPOL
  PROVE  /\ GetMultirecord(b, type) = GetMultirecord(f, type)
         /\ GetMultirecord(f, type) # NotFound =>
              \E i \in 1 .. Len(Walk(f)) : GetMultirecord(f, type) = Walk(f)[i] /\ f[Walk(f)[i]] # PPOL
<1> DEFINE K == Walk(f)
           n == Len(K)
           e == End(f)
           W == Walk(b)
           Hit(c, p) == c[p] = type /\ CheckData(c, p)
<1>1. K \in Seq(Nat) /\ n \in Nat /\ e \in Nat
  BY ImageFacts DEF Chained
<1>2. W = K \/ (W = Append(K, e) /\ b[e] = PPOL)
  <2>1. W = K \/ (W = Append(K, e) /\ Rewritable(b, e))
    BY WalkGood
  <2> QED BY <2>1 DEF Rewritable
<1>3. ASSUME NEW i \in 1 .. n PROVE Hit(b, K[i]) <=> Hit(f, K[i])
  <2>1. b[K[i]] = f[K[i]]
    BY Headers DEF Good
  <2>2. f[K[i]] # PPOL => (CheckData(b, K[i]) <=> CheckData(f, K[i]))
    BY RecordKept DEF SameRecord
  <2> QED BY <2>1, <2>2
<1> HIDE DEF K, e, W
<1>4. /\ W \in Seq(Nat) /\ Len(W) \in Nat /\ n <= Len(W) /\ \A i \in 1 .. n : W[i] = K[i]
      /\ \A i \in 1 .. Len(W) : i \in 1 .. n \/ b[W[i]] = PPOL
  <2>1. CASE W = K
    BY <1>1, <2>1
  <2>2. CASE W = Append(K, e) /\ b[e] = PPOL
    <3>1. W \in Seq(Nat) /\ Len(W) = n + 1 /\ W[n + 1] = e /\ \A i \in 1 .. n : W[i] = K[i]
      BY <1>1, <2>2
    <3>2. \A i \in 1 .. Len(W) : i \in 1 .. n \/ i = n + 1
      BY <1>1, <3>1
    <3> QED BY <1>1, <2>2, <3>1, <3>2
  <2> QED BY <1>2, <2>1, <2>2
<1> DEFINE Hits == {i \in 1 .. n : Hit(f, K[i])}
<1>5. CASE Hits = {}
  <2>1. \A i \in 1 .. n : ~Hit(f, K[i])
    BY <1>5
  <2>2. GetMultirecord(f, type) = NotFound
    BY <1>1, <2>1, FirstRecord DEF K
  <2>3. \A i \in 1 .. Len(W) : ~Hit(b, W[i])
    BY <1>3, <1>4, <2>1
  <2>4. GetMultirecord(b, type) = NotFound
    BY <1>4, <2>3, FirstRecord DEF W
  <2> QED BY <2>2, <2>4
<1>6. CASE Hits # {}
  <2>1. PICK m \in Hits : \A y \in Hits : m <= y
    <3>1. Hits \subseteq Nat
      BY <1>1
    <3> HIDE DEF Hits
    <3> QED BY <1>6, <3>1, NatMin
  <2>2. m \in 1 .. n /\ Hit(f, K[m]) /\ \A j \in 1 .. m - 1 : j \in 1 .. n /\ ~Hit(f, K[j])
    <3>1. m \in 1 .. n /\ Hit(f, K[m])
      OBVIOUS
    <3>2. ASSUME NEW j \in 1 .. m - 1 PROVE j \in 1 .. n /\ j \notin Hits
      <4>1. j \in 1 .. n /\ ~(m <= j)
        BY <1>1, <3>1
      <4> QED BY <2>1, <4>1
    <3> QED BY <3>1, <3>2
  <2>3. GetMultirecord(f, type) = K[m]
    BY <1>1, <2>2, FirstRecord DEF K
  <2>4. m \in 1 .. Len(W) /\ W[m] = K[m] /\ Hit(b, W[m]) /\ \A j \in 1 .. m - 1 : ~Hit(b, W[j])
    <3>1. m \in 1 .. Len(W)
      BY <1>1, <1>4, <2>2
    <3> QED BY <1>3, <1>4, <2>2, <3>1
  <2>5. GetMultirecord(b, type) = K[m]
    BY <1>4, <2>4, FirstRecord DEF W
  <2> QED BY <2>2, <2>3, <2>5 DEF K
<1> QED BY <1>5, <1>6

\* The MAC addresses read from a good buffer are the factory's.
LEMMA AddressKept ==
  ASSUME NEW f, Recorded(f), NEW b, Good(f, b), NEW k \in 0 .. 3
  PROVE  MacAddr(b, k) = MacAddr(f, k)
<1> DEFINE type == MacType(k)
           p == GetMultirecord(f, type)
<1>1. type # PPOL
  BY DEF MacType, MAC0, MAC1, MAC2, MACN, PPOL
<1> HIDE DEF type
<1>2. GetMultirecord(b, type) = p
  BY <1>1, RecordsFound
<1>3. CASE p = NotFound
  BY <1>2, <1>3 DEF MacAddr, type
<1>4. CASE p # NotFound
  <2> DEFINE n == Length(f, p)
             over == IF k <= 2 THEN n - 6 ELSE (n % 6) - 1
             data == p + 5 + over
             at == IF k <= 2 THEN data ELSE data + 1 + 6 * (k - 3)
             Fails(c) == over \notin {0, 3} \/ (k > 2 /\ (n < (k - 2) * 6 \/ k - 2 > c[data]))
  <2>1. /\ p \in Nat /\ n \in 0 .. 255 /\ Length(b, p) = n
        /\ \A j \in p + 5 .. p + 4 + n : b[j] = f[j]
    <3>1. PICK i \in 1 .. Len(Walk(f)) : p = Walk(f)[i] /\ f[Walk(f)[i]] # PPOL
      BY <1>1, <1>4, RecordsFound
    <3>2. SameRecord(f, b, Walk(f)[i])
      BY <3>1, RecordKept
    <3>3. SameRecord(f, b, p)
      BY <3>1, <3>2
    <3> HIDE DEF p
    <3> QED BY <3>3 DEF SameRecord
  <2> HIDE DEF p, n
  <2>2. ASSUME over \in {0, 3}, k > 2 => n >= 6
        PROVE  (k > 2 => data \in p + 5 .. p + 4 + n) /\ \A i \in 0 .. 5 : at + i \in p + 5 .. p + 4 + n
    <3>1. CASE k <= 2
      <4>1. n = 6 + over /\ at = p + 5 + over
        BY <2>1, <2>2, <3>1
      <4> QED BY <2>1, <2>2, <3>1, <4>1
    <3>2. CASE k > 2
      <4>1. k = 3 /\ over = (n % 6) - 1 /\ at = data + 1
        <5>1. k = 3 /\ ~(k <= 2)
          BY <3>2
        <5>2. over = (n % 6) - 1
          BY <5>1
        <5>3. data \in Int
          BY <2>1, <2>2
        <5>4. \A x \in Int : x + 1 + 6 * (3 - 3) = x + 1
          OBVIOUS
        <5>5. at = data + 1 + 6 * (k - 3)
          BY <5>1
        <5> HIDE DEF data, at
        <5>6. at = data + 1 + 6 * (3 - 3)
          BY <5>1, <5>5
        <5> QED BY <5>1, <5>2, <5>3, <5>4, <5>6
      <4>2. n >= 7 + over
        <5>1. n % 6 = 1 \/ n % 6 = 4
          BY <2>1, <2>2, <4>1
        <5>2. n >= 6
          BY <2>2, <3>2
        <5>3. \A x \in 6 .. 255 : (x % 6 = 1 => x >= 7) /\ (x % 6 = 4 => x >= 10)
          OBVIOUS
        <5> QED BY <2>1, <4>1, <5>1, <5>2, <5>3
      <4> DEFINE o == over
      <4>3. o \in {0, 3} /\ at = p + 6 + o /\ data = p + 5 + o /\ n >= 7 + o
        BY <2>1, <2>2, <4>1, <4>2
      <4> HIDE DEF o, over, at, data
      <4> QED BY <2>1, <4>3
    <3> QED BY <3>1, <3>2
  <2>3. MacAddr(f, k) = IF Fails(f) THEN NoAddress ELSE [i \in 0 .. 5 |-> f[at + i]]
    BY <1>4 DEF MacAddr, p, n, type
  <2>4. MacAddr(b, k) = IF Fails(b) THEN NoAddress ELSE [i \in 0 .. 5 |-> b[at + i]]
    BY <1>2, <1>4, <2>1 DEF MacAddr, type
  <2>5. Fails(b) <=> Fails(f)
    <3>1. CASE over \in {0, 3} /\ (k > 2 => n >= 6)
      BY <2>1, <2>2, <3>1
    <3>2. CASE ~(over \in {0, 3} /\ (k > 2 => n >= 6))
      <4>1. k > 2 /\ ~(n >= 6) => n < (k - 2) * 6
        BY <2>1
      <4> QED BY <3>2, <4>1
    <3> QED BY <3>1, <3>2
  <2>6. CASE Fails(f)
    BY <2>3, <2>4, <2>5, <2>6
  <2>7. CASE ~Fails(f)
    <3>1. over \in {0, 3} /\ (k > 2 => n >= 6)
      <4>1. k > 2 /\ ~(n >= 6) => n < (k - 2) * 6
        BY <2>1
      <4> QED BY <2>7, <4>1
    <3>2. \A i \in 0 .. 5 : b[at + i] = f[at + i]
      BY <2>1, <2>2, <3>1
    <3> HIDE DEF Fails, at
    <3>3. MacAddr(f, k) = [i \in 0 .. 5 |-> f[at + i]] /\ MacAddr(b, k) = [i \in 0 .. 5 |-> b[at + i]]
      BY <2>3, <2>4, <2>5, <2>7
    <3>4. [i \in 0 .. 5 |-> f[at + i]] = [i \in 0 .. 5 |-> b[at + i]]
      BY <3>2, Zenon
    <3> QED BY <3>3, <3>4
  <2> QED BY <2>6, <2>7
<1> QED BY <1>3, <1>4

NextField(b, a, p) ==
  IF p = NotFound \/ EndOfFields(b, p) THEN NotFound
  ELSE LET q == p + 1 + EncLen(b, p) IN IF q >= a + b[a + 1] * 8 THEN NotFound ELSE q
Fields(b, a, skip, k) == CHOOSE at : at = [j \in 0 .. k |-> IF j = 0 THEN a + skip ELSE NextField(b, a, at[j - 1])]

\* FieldAt is the last of the fields it passes.
LEMMA FieldAtIs ==
  ASSUME NEW b, NEW i, NEW skip, NEW k
  PROVE  FieldAt(b, i, skip, k) = IF InfoArea(b, i) = NotFound \/ b[InfoArea(b, i) + 1] * 8 <= skip THEN NotFound
                                  ELSE Fields(b, InfoArea(b, i), skip, k)[k]
BY DEF FieldAt, Fields, NextField

\* The fields exist: their recursion has a solution.
LEMMA FieldsExist ==
  ASSUME NEW b, NEW a, NEW skip, NEW k \in Nat
  PROVE  Fields(b, a, skip, k) = [j \in 0 .. k |-> IF j = 0 THEN a + skip ELSE NextField(b, a, Fields(b, a, skip, k)[j - 1])]
<1> DEFINE Solves(s, m) == s = [j \in 0 .. m |-> IF j = 0 THEN a + skip ELSE NextField(b, a, s[j - 1])]
           Open == {m \in Nat : ~ \E s : Solves(s, m)}
<1>1. Open = {}
  <2> SUFFICES ASSUME Open # {} PROVE FALSE
    OBVIOUS
  <2>1. PICK m \in Open : \A y \in Open : m <= y
    <3>1. Open \subseteq Nat
      OBVIOUS
    <3> HIDE DEF Open
    <3> QED BY <3>1, NatMin
  <2>2. Solves([j \in 0 .. 0 |-> a + skip], 0)
    OBVIOUS
  <2>3. m # 0
    BY <2>1, <2>2
  <2>4. m - 1 \in Nat /\ m - 1 \notin Open
    <3>1. m \in Nat
      BY <2>1
    <3> HIDE DEF Open
    <3> QED BY <2>1, <2>3, <3>1
  <2>5. PICK s : Solves(s, m - 1)
    BY <2>4
  <2> DEFINE t == [j \in 0 .. m |-> IF j = m THEN NextField(b, a, s[m - 1]) ELSE s[j]]
  <2>6. Solves(t, m)
    <3>1. ASSUME NEW j \in 0 .. m PROVE t[j] = IF j = 0 THEN a + skip ELSE NextField(b, a, t[j - 1])
      BY <2>3, <2>4, <2>5
    <3> QED BY <3>1
  <2> QED BY <2>1, <2>6
<1>2. PICK s : Solves(s, k)
  <2>1. k \notin Open
    BY <1>1
  <2> QED BY <2>1
<1> QED BY <1>2 DEF Fields

\* Each field follows the one before.
LEMMA FieldsRun ==
  ASSUME NEW b, NEW a, NEW skip, NEW k \in Nat
  PROVE  /\ Fields(b, a, skip, k)[0] = a + skip
         /\ \A j \in 1 .. k : Fields(b, a, skip, k)[j] = NextField(b, a, Fields(b, a, skip, k)[j - 1])
<1> DEFINE s == Fields(b, a, skip, k)
<1>1. s = [j \in 0 .. k |-> IF j = 0 THEN a + skip ELSE NextField(b, a, s[j - 1])]
  BY FieldsExist
<1> HIDE DEF s
<1>2. s[0] = a + skip /\ \A j \in 1 .. k : s[j] = NextField(b, a, s[j - 1])
  BY <1>1
<1> QED BY <1>2 DEF s

\* The areas in front of the records are as at first.
LEMMA InfoSame ==
  ASSUME NEW f, Recorded(f), NEW b, Good(f, b)
  PROVE  /\ AreaOf(f, 5) \in Nat /\ AreaOf(f, 5) <= Size /\ \A i \in 0 .. AreaOf(f, 5) - 1 : b[i] = f[i] /\ f[i] \in 0 .. 255
         /\ InfoArea(b, 3) = InfoArea(f, 3)
         /\ InfoArea(f, 3) # NotFound =>
              LET a == InfoArea(f, 3) IN a \in Nat /\ a + 8 <= AreaOf(f, 5) /\ f[a + 1] \in 0 .. 255 /\ a + f[a + 1] * 8 <= AreaOf(f, 5)
<1> DEFINE A == AreaOf(f, 5)
<1>1. f \in Buffers /\ A \in 8 .. Size - 1 /\ A = f[5] * 8 /\ Size \in Nat
  BY AreaType, FruAssumption DEF FruAssumption, Recorded
<1>2. \A i \in 0 .. A - 1 : b[i] = f[i] /\ f[i] \in 0 .. 255
  <2> HIDE DEF A
  <2>1. \A i \in 0 .. A - 1 : i \in 0 .. Size - 1 /\ i < A
    BY <1>1
  <2> QED BY <1>1, <2>1, Frame, BufferByte DEF Good, A
<1>3. AreaOf(b, 3) = AreaOf(f, 3)
  <2>1. \A i \in 0 .. 7 : b[i] = f[i]
    <3> HIDE DEF A
    <3> QED BY <1>1, <1>2
  <2> QED BY <1>1, <2>1, SameAreas
<1> DEFINE a == AreaOf(f, 3)
<1>4. CASE a = NotFound
  <2>1. InfoArea(f, 3) = NotFound /\ InfoArea(b, 3) = NotFound
    BY <1>3, <1>4 DEF InfoArea
  <2> QED BY <1>1, <1>2, <2>1
<1>5. CASE a # NotFound
  <2>1. a \in 8 .. Size - 1 /\ a = f[3] * 8 /\ a < A /\ a + f[a + 1] * 8 <= A
    BY <1>1, <1>5, AreaType DEF Recorded, WellFormed
  <2>2. f[3] \in 0 .. 255 /\ f[5] \in 0 .. 255
    <3>1. 3 \in 0 .. Size - 1 /\ 5 \in 0 .. Size - 1
      BY FruAssumption DEF FruAssumption
    <3> QED BY <1>1, <3>1, BufferByte
  <2>3. a + 8 <= A
    <3>1. \A x \in 0 .. 255 : \A y \in 0 .. 255 : x * 8 < y * 8 => x * 8 + 8 <= y * 8
      OBVIOUS
    <3> HIDE DEF a, A
    <3>2. f[3] * 8 < f[5] * 8
      BY <1>1, <2>1
    <3>3. f[3] * 8 + 8 <= f[5] * 8
      BY <2>2, <3>1, <3>2, Zenon
    <3> QED BY <1>1, <2>1, <3>3
  <2> HIDE DEF a, A
  <2>4. a \in 0 .. A - 1 /\ a + 1 \in 0 .. A - 1
    BY <1>1, <2>1, <2>3
  <2>5. b[a] = f[a] /\ b[a + 1] = f[a + 1] /\ f[a + 1] \in 0 .. 255
    BY <1>2, <2>4
  <2> DEFINE n == f[a + 1] * 8
  <2>6. n \in Nat /\ a + n <= A
    BY <2>1, <2>5
  <2>7. Sum(b, a, n) = Sum(f, a, n)
    <3> HIDE DEF n
    <3>1. \A i \in a .. a + n - 1 : i \in 0 .. A - 1
      BY <1>1, <2>1, <2>6
    <3>2. a \in Int /\ \A i \in a .. a + n - 1 : f[i] \in 0 .. 255 /\ b[i] = f[i]
      BY <1>2, <2>1, <3>1
    <3> QED BY <2>6, <3>2, SumSame
  <2>8. InfoArea(f, 3) = IF a # NotFound /\ f[a] = 1 /\ n <= Size - a /\ Sum(f, a, n) = 0 THEN a ELSE NotFound
    BY DEF InfoArea, a
  <2>9. InfoArea(b, 3) = IF a # NotFound /\ b[a] = 1 /\ b[a + 1] * 8 <= Size - a /\ Sum(b, a, b[a + 1] * 8) = 0 THEN a ELSE NotFound
    BY <1>3 DEF InfoArea, a
  <2>10. InfoArea(b, 3) = InfoArea(f, 3)
    BY <2>5, <2>7, <2>8, <2>9
  <2>11. InfoArea(f, 3) # NotFound => InfoArea(f, 3) = a
    BY <2>8
  <2>12. a \in Nat /\ a + 8 <= A /\ f[a + 1] \in 0 .. 255 /\ a + f[a + 1] * 8 <= A
    BY <2>1, <2>3, <2>5
  <2>13. A \in Nat /\ A <= Size
    BY <1>1
  <2> QED BY <1>2, <2>10, <2>11, <2>12, <2>13 DEF A
<1> QED BY <1>4, <1>5

FieldsAgree(b, f, a, A, k) ==
  \A j \in 0 .. k : /\ Fields(b, a, 6, k)[j] = Fields(f, a, 6, k)[j]
                    /\ Fields(f, a, 6, k)[j] = NotFound \/ Fields(f, a, 6, k)[j] \in 0 .. A - 1

\* The fields of two buffers that agree in front of the records start at the same places.
LEMMA FieldsSame ==
  ASSUME NEW f, NEW b, NEW A \in Nat, \A i \in 0 .. A - 1 : b[i] = f[i] /\ f[i] \in 0 .. 255,
         NEW a \in Nat, a + 8 <= A, f[a + 1] \in 0 .. 255, a + f[a + 1] * 8 <= A, f[a + 1] * 8 > 6, NEW k \in Nat
  PROVE  FieldsAgree(b, f, a, A, k)
<1> DEFINE s == Fields(f, a, 6, k)
           t == Fields(b, a, 6, k)
           n == f[a + 1] * 8
           Same(j) == t[j] = s[j] /\ (s[j] = NotFound \/ s[j] \in 0 .. A - 1)
<1>1. /\ s[0] = a + 6 /\ \A j \in 1 .. k : s[j] = NextField(f, a, s[j - 1])
      /\ t[0] = a + 6 /\ \A j \in 1 .. k : t[j] = NextField(b, a, t[j - 1])
  BY FieldsRun
<1> HIDE DEF s, t
<1>2. n \in Nat /\ a + n <= A /\ b[a + 1] * 8 = n
  <2>1. a + 1 \in 0 .. A - 1
    OBVIOUS
  <2> QED BY <2>1
<1>3. Same(0)
  BY <1>1
<1>4. ASSUME NEW j \in 1 .. k, Same(j - 1) PROVE Same(j)
  <2> DEFINE p == s[j - 1]
  <2>1. CASE p = NotFound
    <3>1. t[j] = NotFound /\ s[j] = NotFound
      BY <1>1, <1>4, <2>1 DEF NextField
    <3> QED BY <3>1
  <2>2. CASE p \in 0 .. A - 1
    <3> DEFINE l == EncLen(f, p)
               q == p + 1 + l
    <3>1. b[p] = f[p] /\ f[p] \in 0 .. 255
      BY <2>2
    <3>2. EncLen(b, p) = l /\ l \in Nat /\ (EndOfFields(b, p) <=> EndOfFields(f, p))
      BY <3>1 DEF EncLen, EncType, EndOfFields
    <3>3. t[j - 1] = p
      BY <1>4
    <3> HIDE DEF l
    <3>4. s[j] = IF p = NotFound \/ EndOfFields(f, p) THEN NotFound ELSE IF q >= a + n THEN NotFound ELSE q
      BY <1>1 DEF NextField, l
    <3>5. t[j] = IF p = NotFound \/ EndOfFields(b, p) THEN NotFound ELSE IF q >= a + n THEN NotFound ELSE q
      BY <1>1, <1>2, <3>2, <3>3 DEF NextField
    <3>6. q \in Nat
      BY <2>2, <3>2
    <3> HIDE DEF q, p, n
    <3>7. q >= a + n \/ q \in 0 .. A - 1
      BY <1>2, <3>6
    <3> QED BY <3>2, <3>4, <3>5, <3>7
  <2> QED BY <1>4, <2>1, <2>2
<1> DEFINE Differ == {j \in 0 .. k : ~Same(j)}
<1>5. Differ = {}
  <2> SUFFICES ASSUME Differ # {} PROVE FALSE
    OBVIOUS
  <2> HIDE DEF Same
  <2>1. PICK m \in Differ : \A y \in Differ : m <= y
    <3>1. Differ \subseteq Nat
      OBVIOUS
    <3> HIDE DEF Differ
    <3> QED BY <3>1, NatMin
  <2>2. m \in 0 .. k /\ ~Same(m) /\ m # 0
    BY <1>3
  <2>3. m - 1 \in 0 .. k /\ m \in 1 .. k /\ ~(m <= m - 1)
    BY <2>2
  <2>4. Same(m - 1)
    BY <2>1, <2>3
  <2> QED BY <1>4, <2>2, <2>3, <2>4
<1> QED BY <1>5 DEF s, t, FieldsAgree

\* The text of a field in front of the records depends on its bytes only.
LEMMA TextSame ==
  ASSUME NEW f, NEW b, NEW A \in Nat, \A i \in 0 .. A - 1 : b[i] = f[i] /\ f[i] \in 0 .. 255,
         NEW q \in Nat, q < A, q + EncLen(f, q) < A
  PROVE  FieldText(b, q) = FieldText(f, q)
<1> DEFINE n == EncLen(f, q)
           p == q + 1
<1>1. b[q] = f[q] /\ f[q] \in 0 .. 255
  <2>1. q \in 0 .. A - 1
    OBVIOUS
  <2> QED BY <2>1
<1>2. EncLen(b, q) = n /\ n \in Nat /\ EncType(b, q) = EncType(f, q) /\ (EndOfFields(b, q) <=> EndOfFields(f, q)) /\ p + n <= A
  BY <1>1 DEF EncLen, EncType, EndOfFields
<1> HIDE DEF n
<1>3. \A i \in q .. p + n - 1 : b[i] = f[i]
  BY <1>2
<1>4. BcdText(b, p, n) = BcdText(f, p, n)
  <2>1. ASSUME NEW k \in 1 .. 2 * n PROVE b[p + ((k - 1) \div 2)] = f[p + ((k - 1) \div 2)]
    <3>1. (k - 1) \div 2 \in 0 .. n - 1
      BY <1>2
    <3> DEFINE g == (k - 1) \div 2
    <3> HIDE DEF g
    <3>2. g \in 0 .. n - 1
      BY <3>1 DEF g
    <3>3. p + g \in q .. p + n - 1
      BY <1>2, <3>2
    <3>4. b[p + g] = f[p + g]
      BY <1>3, <3>3
    <3> QED BY <3>4 DEF g
  <2> HIDE DEF p
  <2> QED BY <2>1 DEF BcdText
<1>5. Ascii6Text(b, p, n) = Ascii6Text(f, p, n)
  <2> DEFINE At(c, k) == LET i == p + 3 * ((k - 1) \div 4) IN
                 32 + (CASE k % 4 = 1 -> c[i] % 64
                         [] k % 4 = 2 -> (c[i] \div 64) + (c[i + 1] % 16) * 4
                         [] k % 4 = 3 -> (c[i + 1] \div 16) + (c[i + 2] % 4) * 16
                         [] OTHER -> c[i + 2] \div 4)
             N == (n \div 3) * 4 + (n % 3)
  <2>1. ASSUME NEW k \in 1 .. N PROVE At(b, k) = At(f, k)
    <3> DEFINE g == (k - 1) \div 4
               m == n \div 3
               r == n % 3
               u == k % 4
               i == p + 3 * g
    <3>1. m \in Nat /\ r \in 0 .. 2 /\ n = 3 * m + r
      BY <1>2
    <3>2. g \in Nat /\ u \in 0 .. 3 /\ k \in Nat /\ (u = 0 => k = 4 * g + 4) /\ (u # 0 => k = 4 * g + u)
      <4>1. k \in Nat /\ k >= 1
        BY <3>1
      <4> QED BY <4>1
    <3>3. k <= 4 * m + r
      BY <3>1
    <3> HIDE DEF g, m, r, u
    <3>4. i \in q .. p + n - 1 /\ (u # 1 => i + 1 \in q .. p + n - 1) /\ (u \notin {1, 2} => i + 2 \in q .. p + n - 1)
      <4>1. CASE g < m
        BY <1>2, <3>1, <3>2, <4>1
      <4>2. CASE g >= m
        BY <1>2, <3>1, <3>2, <3>3, <4>2
      <4> QED BY <3>1, <3>2, <4>1, <4>2
    <3> HIDE DEF i
    <3>5. b[i] = f[i] /\ (u # 1 => b[i + 1] = f[i + 1]) /\ (u \notin {1, 2} => b[i + 2] = f[i + 2])
      BY <1>3, <3>4
    <3>6. \A c : At(c, k) = 32 + (CASE u = 1 -> c[i] % 64
                         [] u = 2 -> (c[i] \div 64) + (c[i + 1] % 16) * 4
                         [] u = 3 -> (c[i + 1] \div 16) + (c[i + 2] % 4) * 16
                         [] OTHER -> c[i + 2] \div 4)
      BY DEF i, g, u
    <3> HIDE DEF At
    <3>7. CASE u = 1
      BY <3>5, <3>6, <3>7
    <3>8. CASE u = 2
      BY <3>5, <3>6, <3>8
    <3>9. CASE u = 3
      BY <3>5, <3>6, <3>9
    <3>10. CASE u \notin {1, 2, 3}
      BY <3>5, <3>6, <3>10
    <3> QED BY <3>7, <3>8, <3>9, <3>10
  <2>2. Ascii6Text(b, p, n) = [k \in 1 .. N |-> At(b, k)] /\ Ascii6Text(f, p, n) = [k \in 1 .. N |-> At(f, k)]
    BY DEF Ascii6Text
  <2> HIDE DEF At
  <2>3. [k \in 1 .. N |-> At(b, k)] = [k \in 1 .. N |-> At(f, k)]
    BY <2>1, Zenon
  <2> QED BY <2>2, <2>3
<1>6. [k \in 1 .. n |-> b[q + k]] = [k \in 1 .. n |-> f[q + k]]
  <2>1. \A k \in 1 .. n : b[q + k] = f[q + k]
    BY <1>2, <1>3
  <2> QED BY <2>1, Zenon
<1> QED BY <1>2, <1>4, <1>5, <1>6 DEF FieldText, n

\* The fields of the board read from a good buffer are the factory's.
LEMMA BoardKept ==
  ASSUME NEW f, Recorded(f), NEW b, Good(f, b), NEW k \in 0 .. 4
  PROVE  BoardField(b, k) = BoardField(f, k)
<1> DEFINE A == AreaOf(f, 5)
           a == InfoArea(f, 3)
           n == f[a + 1] * 8
<1>1. A \in Nat /\ InfoArea(b, 3) = a /\ \A i \in 0 .. A - 1 : b[i] = f[i] /\ f[i] \in 0 .. 255
  BY InfoSame
<1>2. a # NotFound => a \in Nat /\ a + 8 <= A /\ f[a + 1] \in 0 .. 255 /\ a + f[a + 1] * 8 <= A /\ b[a + 1] = f[a + 1]
  <2>1. a # NotFound => a \in Nat /\ a + 8 <= A /\ f[a + 1] \in 0 .. 255 /\ a + f[a + 1] * 8 <= A
    BY InfoSame
  <2> HIDE DEF a, A
  <2>2. a # NotFound => a + 1 \in 0 .. A - 1
    BY <1>1, <2>1
  <2> QED BY <1>1, <2>1, <2>2
<1>3. /\ FieldAt(f, 3, 6, k) = IF a = NotFound \/ f[a + 1] * 8 <= 6 THEN NotFound ELSE Fields(f, a, 6, k)[k]
      /\ FieldAt(b, 3, 6, k) = IF a = NotFound \/ b[a + 1] * 8 <= 6 THEN NotFound ELSE Fields(b, a, 6, k)[k]
  BY <1>1, FieldAtIs
<1> DEFINE q == FieldAt(f, 3, 6, k)
<1>4. q # NotFound => q + EncLen(f, q) < A
  BY DEF Recorded, WellFormed
<1> HIDE DEF A, a, q
<1>5. FieldAt(b, 3, 6, k) = q /\ (q = NotFound \/ q \in 0 .. A - 1)
  <2>1. CASE a = NotFound \/ f[a + 1] * 8 <= 6
    BY <1>2, <1>3, <2>1 DEF q
  <2>2. CASE ~(a = NotFound \/ f[a + 1] * 8 <= 6)
    <3>1. a \in Nat /\ a + 8 <= A /\ f[a + 1] \in 0 .. 255 /\ a + f[a + 1] * 8 <= A /\ f[a + 1] * 8 > 6 /\ k \in Nat /\ k \in 0 .. k
      BY <1>2, <2>2
    <3>2. Fields(b, a, 6, k)[k] = Fields(f, a, 6, k)[k] /\ (Fields(f, a, 6, k)[k] = NotFound \/ Fields(f, a, 6, k)[k] \in 0 .. A - 1)
      <4>1. \A i \in 0 .. A - 1 : b[i] = f[i] /\ f[i] \in 0 .. 255
        BY <1>1
      <4>2. FieldsAgree(b, f, a, A, k)
        BY <1>1, <3>1, <4>1, FieldsSame, Zenon
      <4> QED BY <3>1, <4>2 DEF FieldsAgree
    <3> QED BY <1>2, <1>3, <2>2, <3>2 DEF q
  <2> QED BY <2>1, <2>2
<1>6. CASE q = NotFound
  BY <1>5, <1>6 DEF BoardField, ReadField, q
<1>7. CASE q # NotFound
  <2>1. q \in Nat /\ q < A /\ q + EncLen(f, q) < A
    BY <1>1, <1>4, <1>5, <1>7
  <2>2. FieldText(b, q) = FieldText(f, q)
    BY <1>1, <2>1, TextSame
  <2> QED BY <1>5, <1>7, <2>2 DEF BoardField, ReadField, q
<1> QED BY <1>6, <1>7

\* So is its date.
LEMMA DateKept ==
  ASSUME NEW f, Recorded(f), NEW b, Good(f, b)
  PROVE  MfgDateTime(b) = MfgDateTime(f)
<1> DEFINE A == AreaOf(f, 5)
           a == InfoArea(f, 3)
<1>1. /\ A \in Nat /\ InfoArea(b, 3) = a /\ \A i \in 0 .. A - 1 : b[i] = f[i] /\ f[i] \in 0 .. 255
      /\ a # NotFound => a \in Nat /\ a + 8 <= A
  BY InfoSame
<1> HIDE DEF A, a
<1>2. a # NotFound => b[a + 3] = f[a + 3] /\ b[a + 4] = f[a + 4] /\ b[a + 5] = f[a + 5]
  BY <1>1
<1> QED BY <1>1, <1>2 DEF MfgDateTime, a

\* The MAC addresses, the fields of the board and its date are the factory's in the copy and in the EEPROM, at any
\* cut between two pages and after any refused page, for an image whose header to change lies in one page.
THEOREM IdentityStays == FruSpec => []IdentityKept
<1>1. FruInv => IdentityKept
  <2> SUFFICES ASSUME FruInv, HeaderInOnePage(factory), NEW b \in {fru, eeprom}
               PROVE  /\ \A k \in 0 .. 3 : MacAddr(b, k) = MacAddr(factory, k)
                      /\ \A k \in 0 .. 4 : BoardField(b, k) = BoardField(factory, k)
                      /\ MfgDateTime(b) = MfgDateTime(factory)
    BY DEF IdentityKept
  <2>1. CASE ~Recorded(factory)
    BY <2>1 DEF FruInv, FruImages
  <2>2. CASE Recorded(factory)
    <3>1. Good(factory, b)
      BY <2>2 DEF FruInv, FruImages
    <3> QED BY <2>2, <3>1, AddressKept, BoardKept, DateKept
  <2> QED BY <2>1, <2>2
<1> QED BY <1>1, FruStart, FruStep, PTL DEF FruSpec
=============================================================================
