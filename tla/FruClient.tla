----------------------------- MODULE FruClient -----------------------------
(* FruClientDxe: the FRU inventory of the board in an EEPROM, a copy of it in memory, and the one    *)
(* operation that changes it, SetBoardPowerPolicy, which rewrites the EEPROM page by page.  Power may *)
(* fail and a page may be refused between any two pages.  Buffers are functions from offsets to bytes.*)
EXTENDS Integers, Sequences, FiniteSets, FiniteSetsExt

CONSTANTS Size,     \* mFruBufSize
          Page,     \* EEPROM_WRITE_SIZE
          OemId,    \* 0, or the manufacturer that prefixes a new record
          PolicyValues, \* values of the power policy
          Images    \* contents of the EEPROM as it left the factory

VARIABLES eeprom,  \* contents of the EEPROM
          fru,     \* mFruBuf
          fruPc,   \* "off", "absent" (no protocol), "ready", "writing"
          page,    \* next offset to write
          want,    \* the policy of the last call
          fruRet,  \* status of the last call
          wasEnded, \* history: did the chain of records have its end when the last call looked at it?
          factory  \* history: the image the EEPROM started with
fruVars == <<eeprom, fru, fruPc, page, want, fruRet, wasEnded, factory>>

MAC0 == 192  PPOL == 196  MAC1 == 198  MAC2 == 199  MACN == 200
NotFound == -1
Sum(b, p, n) == LET s[k \in 0..n] == IF k = 0 THEN 0 ELSE (s[k - 1] + b[p + k - 1]) % 256 IN s[n]   \* CalcChecksum
Negated(s) == (256 - s) % 256 \* 256 - checksum, in a byte

----------------------------------------------------------------------------
(* Areas and records. *)

CommonHeaderOk(b) == b[0] % 16 = 1 /\ Sum(b, 0, 8) = 0
AreaOf(b, i) == IF CommonHeaderOk(b) /\ b[i] # 0 /\ b[i] * 8 < Size THEN b[i] * 8 ELSE NotFound
InfoArea(b, i) == \* board (i = 3) and product (i = 4)
  LET a == AreaOf(b, i) IN IF a # NotFound /\ b[a] = 1 /\ b[a + 1] * 8 <= Size - a /\ Sum(b, a, b[a + 1] * 8) = 0 THEN a ELSE NotFound

ParseHeader(b, p) == Size - p >= 5 /\ Sum(b, p, 5) = 0
Length(b, p) == b[p + 2]
Next1(b, p) == p + 5 + Length(b, p)
CheckData(b, p) == /\ b[p + 1] % 8 = 2 /\ Size - p >= 5 + Length(b, p)
                   /\ (Sum(b, p + 5, Length(b, p)) + b[p + 3]) % 256 = 0
EndBit(b, p) == b[p + 1] >= 128
\* The records met from p on: up to the one with the end bit, or to the first header that does not add up.
Walk(b) == LET w[p \in 0..Size] == IF ~ParseHeader(b, p) THEN <<>>
                                   ELSE IF EndBit(b, p) \/ Next1(b, p) > Size THEN <<p>> ELSE <<p>> \o w[Next1(b, p)]
           IN IF AreaOf(b, 5) = NotFound THEN <<>> ELSE w[AreaOf(b, 5)]
FirstOf(s, Test(_)) == IF \E i \in DOMAIN s : Test(s[i]) THEN s[Min({i \in DOMAIN s : Test(s[i])})] ELSE NotFound
Ended(b) == Walk(b) # <<>> /\ EndBit(b, Walk(b)[Len(Walk(b))])

GetMultirecord(b, type) == FirstOf(Walk(b), LAMBDA p : b[p] = type /\ CheckData(b, p))

NoAddress == [i \in 0..5 |-> NotFound]
MacType(k) == CASE k = 0 -> MAC0 [] k = 1 -> MAC1 [] k = 2 -> MAC2 [] OTHER -> MACN
\* A record with the three bytes of a manufacturer and one without are told apart by their length.
MacAddr(b, k) ==
  LET p == GetMultirecord(b, MacType(k)) IN
  IF p = NotFound THEN NoAddress ELSE
  LET n == Length(b, p) over == IF k <= 2 THEN n - 6 ELSE (n % 6) - 1
      data == p + 5 + over at == IF k <= 2 THEN data ELSE data + 1 + 6 * (k - 3)
  IN IF over \notin {0, 3} \/ (k > 2 /\ (n < (k - 2) * 6 \/ k - 2 > b[data])) THEN NoAddress
     ELSE [i \in 0..5 |-> b[at + i]]

PowerPolicy(b) == LET p == GetMultirecord(b, PPOL)
                  IN IF p = NotFound THEN 0 ELSE IF Length(b, p) = 4 THEN b[p + 8] ELSE b[p + 5]

----------------------------------------------------------------------------
(* Fields of the board area: length and coding in one byte, then the text. *)

BcdPlus(c) == IF c < 10 THEN 48 + c ELSE CASE c = 10 -> 32 [] c = 11 -> 45 [] c = 12 -> 46 [] OTHER -> 0
BcdText(b, p, n) == [k \in 1..2 * n |-> LET c == b[p + ((k - 1) \div 2)] IN BcdPlus(IF k % 2 = 1 THEN c % 16 ELSE c \div 16)]
Ascii6Text(b, p, n) ==
  [k \in 1..((n \div 3) * 4 + (n % 3)) |->
     LET i == p + 3 * ((k - 1) \div 4) IN
     32 + (CASE k % 4 = 1 -> b[i] % 64
             [] k % 4 = 2 -> (b[i] \div 64) + (b[i + 1] % 16) * 4
             [] k % 4 = 3 -> (b[i + 1] \div 16) + (b[i + 2] % 4) * 16
             [] OTHER -> b[i + 2] \div 4)]
EncLen(b, p) == b[p] % 64
EncType(b, p) == b[p] \div 64
EndOfFields(b, p) == EncType(b, p) = 3 /\ EncLen(b, p) = 1
\* The buffer of the caller is taken to be long enough.
FieldText(b, p) == IF EncLen(b, p) = 0 \/ EndOfFields(b, p) THEN <<>>
                   ELSE CASE EncType(b, p) = 1 -> BcdText(b, p + 1, EncLen(b, p))
                          [] EncType(b, p) = 2 -> Ascii6Text(b, p + 1, EncLen(b, p))
                          [] OTHER -> [k \in 1..EncLen(b, p) |-> b[p + k]]
\* Where the k-th field of an area starts, behind the skipped bytes and the k fields before it.
FieldAt(b, i, skip, k) ==
  LET a == InfoArea(b, i)
      at[j \in 0..k] == IF j = 0 THEN a + skip ELSE IF at[j - 1] = NotFound \/ EndOfFields(b, at[j - 1]) THEN NotFound
                        ELSE LET q == at[j - 1] + 1 + EncLen(b, at[j - 1]) IN IF q >= a + b[a + 1] * 8 THEN NotFound ELSE q
  IN IF a = NotFound \/ b[a + 1] * 8 <= skip THEN NotFound ELSE at[k]
ReadField(b, i, skip, k) == LET q == FieldAt(b, i, skip, k) IN IF q = NotFound THEN <<>> ELSE FieldText(b, q)
BoardField(b, k) == ReadField(b, 3, 6, k)
ProductField(b, k) == ReadField(b, 4, 3, k)
MfgDateTime(b) == LET a == InfoArea(b, 3) IN IF a = NotFound THEN 0 ELSE b[a + 3] + 256 * b[a + 4] + 65536 * b[a + 5]

----------------------------------------------------------------------------
(* FruInternalsSetMultirecord, for a record of one byte in format 2. *)

Oem(i) == <<OemId, OemId \div 256, OemId \div 65536>>[i + 1] % 256
\* Lengths 1 and 4: the byte, alone or behind the manufacturer.
WithData(b, p, n, v) == [i \in DOMAIN b |-> IF i = p + 5 + n - 1 THEN v ELSE IF n = 4 /\ i \in p + 5..p + 7 THEN Oem(i - p - 5) ELSE b[i]]
WithChecksums(b, p) ==
  LET b1 == [b EXCEPT ![p + 3] = Negated(Sum(b, p + 5, Length(b, p)))] IN [b1 EXCEPT ![p + 4] = Negated(Sum(b1, p, 4))]
Rewritable(b, p) == b[p] = PPOL /\ b[p + 1] % 128 = 2 /\ Length(b, p) \in {1, 4}
NotLastForgotten(b, p) == b
NotLast(b, p) == [b EXCEPT ![p + 1] = @ % 128]
ClearLastBitOnly(b, p) == NotLast(b, p)
ClearLast(b, p) == LET c == NotLast(b, p) IN [c EXCEPT ![p + 4] = Negated(Sum(c, p, 4))]
Fits(at, n) == at + 10 + n + 1 + 3 < Size

SetMultirecord(b, v) == \* the changed buffer, or the buffer itself and a failure
  LET s == Walk(b)
      p == FirstOf(s, LAMBDA r : Rewritable(b, r))
      last == s[Len(s)]
      at == IF EndBit(b, last) THEN last ELSE Next1(b, last) \* MrecArea; MrecHdr stays at the last good one
      q == at + 5 + Length(b, last)
      n == IF OemId = 0 THEN 1 ELSE 4
      b1 == [ClearLast(b, last) EXCEPT ![q] = PPOL, ![q + 1] = 130, ![q + 2] = n]
  IN IF s = <<>> THEN [ok |-> FALSE, buf |-> b]
     ELSE IF p # NotFound THEN [ok |-> TRUE, buf |-> WithChecksums(WithData(b, p, Length(b, p), v), p)]
     ELSE IF ~Fits(at, Length(b, last)) THEN [ok |-> FALSE, buf |-> b]
     ELSE [ok |-> TRUE, buf |-> WithChecksums(WithData(b1, q, n, v), q)]

----------------------------------------------------------------------------
(* The boards.  A factory image has bytes, a board area with its fields in front of the records, and a chain *)
(* of records that ends inside the image with nothing written behind; or no records at all.                *)

End(b) == LET s == Walk(b) IN Next1(b, s[Len(s)])
WellFormed(f) ==
  /\ f \in [0..Size - 1 -> 0..255]
  /\ AreaOf(f, 5) # NotFound =>
       /\ Ended(f) /\ End(f) <= Size /\ \A i \in End(f)..Size - 1 : f[i] = 255
       /\ \A i \in DOMAIN Walk(f) : f[Walk(f)[i]] = PPOL => Rewritable(f, Walk(f)[i])
       /\ AreaOf(f, 3) # NotFound => AreaOf(f, 3) < AreaOf(f, 5) /\ AreaOf(f, 3) + f[AreaOf(f, 3) + 1] * 8 <= AreaOf(f, 5)
       /\ \A k \in 0..4 : LET q == FieldAt(f, 3, 6, k) IN q # NotFound => q + EncLen(f, q) < AreaOf(f, 5)

ASSUME FruAssumption == /\ Size \in Nat /\ Size >= 8 /\ Page \in Nat \ {0} /\ OemId \in Nat
                        /\ PolicyValues \subseteq 0..255 /\ \A f \in Images : WellFormed(f)

\* The bytes of a header that a rewrite changes are in one page: the checksums of a policy record, or the end bit
\* and the checksum of the last record.
HeaderInOnePage(f) ==
  LET s == Walk(f) p == FirstOf(s, LAMBDA r : Rewritable(f, r)) last == s[Len(s)]
  IN s # <<>> => IF p # NotFound THEN (p + 4) % Page # 0 ELSE \A j \in last + 2..last + 4 : j % Page # 0

----------------------------------------------------------------------------
FruInit == /\ factory \in Images /\ eeprom = factory /\ fru = factory /\ fruPc = "off"
           /\ page = 0 /\ want = NotFound /\ fruRet = "none" /\ wasEnded = FALSE

\* It reads the EEPROM, once more if that fails, and is absent if that fails too.
FruClientDxeInitialize == /\ fruPc = "off" /\ fru' = eeprom /\ fruPc' \in {"ready", "absent"}
         /\ UNCHANGED <<eeprom, page, want, fruRet, wasEnded, factory>>

SetBoardPowerPolicy ==
  /\ fruPc = "ready"
  /\ \E v \in PolicyValues :
       /\ want' = v /\ wasEnded' = Ended(fru)
       /\ LET r == SetMultirecord(fru, v) IN
          /\ fru' = r.buf
          /\ IF r.ok THEN fruPc' = "writing" /\ fruRet' = "none" ELSE fruPc' = "ready" /\ fruRet' = "failed"
  /\ page' = 0 /\ UNCHANGED <<eeprom, factory>>

Stored == [i \in DOMAIN eeprom |-> IF i \in page..page + Page - 1 THEN fru[i] ELSE eeprom[i]]
WritePage ==
  /\ fruPc = "writing" /\ eeprom' = Stored /\ page' = page + Page
  /\ IF page + Page < Size THEN UNCHANGED <<fruPc, fruRet>> ELSE fruPc' = "ready" /\ fruRet' = "success"
  /\ UNCHANGED <<fru, want, wasEnded, factory>>
\* A transfer that fails, before or after the memory took the page: the pages behind it stay as they were.
PageFails ==
  /\ fruPc = "writing" /\ eeprom' \in {eeprom, Stored} /\ fruPc' = "ready" /\ fruRet' = "failed"
  /\ UNCHANGED <<fru, page, want, wasEnded, factory>>
FruPowerCut == fruPc # "off" /\ fruPc' = "off" /\ UNCHANGED <<eeprom, fru, page, want, fruRet, wasEnded, factory>>

FruNext == FruClientDxeInitialize \/ SetBoardPowerPolicy \/ WritePage \/ PageFails \/ FruPowerCut

FruSpec == FruInit /\ [][FruNext]_fruVars

----------------------------------------------------------------------------
\* SetBoardPowerPolicy returns success only when copy and EEPROM agree, and then the policy that is read, now and
\* after any restart, is the one that was set, provided the chain of records had its end when the call began.  A
\* chain that an earlier cut left without its end is not repaired: a call may succeed whose record readers do not find.
PolicyReadBack == fruRet = "success" => eeprom = fru /\ (wasEnded => PowerPolicy(fru) = want)

\* What the factory stored besides the policy survives every rewrite, cut or refused at any page: each MAC
\* address, each field and the date of the board are found in the copy and in the EEPROM as at first.  The memory
\* writes a page at a time: if the header that is changed lies across two, a cut between them loses its record.
IdentityKept ==
  HeaderInOnePage(factory) => \A b \in {fru, eeprom} :
    /\ \A k \in 0..3 : MacAddr(b, k) = MacAddr(factory, k)
    /\ \A k \in 0..4 : BoardField(b, k) = BoardField(factory, k)
    /\ MfgDateTime(b) = MfgDateTime(factory)
=============================================================================
