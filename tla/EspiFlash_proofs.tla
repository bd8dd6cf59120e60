-------------------------- MODULE EspiFlash_proofs --------------------------
(***************************************************************************)
(* A transfer that fails damages only the sectors of disturbed requests,   *)
(* for every geometry, every failing transfer and every length of request, *)
(* as long as none has left bytes in the FIFOs.                            *)
(***************************************************************************)
EXTENDS EspiFlash, TLAPS

(***************************************************************************)
(* The inductive invariant.                                                *)
(***************************************************************************)
Writing == {"fetch", "wren", "sse", "wren2", "pp"}
Command == [op : {"none", "RDID", "EX4B", "READ", "WREN", "SSE", "PP", "RDSR"}, at : Nat, val : Content]

EspiTypes ==
  /\ flash \in [Page -> Content] /\ want \in [Page -> Content] /\ buf \in [Page -> Content]
  /\ chip \in [open : Command, wel : BOOLEAN]
  /\ drv \in [pc : {"off", "mode", "absent", "ready", "read"} \cup Writing,
              lba : Nat, n : Nat, at : Nat, val : Content]
  /\ spoiled \subseteq Page /\ stale \in BOOLEAN

\* A request is for blocks of the flash, and a write works within their sectors.
RequestInRange ==
  /\ drv.pc \in Writing \cup {"read"} => drv.lba \in Page /\ drv.n > 0 /\ drv.lba + drv.n <= Sectors * SectorSize
  /\ drv.pc \in {"wren", "sse", "wren2", "pp"} => drv.at \in Touched(drv)
  /\ drv.pc \in {"wren", "sse"} => drv.at = SectorOf(drv.at) * SectorSize

\* The pages of which something is known: none, once bytes are left in the FIFOs.
Followed == IF stale THEN {} ELSE Page \ spoiled

\* The page of a command to program that was left open has been given up.
OpenPageSpoiled == ~stale /\ chip.open.op = "PP" => chip.open.at \in spoiled

\* Page p on its way to what it should hold, in a write that nothing has disturbed.
Rewritten(p) ==
  /\ drv.pc = "fetch" => want[p] = IF p \in drv.lba .. drv.lba + drv.n - 1 THEN drv.val ELSE flash[p]
  /\ drv.pc # "fetch" => chip.open = None /\ buf[p] = want[p]
  /\ drv.pc \in {"sse", "pp"} => chip.wel
  /\ drv.pc \in {"wren", "sse"} /\ p < drv.at => flash[p] = ErasedPage
  /\ drv.pc \in {"wren2", "pp"} => flash[p] = IF p < drv.at THEN buf[p] ELSE ErasedPage

PageInv(p) ==
  IF drv.pc \in Writing /\ p \in Touched(drv) THEN Rewritten(p) ELSE flash[p] = want[p]

EspiInv == EspiTypes /\ RequestInRange /\ OpenPageSpoiled /\ \A p \in Followed : PageInv(p)

USE EspiAssumption DEF EspiAssumption

LEMMA FollowedNow == \A p \in Followed : p \in Page /\ p \notin spoiled /\ ~stale
  BY DEF Followed

LEMMA FollowedNext == \A p \in Followed' : p \in Page /\ p \notin spoiled' /\ ~stale'
  BY DEF Followed, Page

----------------------------------------------------------------------------
(***************************************************************************)
(* Sectors.                                                                *)
(***************************************************************************)
LEMMA SectorDivision ==
  ASSUME NEW p \in Nat
  PROVE  /\ SectorOf(p) \in Nat
         /\ SectorOf(p) * SectorSize <= p /\ p < SectorOf(p) * SectorSize + SectorSize
  BY DEF SectorOf

LEMMA ProductMonotone ==
  ASSUME NEW a \in Nat, NEW b \in Nat, a <= b
  PROVE  a * SectorSize <= b * SectorSize
<1>1. PICK d \in Nat : b = a + d
  <2>1. b - a \in Nat /\ b = a + (b - a)
    OBVIOUS
  <2> QED BY <2>1
<1>2. b * SectorSize = a * SectorSize + d * SectorSize
  BY <1>1
<1>3. d * SectorSize \in Nat /\ a * SectorSize \in Nat
  BY <1>1
<1> QED BY <1>2, <1>3

\* A page lies before a sector exactly if its own sector does.
LEMMA SectorOrder ==
  ASSUME NEW p \in Nat, NEW k \in Nat
  PROVE  p < k * SectorSize <=> SectorOf(p) < k
<1>1. PICK q \in Nat : q = SectorOf(p)
  BY SectorDivision
<1>2. q * SectorSize <= p /\ p < q * SectorSize + SectorSize
  BY <1>1, SectorDivision
<1>3. q * SectorSize \in Nat /\ k * SectorSize \in Nat /\ (q + 1) * SectorSize = q * SectorSize + SectorSize
  OBVIOUS
<1>4. CASE q < k
  <2>1. (q + 1) * SectorSize <= k * SectorSize
    BY <1>4, ProductMonotone
  <2> QED BY <1>1, <1>2, <1>3, <1>4, <2>1
<1>5. CASE k <= q
  <2>1. k * SectorSize <= q * SectorSize
    BY <1>5, ProductMonotone
  <2> QED BY <1>1, <1>2, <1>3, <1>5, <2>1
<1> QED BY <1>4, <1>5

LEMMA SectorStart ==
  ASSUME NEW k \in Nat
  PROVE  k * SectorSize \in Nat /\ SectorOf(k * SectorSize) = k
<1>1. k * SectorSize \in Nat /\ (k + 1) * SectorSize \in Nat /\ (k + 1) * SectorSize = k * SectorSize + SectorSize
  OBVIOUS
<1>2. PICK a \in Nat : a = k * SectorSize
  BY <1>1
<1>3. SectorOf(a) \in Nat
  BY SectorDivision
<1>4. ~(a < k * SectorSize) /\ a < (k + 1) * SectorSize
  BY <1>1, <1>2
<1>5. ~(SectorOf(a) < k) /\ SectorOf(a) < k + 1
  BY <1>4, SectorOrder
<1> QED BY <1>1, <1>2, <1>3, <1>5

LEMMA SectorMonotone ==
  ASSUME NEW p \in Nat, NEW q \in Nat, p <= q
  PROVE  SectorOf(p) <= SectorOf(q)
<1>1. SectorOf(p) \in Nat /\ SectorOf(q) \in Nat
  BY SectorDivision
<1>2. q < (SectorOf(q) + 1) * SectorSize
  BY <1>1, SectorDivision
<1>3. (SectorOf(q) + 1) * SectorSize \in Nat
  BY <1>1
<1>4. p < (SectorOf(q) + 1) * SectorSize
  BY <1>2, <1>3
<1>5. SectorOf(q) + 1 \in Nat
  BY <1>1
<1>6. SectorOf(p) < SectorOf(q) + 1
  BY <1>4, <1>5, SectorOrder
<1> QED BY <1>1, <1>6

\* Sectors do not straddle the end of the flash.
LEMMA SectorOfPage ==
  ASSUME NEW p \in Page
  PROVE  p \in Nat /\ SectorOf(p) \in 0 .. Sectors - 1
<1>1. Sectors * SectorSize \in Nat
  OBVIOUS
<1>2. p \in Nat /\ p < Sectors * SectorSize
  BY <1>1 DEF Page
<1>3. SectorOf(p) \in Nat /\ Sectors \in Nat
  BY <1>2, SectorDivision
<1>4. SectorOf(p) < Sectors
  BY <1>2, <1>3, SectorOrder
<1> QED BY <1>2, <1>3, <1>4

\* The sectors of a request are those from its first block's to its last block's.
LEMMA SectorsOfRequest ==
  ASSUME NEW r, r.lba \in Page, r.n \in Nat, r.n > 0, r.lba + r.n <= Sectors * SectorSize
  PROVE  \A p \in Page : p \in Touched(r) <=>
           SectorOf(r.lba) <= SectorOf(p) /\ SectorOf(p) <= SectorOf(r.lba + r.n - 1)
<1> DEFINE last == r.lba + r.n - 1
<1>1. Sectors * SectorSize \in Nat
  OBVIOUS
<1>2. last \in Page /\ r.lba \in Nat /\ last \in Nat /\ r.lba <= last
  BY <1>1 DEF Page
<1> HIDE DEF last
<1>3. SUFFICES ASSUME NEW p \in Page
               PROVE  p \in Touched(r) <=> SectorOf(r.lba) <= SectorOf(p) /\ SectorOf(p) <= SectorOf(last)
  BY DEF last
<1>4. p \in Touched(r) <=> \E q \in r.lba .. last : SectorOf(p) = SectorOf(q)
  BY DEF Touched, last
<1>5. ASSUME NEW q \in r.lba .. last
      PROVE  SectorOf(r.lba) <= SectorOf(q) /\ SectorOf(q) <= SectorOf(last)
  BY <1>2, <1>5, SectorMonotone
<1>6. ASSUME SectorOf(r.lba) <= SectorOf(p), SectorOf(p) <= SectorOf(last)
      PROVE  \E q \in r.lba .. last : SectorOf(p) = SectorOf(q)
  <2>1. p \in Nat
    BY SectorOfPage
  <2>2. CASE p < r.lba
    <3>1. SectorOf(p) <= SectorOf(r.lba) /\ SectorOf(p) \in Nat /\ SectorOf(r.lba) \in Nat
      BY <1>2, <2>1, <2>2, SectorMonotone, SectorDivision
    <3>2. SectorOf(p) = SectorOf(r.lba) /\ r.lba \in r.lba .. last
      BY <1>2, <1>6, <3>1
    <3> QED BY <3>2
  <2>3. CASE p > last
    <3>1. SectorOf(last) <= SectorOf(p) /\ SectorOf(p) \in Nat /\ SectorOf(last) \in Nat
      BY <1>2, <2>1, <2>3, SectorMonotone, SectorDivision
    <3>2. SectorOf(p) = SectorOf(last) /\ last \in r.lba .. last
      BY <1>2, <1>6, <3>1
    <3> QED BY <3>2
  <2>4. CASE r.lba <= p /\ p <= last
    BY <1>2, <2>1, <2>4
  <2> QED BY <1>2, <2>1, <2>2, <2>3, <2>4
<1> QED BY <1>4, <1>5, <1>6

----------------------------------------------------------------------------
(***************************************************************************)
(* The sectors that a write works on.                                      *)
(***************************************************************************)
LEMMA WriteRange ==
  ASSUME EspiTypes, RequestInRange, drv.pc \in Writing
  PROVE  /\ Adr \in Nat /\ Last \in Nat /\ Adr = SectorOf(Adr) * SectorSize
         /\ Adr \in Touched(drv) /\ Last <= Sectors * SectorSize
         /\ \A p \in Page : p \in Touched(drv) <=> Adr <= p /\ p < Last
<1> DEFINE first == SectorOf(drv.lba)
           last == SectorOf(drv.lba + drv.n - 1)
<1>1. /\ drv.lba \in Page /\ drv.n \in Nat /\ drv.n > 0 /\ drv.lba + drv.n <= Sectors * SectorSize
      /\ Sectors * SectorSize \in Nat
  BY DEF EspiTypes, RequestInRange
<1>2. drv.lba + drv.n - 1 \in Page
  BY <1>1 DEF Page
<1>3. first \in 0 .. Sectors - 1 /\ last \in 0 .. Sectors - 1
  BY <1>1, <1>2, SectorOfPage
<1>4. Adr = first * SectorSize /\ Last = (last + 1) * SectorSize
  BY DEF Adr, Last
<1>5. \A p \in Page : p \in Touched(drv) <=> first <= SectorOf(p) /\ SectorOf(p) <= last
  BY <1>1, SectorsOfRequest
<1> HIDE DEF first, last
<1>6. Adr \in Nat /\ Last \in Nat /\ SectorOf(Adr) = first /\ Last <= Sectors * SectorSize
  <2>1. first \in Nat /\ last + 1 \in Nat /\ Sectors \in Nat /\ last + 1 <= Sectors
    BY <1>3
  <2>2. first * SectorSize \in Nat /\ SectorOf(first * SectorSize) = first /\ (last + 1) * SectorSize \in Nat
    BY <2>1, SectorStart
  <2>3. (last + 1) * SectorSize <= Sectors * SectorSize
    BY <2>1, ProductMonotone
  <2> QED BY <1>4, <2>2, <2>3
<1>7. \A p \in Page : p \in Touched(drv) <=> Adr <= p /\ p < Last
  <2> SUFFICES ASSUME NEW p \in Page
               PROVE  p \in Touched(drv) <=> Adr <= p /\ p < Last
    OBVIOUS
  <2>1. p \in Nat /\ SectorOf(p) \in Nat /\ first \in Nat /\ last \in Nat /\ last + 1 \in Nat
    BY <1>3, SectorOfPage
  <2>2. p < first * SectorSize <=> SectorOf(p) < first
    BY <2>1, SectorOrder
  <2>3. p < (last + 1) * SectorSize <=> SectorOf(p) < last + 1
    BY <2>1, SectorOrder
  <2> QED BY <1>4, <1>5, <1>6, <2>1, <2>2, <2>3
<1>8. Adr \in Touched(drv)
  <2>1. first <= last
    <3>1. drv.lba \in Nat /\ drv.lba + drv.n - 1 \in Nat /\ drv.lba <= drv.lba + drv.n - 1
      BY <1>1 DEF Page
    <3> QED BY <3>1, SectorMonotone DEF first, last
  <2>2. Adr <= drv.lba
    BY <1>1, <1>4, SectorOfPage, SectorDivision DEF first
  <2>3. Adr \in Page
    BY <1>1, <1>6, <2>2 DEF Page
  <2> QED BY <1>3, <1>5, <1>6, <2>1, <2>3
<1> QED BY <1>4, <1>6, <1>7, <1>8

\* A sector is the pages from its first one on.
LEMMA SectorPages ==
  ASSUME NEW at \in Nat, at = SectorOf(at) * SectorSize, NEW p \in Nat
  PROVE  SectorOf(p) = SectorOf(at) <=> at <= p /\ p < at + SectorSize
<1>1. SectorOf(at) \in Nat /\ SectorOf(p) \in Nat
  BY SectorDivision
<1>2. PICK k \in Nat : k = SectorOf(at)
  BY <1>1
<1>3. (k + 1) * SectorSize = at + SectorSize
  BY <1>2
<1>4. (p < k * SectorSize <=> SectorOf(p) < k) /\ (p < (k + 1) * SectorSize <=> SectorOf(p) < k + 1)
  BY SectorOrder
<1> QED BY <1>1, <1>2, <1>3, <1>4

\* Behind a sector of a write comes the next one, or the end of the write.
LEMMA NextSector ==
  ASSUME EspiTypes, RequestInRange, drv.pc \in {"wren", "sse"}
  PROVE  /\ drv.at \in Page /\ drv.at + SectorSize <= Last
         /\ drv.at + SectorSize = SectorOf(drv.at + SectorSize) * SectorSize
         /\ drv.at + SectorSize < Last => drv.at + SectorSize \in Touched(drv)
<1>1. drv.at \in Touched(drv) /\ drv.at = SectorOf(drv.at) * SectorSize /\ drv.pc \in Writing
  BY DEF RequestInRange, Writing
<1>2. drv.at \in Page /\ drv.at \in Nat /\ SectorOf(drv.at) \in Nat
  BY <1>1, SectorOfPage DEF Touched
<1>3. Adr \in Nat /\ Last \in Nat /\ Last <= Sectors * SectorSize /\ Adr <= drv.at /\ drv.at < Last
  BY <1>1, <1>2, WriteRange
<1>4. PICK k \in Nat : k = SectorOf(drv.at)
  BY <1>2
<1>5. k + 1 \in Nat /\ drv.at = k * SectorSize /\ (k + 1) * SectorSize = drv.at + SectorSize
  BY <1>1, <1>4
<1>6. SectorOf(drv.at + SectorSize) = k + 1
  BY <1>5, SectorStart
<1>7. PICK m \in Nat : Last = m * SectorSize
  <2>1. drv.lba + drv.n - 1 \in Page
    <3>1. drv.lba \in Page /\ drv.n \in Nat /\ drv.n > 0 /\ drv.lba + drv.n <= Sectors * SectorSize
      BY <1>1 DEF EspiTypes, RequestInRange
    <3> QED BY <3>1 DEF Page
  <2>2. SectorOf(drv.lba + drv.n - 1) + 1 \in Nat
    BY <2>1, SectorOfPage
  <2> QED BY <2>2 DEF Last
<1>8. k < m
  BY <1>2, <1>3, <1>4, <1>7, SectorOrder
<1>9. (k + 1) * SectorSize <= m * SectorSize
  BY <1>5, <1>8, ProductMonotone
<1>10. ASSUME drv.at + SectorSize < Last
       PROVE  drv.at + SectorSize \in Touched(drv)
  <2>1. drv.at + SectorSize \in Page /\ Adr <= drv.at + SectorSize
    BY <1>2, <1>3, <1>10 DEF Page
  <2> QED BY <1>1, <1>10, <2>1, WriteRange
<1> QED BY <1>2, <1>5, <1>6, <1>7, <1>9, <1>10

LEMMA TouchedKept ==
  ASSUME NEW r, NEW s, r.lba = s.lba, r.n = s.n
  PROVE  Touched(r) = Touched(s)
  BY DEF Touched

LEMMA TouchedSector ==
  ASSUME NEW r, NEW p \in Page, NEW q \in Page, q \in Touched(r), SectorOf(p) = SectorOf(q)
  PROVE  p \in Touched(r)
  BY DEF Touched

----------------------------------------------------------------------------
(***************************************************************************)
(* What a command does to the chip and to a page.                          *)
(***************************************************************************)
ChipState == [open : Command, wel : BOOLEAN]

LEMMA NoneIsCommand == None \in Command /\ None.op = "none"
  BY DEF None, Command, Content

LEMMA ChipFields ==
  ASSUME NEW o \in Command, NEW w \in BOOLEAN
  PROVE  Chip(o, w) \in ChipState /\ Chip(o, w).open = o /\ (Chip(o, w).wel <=> w)
  BY DEF Chip, ChipState

LEMMA ActedChip ==
  ASSUME chip \in ChipState, NEW c \in Command
  PROVE  /\ Acted(c).chip \in ChipState /\ Acted(c).chip.open = None
         /\ c.op = "WREN" => Acted(c).chip.wel
         /\ c.op \notin {"WREN", "PP", "SSE"} => (Acted(c).chip.wel <=> chip.wel)
<1>1. chip.wel \in BOOLEAN
  BY DEF ChipState
<1>2. Acted(c).chip \in {Chip(None, TRUE), Chip(None, FALSE), Chip(None, chip.wel)}
  BY DEF Acted
<1>3. c.op = "WREN" => Acted(c).chip = Chip(None, TRUE)
  BY DEF Acted
<1>4. c.op \notin {"WREN", "PP", "SSE"} => Acted(c).chip = Chip(None, chip.wel)
  BY DEF Acted
<1>5. /\ Chip(None, TRUE) \in ChipState /\ Chip(None, TRUE).open = None /\ Chip(None, TRUE).wel
      /\ Chip(None, FALSE) \in ChipState /\ Chip(None, FALSE).open = None
      /\ Chip(None, chip.wel) \in ChipState /\ Chip(None, chip.wel).open = None
      /\ (Chip(None, chip.wel).wel <=> chip.wel)
  BY <1>1, NoneIsCommand, ChipFields
<1> QED BY <1>2, <1>3, <1>4, <1>5

\* The pages that a command may change.
Leaves(c, p) == (c.op = "PP" => p # c.at) /\ (c.op = "SSE" => SectorOf(p) # SectorOf(c.at))

LEMMA ActedFlash ==
  ASSUME flash \in [Page -> Content], NEW c \in Command
  PROVE  /\ Acted(c).flash \in [Page -> Content]
         /\ \A p \in Page : Leaves(c, p) => Acted(c).flash[p] = flash[p]
         /\ \A p \in Page : c.op = "SSE" /\ chip.wel /\ SectorOf(p) = SectorOf(c.at) => Acted(c).flash[p] = ErasedPage
         /\ \A p \in Page : c.op = "PP" /\ chip.wel /\ p = c.at => Acted(c).flash[p] = Programmed(flash[p], c.val)
<1>1. ErasedPage \in Content /\ Junk \in Content /\ c.val \in Content
  BY DEF Content, Command
<1>2. CASE c.op = "PP" /\ chip.wel
  <2>1. Acted(c).flash = [flash EXCEPT ![c.at] = Programmed(@, c.val)]
    BY <1>2 DEF Acted
  <2>2. c.at \in Page => Programmed(flash[c.at], c.val) \in Content
    BY <1>1 DEF Programmed
  <2> QED BY <1>1, <1>2, <2>1, <2>2 DEF Leaves
<1>3. CASE c.op = "SSE" /\ chip.wel
  <2>1. Acted(c).flash = [p \in Page |-> IF SectorOf(p) = SectorOf(c.at) THEN ErasedPage ELSE flash[p]]
    BY <1>3 DEF Acted
  <2> QED BY <1>1, <1>3, <2>1 DEF Leaves
<1>4. CASE ~(c.op = "PP" /\ chip.wel) /\ ~(c.op = "SSE" /\ chip.wel)
  <2>1. Acted(c).flash = flash
    BY <1>4 DEF Acted
  <2> QED BY <1>4, <2>1
<1> QED BY <1>2, <1>3, <1>4

\* A command that an open one swallows does to the flash what the open one does, junk included.
LEMMA SentEffect ==
  ASSUME EspiTypes, OpenPageSpoiled, ~stale, NEW c \in Command
  PROVE  /\ Sent(c).chip \in ChipState /\ Sent(c).chip.open = None
         /\ Sent(c).flash \in [Page -> Content]
         /\ \A p \in Followed : Leaves(c, p) => Sent(c).flash[p] = flash[p]
<1>1. chip \in ChipState /\ flash \in [Page -> Content] /\ chip.open \in Command /\ chip.wel \in BOOLEAN
  BY DEF EspiTypes, ChipState
<1>2. CASE chip.open = None
  <2>1. Sent(c) = Acted(c)
    BY <1>2 DEF Sent
  <2> QED BY <1>1, <2>1, ActedChip, ActedFlash DEF Followed
<1>3. CASE chip.open # None /\ chip.open.op = "PP"
  <2> DEFINE d == [chip.open EXCEPT !.val = Junk]
  <2>1. d \in Command /\ d.op = "PP" /\ d.at = chip.open.at
    BY <1>1, <1>3 DEF Command, Content
  <2>2. Sent(c) = Acted(d)
    BY <1>3 DEF Sent
  <2>3. d.at \in spoiled
    BY <1>3, <2>1 DEF OpenPageSpoiled
  <2> HIDE DEF d
  <2>4. \A p \in Followed : Leaves(d, p)
    BY <2>1, <2>3 DEF Leaves, Followed
  <2>5. Followed \subseteq Page
    BY DEF Followed
  <2> QED BY <1>1, <2>1, <2>5, <2>2, <2>4, ActedChip, ActedFlash
<1>4. CASE chip.open # None /\ chip.open.op # "PP"
  <2>1. Sent(c).flash = flash /\ Sent(c).chip = Chip(None, chip.wel)
    BY <1>4 DEF Sent
  <2> QED BY <1>1, <2>1, NoneIsCommand, ChipFields DEF Followed
<1> QED BY <1>2, <1>3, <1>4

\* Whatever becomes of a command.
LEMMA CommandEffect ==
  ASSUME EspiTypes, OpenPageSpoiled, NEW c \in Command, Good(c) \/ BadWithStatus(c)
  PROVE  /\ flash' \in [Page -> Content] /\ chip' \in ChipState /\ stale' \in BOOLEAN /\ (stale => stale')
         /\ ~stale' /\ chip'.open.op = "PP" => chip'.open.at \in spoiled \/ (c.op = "PP" /\ chip'.open.at = c.at)
         /\ ~stale' => \A p \in Followed : Leaves(c, p) => flash'[p] = flash[p]
<1>0. CASE Garbled
  <2>1. /\ flash' = [p \in Page |-> Junk] /\ stale /\ stale'
        /\ chip' \in {Chip(None, TRUE), Chip(None, FALSE)}
    BY <1>0 DEF Garbled
  <2>2. flash' \in [Page -> Content]
    BY <2>1 DEF Content
  <2> QED BY <2>1, <2>2, NoneIsCommand, ChipFields
<1>1. /\ chip \in ChipState /\ flash \in [Page -> Content] /\ chip.open \in Command /\ chip.wel \in BOOLEAN
      /\ ~stale /\ chip.open.op = "PP" => chip.open.at \in spoiled
      /\ stale \in BOOLEAN
  BY DEF EspiTypes, ChipState, OpenPageSpoiled
<1>2. CASE Good(c) /\ ~Garbled
  <2>1. flash' = Sent(c).flash /\ chip' = Sent(c).chip /\ ~stale /\ stale' = stale
    BY <1>2 DEF Good
  <2> QED BY <1>1, <2>1, SentEffect, NoneIsCommand
<1>3. CASE UNCHANGED <<chip, flash, stale>>
  BY <1>1, <1>3 DEF Followed
<1>4. CASE TransferFails(c)
  <2> DEFINE o == IF chip.open = None THEN c
                  ELSE IF chip.open.op = "PP" THEN [chip.open EXCEPT !.val = Junk] ELSE chip.open
  <2>1. chip' = [chip EXCEPT !.open = o] /\ flash' = flash /\ ~stale /\ stale' \in BOOLEAN
    BY <1>4 DEF TransferFails, OneFault
  <2>2. o \in Command /\ (o.op = "PP" => o.at \in spoiled \/ (c.op = "PP" /\ o.at = c.at))
    BY <1>1, <2>1 DEF Command, Content
  <2> HIDE DEF o
  <2>3. chip' \in ChipState /\ chip'.open = o
    BY <1>1, <2>1, <2>2 DEF ChipState
  <2> QED BY <1>1, <2>1, <2>2, <2>3
<1>5. CASE StatusFails(c)
  <2> DEFINE d == Cmd("RDSR", 0, ErasedPage)
  <2>1. flash' = Sent(c).flash /\ chip' = Chip(d, Sent(c).chip.wel) /\ ~stale /\ stale' \in BOOLEAN
    BY <1>5 DEF StatusFails, OneFault
  <2>2. d \in Command /\ d.op = "RDSR"
    BY DEF Cmd, Command, Content
  <2>3. Sent(c).chip.wel \in BOOLEAN
    BY <2>1, SentEffect DEF ChipState
  <2> HIDE DEF d
  <2>4. chip' \in ChipState /\ chip'.open = d
    BY <2>1, <2>2, <2>3, ChipFields
  <2> QED BY <2>1, <2>2, <2>4, SentEffect
<1> QED BY <1>0, <1>2, <1>3, <1>4, <1>5 DEF BadWithStatus, Bad

LEMMA CmdFields ==
  ASSUME NEW op \in {"none", "RDID", "EX4B", "READ", "WREN", "SSE", "PP", "RDSR"}, NEW at \in Nat, NEW val \in Content
  PROVE  /\ Cmd(op, at, val) \in Command
         /\ Cmd(op, at, val).op = op /\ Cmd(op, at, val).at = at /\ Cmd(op, at, val).val = val
  BY DEF Cmd, Command

\* A command that reaches a chip with no other command open, and as it was sent.
Exact(c) == Good(c) /\ ~Swallowed /\ ~stale

LEMMA GoodAlone ==
  ASSUME EspiTypes, NEW c \in Command, Exact(c)
  PROVE  /\ flash' = Acted(c).flash /\ chip'.open = None
         /\ c.op = "WREN" => chip'.wel
         /\ c.op \notin {"WREN", "PP", "SSE"} => (chip'.wel <=> chip.wel)
<1>1. chip.open = None /\ ~stale /\ Good(c)
  BY DEF Exact, Swallowed
<1>2. flash' = Acted(c).flash /\ chip' = Acted(c).chip
  BY <1>1 DEF Good, Garbled, Sent
<1>3. chip \in ChipState
  BY DEF EspiTypes, ChipState
<1> QED BY <1>2, <1>3, ActedChip

\* A step with a command c, but for the pages of a write that it does not disturb.
LEMMA CommandStep ==
  ASSUME EspiInv, NEW c \in Command, Good(c) \/ BadWithStatus(c), want' = want,
         c.op \in {"PP", "SSE"} => drv.pc \in Writing /\ c.at \in Touched(drv),
         drv'.pc \in Writing => drv.pc \in Writing /\ drv'.lba = drv.lba /\ drv'.n = drv.n,
         spoiled' \in {spoiled, spoiled \cup Touched(drv)},
         drv.pc \in Writing => Disturbed \/ (Good(c) /\ ~Swallowed)
  PROVE  /\ flash' \in [Page -> Content] /\ chip' \in ChipState /\ spoiled' \subseteq Page /\ stale' \in BOOLEAN
         /\ OpenPageSpoiled'
         /\ \A p \in Followed' :
              \/ PageInv(p)'
              \/ drv.pc \in Writing /\ Exact(c) /\ p \in Touched(drv) /\ p \notin spoiled
<1>1. EspiTypes /\ OpenPageSpoiled /\ \A p \in Followed : PageInv(p)
  BY DEF EspiInv
<1>2. /\ flash' \in [Page -> Content] /\ chip' \in ChipState /\ stale' \in BOOLEAN /\ (stale => stale')
      /\ ~stale' /\ chip'.open.op = "PP" => chip'.open.at \in spoiled \/ (c.op = "PP" /\ chip'.open.at = c.at)
      /\ ~stale' => \A p \in Followed : Leaves(c, p) => flash'[p] = flash[p]
  BY <1>1, CommandEffect
<1>3. Touched(drv) \subseteq Page /\ spoiled \subseteq Page
  BY <1>1 DEF Touched, EspiTypes
<1>4. OpenPageSpoiled'
  <2>1. chip'.open.op = "PP" => chip'.open # None
    BY NoneIsCommand
  <2>2. ~stale' /\ c.op = "PP" => spoiled' = spoiled \cup Touched(drv) \/ chip'.open = None
    BY <1>1, <1>2, GoodAlone DEF Disturbed, Exact
  <2> QED BY <1>2, <2>1, <2>2 DEF OpenPageSpoiled
<1>5. ASSUME NEW p \in Followed'
      PROVE  \/ PageInv(p)'
             \/ drv.pc \in Writing /\ Exact(c) /\ p \in Touched(drv) /\ p \notin spoiled
  <2>1. p \in Page /\ p \notin spoiled /\ PageInv(p) /\ p \in Followed /\ ~stale' /\ ~stale
    BY <1>1, <1>2 DEF Followed
  <2>2. CASE drv.pc \notin Writing
    <3>1. flash[p] = want[p] /\ Leaves(c, p)
      BY <2>1, <2>2 DEF PageInv, Leaves
    <3>2. flash'[p] = want'[p]
      BY <1>2, <2>1, <3>1
    <3> QED BY <2>2, <3>2 DEF PageInv
  <2>3. CASE drv.pc \in Writing /\ p \notin Touched(drv)
    <3>1. Leaves(c, p)
      BY <1>3, <2>1, <2>3, TouchedSector DEF Leaves
    <3>2. flash'[p] = want'[p]
      BY <1>2, <2>1, <2>3, <3>1 DEF PageInv
    <3>3. drv'.pc \in Writing => Touched(drv') = Touched(drv)
      BY TouchedKept
    <3>4. Touched(drv)' = Touched(drv')
      BY DEF Touched, Page, SectorOf
    <3> QED BY <2>3, <3>2, <3>3, <3>4 DEF PageInv
  <2>4. CASE drv.pc \in Writing /\ p \in Touched(drv)
    BY <1>1, <1>2, <2>1, <2>4, FollowedNext DEF Disturbed, Exact
  <2> QED BY <2>2, <2>3, <2>4
<1> QED BY <1>2, <1>3, <1>4, <1>5

----------------------------------------------------------------------------
(***************************************************************************)
(* The actions keep the invariant.                                         *)
(***************************************************************************)
LEMMA NoRequestFields ==
  ASSUME NEW pc
  PROVE  /\ NoRequest(pc).pc = pc /\ NoRequest(pc).lba = 0 /\ NoRequest(pc).n = 0
         /\ NoRequest(pc).at = 0 /\ NoRequest(pc).val = ErasedPage
  BY DEF NoRequest

Requests == [pc : {"off", "mode", "absent", "ready", "read"} \cup Writing, lba : Nat, n : Nat, at : Nat, val : Content]

LEMMA NoRequestTyped ==
  ASSUME NEW pc \in {"off", "mode", "absent", "ready"}
  PROVE  NoRequest(pc) \in Requests /\ NoRequest(pc).pc = pc /\ pc \notin Writing /\ pc # "read"
  BY DEF NoRequest, Requests, Content, Writing

\* Steps that end with no request, outside a write.
LEMMA QuietStep ==
  ASSUME EspiInv, NEW c \in Command, Good(c) \/ BadWithStatus(c), c.op \notin {"PP", "SSE"},
         drv.pc \notin Writing, spoiled' \in {spoiled, spoiled \cup Touched(drv)}, UNCHANGED <<want, buf>>,
         NEW pc \in {"off", "mode", "absent", "ready"}, drv' = NoRequest(pc)
  PROVE  EspiInv'
<1>1. drv' \in Requests /\ drv'.pc \notin Writing /\ drv'.pc # "read"
  BY NoRequestTyped
<1>2. /\ flash' \in [Page -> Content] /\ chip' \in ChipState /\ spoiled' \subseteq Page /\ OpenPageSpoiled'
      /\ stale' \in BOOLEAN
      /\ \A p \in Followed' : PageInv(p)'
  BY <1>1, CommandStep
<1>3. EspiTypes'
  BY <1>1, <1>2 DEF EspiInv, EspiTypes, Requests, ChipState, Command, Content, Page
<1>4. RequestInRange'
  BY <1>1 DEF RequestInRange, Writing
<1> QED BY <1>2, <1>3, <1>4 DEF EspiInv, Page

LEMMA DetectKeeps == EspiInv /\ Detect => EspiInv'
<1> SUFFICES ASSUME EspiInv, Detect
             PROVE  EspiInv'
  OBVIOUS
<1> DEFINE c == Cmd("RDID", 0, ErasedPage)
<1>1. c \in Command /\ c.op = "RDID"
  BY CmdFields DEF Content
<1>2. Good(c) \/ BadWithStatus(c)
  BY DEF Detect, BadWithStatus
<1>3. PICK pc \in {"mode", "absent"} : drv' = NoRequest(pc)
  BY DEF Detect
<1> HIDE DEF c
<1> QED BY <1>1, <1>2, <1>3, QuietStep DEF Detect, Writing

LEMMA Mode3Keeps == EspiInv /\ Mode3 => EspiInv'
<1> SUFFICES ASSUME EspiInv, Mode3
             PROVE  EspiInv'
  OBVIOUS
<1> DEFINE c == Cmd("EX4B", 0, ErasedPage)
<1>1. c \in Command /\ c.op = "EX4B"
  BY CmdFields DEF Content
<1>2. Good(c) \/ BadWithStatus(c)
  BY DEF Mode3
<1>3. PICK pc \in {"ready", "absent"} : drv' = NoRequest(pc)
  BY DEF Mode3
<1> HIDE DEF c
<1> QED BY <1>1, <1>2, <1>3, QuietStep DEF Mode3, Writing

LEMMA ReadDoneKeeps == EspiInv /\ ReadDone => EspiInv'
<1> SUFFICES ASSUME EspiInv, ReadDone
             PROVE  EspiInv'
  OBVIOUS
<1> DEFINE c == Cmd("READ", drv.at, ErasedPage)
<1>1. c \in Command /\ c.op = "READ"
  BY CmdFields DEF Content, EspiInv, EspiTypes
<1>2. Good(c) \/ BadWithStatus(c)
  BY DEF ReadDone, BadWithStatus
<1>3. spoiled' \in {spoiled, spoiled \cup Touched(drv)}
  BY DEF ReadDone, Disturbed, Undisturbed
<1> HIDE DEF c
<1> QED BY <1>1, <1>2, <1>3, QuietStep DEF ReadDone, Writing

LEMMA ReadBlocksKeeps == EspiInv /\ ReadBlocks => EspiInv'
<1> SUFFICES ASSUME EspiInv, NEW lba \in Page, NEW n \in 1 .. MaxBlocks,
                    drv.pc = "ready", InRange(lba, n), drv' = Serve("read", lba, n, ErasedPage),
                    UNCHANGED <<flash, chip, stale, buf, adrMode, want, spoiled, failures>>
             PROVE  EspiInv'
  BY DEF ReadBlocks
<1>1. lba \in Nat /\ n \in Nat /\ n > 0 /\ lba + n <= Sectors * SectorSize
  BY DEF InRange, Page
<1>2. drv' \in Requests /\ drv'.pc = "read" /\ drv'.lba = lba /\ drv'.n = n
  BY <1>1 DEF Serve, Requests, Content
<1>3. EspiTypes'
  BY <1>2 DEF EspiInv, EspiTypes, Requests, Command, Content, Page
<1>4. RequestInRange'
  BY <1>1, <1>2 DEF RequestInRange, Page
<1>5. OpenPageSpoiled'
  BY DEF EspiInv, OpenPageSpoiled
<1>6. ASSUME NEW p \in Followed'
      PROVE  PageInv(p)'
  BY <1>2 DEF EspiInv, PageInv, Writing, Followed, Page
<1> QED BY <1>3, <1>4, <1>5, <1>6 DEF EspiInv, Page

LEMMA WriteBlocksKeeps == EspiInv /\ WriteBlocks => EspiInv'
<1> SUFFICES ASSUME EspiInv, NEW lba \in Page, NEW n \in 1 .. MaxBlocks, NEW v \in PageData,
                    drv.pc = "ready", InRange(lba, n), drv' = Serve("fetch", lba, n, v),
                    want' = [p \in Page |-> IF p \in lba .. lba + n - 1 THEN v ELSE want[p]],
                    UNCHANGED <<flash, chip, stale, buf, adrMode, spoiled, failures>>
             PROVE  EspiInv'
  BY DEF WriteBlocks
<1>1. lba \in Nat /\ n \in Nat /\ n > 0 /\ lba + n <= Sectors * SectorSize /\ v \in Content
  BY DEF InRange, Page, Content
<1>2. /\ drv' \in Requests /\ drv'.pc = "fetch" /\ drv'.lba = lba /\ drv'.n = n /\ drv'.val = v
      /\ drv'.pc \in Writing
  BY <1>1 DEF Serve, Requests, Writing
<1>3. EspiTypes'
  BY <1>1, <1>2 DEF EspiInv, EspiTypes, Requests, Command, Content, Page
<1>4. RequestInRange'
  BY <1>1, <1>2 DEF RequestInRange, Page
<1>5. OpenPageSpoiled'
  BY DEF EspiInv, OpenPageSpoiled
<1>6. ASSUME NEW p \in Followed'
      PROVE  PageInv(p)'
  <2>1. flash'[p] = flash[p] /\ flash[p] = want[p] /\ p \in Page
    BY DEF EspiInv, PageInv, Writing, Followed, Page
  <2>2. want'[p] = IF p \in drv'.lba .. drv'.lba + drv'.n - 1 THEN drv'.val ELSE flash'[p]
    BY <1>2, <2>1
  <2>3. CASE p \in Touched(drv)'
    BY <1>2, <2>2, <2>3 DEF PageInv, Rewritten
  <2>4. CASE p \notin Touched(drv)'
    <3>1. p \notin lba .. lba + n - 1
      BY <1>2, <2>4, FollowedNow, FollowedNext DEF Touched, Page, SectorOf
    <3> QED BY <1>2, <2>1, <2>4, <3>1 DEF PageInv
  <2> QED BY <2>3, <2>4
<1> QED BY <1>3, <1>4, <1>5, <1>6 DEF EspiInv, Page

\* Steps within a write: what is left to show for a page that its failures have not disturbed.
LEMMA WriteStep ==
  ASSUME EspiInv, NEW c \in Command, Good(c) \/ BadWithStatus(c),
         Disturbed \/ (Good(c) /\ Undisturbed), want' = want, buf' \in [Page -> Content],
         drv.pc \in Writing, c.op \in {"PP", "SSE"} => c.at \in Touched(drv),
         \/ drv' = NoRequest("ready")
         \/ /\ drv' = [drv EXCEPT !.pc = drv'.pc, !.at = drv'.at]
            /\ drv'.pc \in {"wren", "sse", "wren2", "pp"} /\ drv'.at \in Touched(drv)
            /\ drv'.pc \in {"wren", "sse"} => drv'.at = SectorOf(drv'.at) * SectorSize,
         \A p \in Followed' : Exact(c) /\ p \in Touched(drv) /\ Rewritten(p) => PageInv(p)'
  PROVE  EspiInv'
<1>1. EspiTypes /\ RequestInRange /\ \A p \in Followed : PageInv(p)
  BY DEF EspiInv
<1>2. Touched(drv) \subseteq Page /\ Page \subseteq Nat
  BY DEF Touched, Page
<1>3. spoiled' \in {spoiled, spoiled \cup Touched(drv)} /\ (Disturbed \/ (Good(c) /\ ~Swallowed))
  BY DEF Disturbed, Undisturbed
<1>4. \/ drv' \in Requests /\ drv'.pc = "ready"
      \/ /\ drv' \in Requests /\ drv'.pc \in {"wren", "sse", "wren2", "pp"} /\ drv'.at \in Touched(drv)
         /\ drv'.lba = drv.lba /\ drv'.n = drv.n
  <2>1. CASE drv' = NoRequest("ready")
    BY <2>1, NoRequestTyped
  <2>2. CASE /\ drv' = [drv EXCEPT !.pc = drv'.pc, !.at = drv'.at]
             /\ drv'.pc \in {"wren", "sse", "wren2", "pp"} /\ drv'.at \in Touched(drv)
    <3>1. drv \in Requests /\ drv'.at \in Nat /\ drv'.pc \in Writing
      BY <1>1, <1>2, <2>2 DEF EspiTypes, Requests, Writing
    <3> QED BY <2>2, <3>1 DEF Requests
  <2> QED BY <2>1, <2>2
<1>5. drv'.pc \in Writing => drv'.lba = drv.lba /\ drv'.n = drv.n
  BY <1>4 DEF Writing
<1>6. /\ flash' \in [Page -> Content] /\ chip' \in ChipState /\ spoiled' \subseteq Page /\ OpenPageSpoiled'
      /\ stale' \in BOOLEAN
      /\ \A p \in Followed' :
           \/ PageInv(p)'
           \/ Exact(c) /\ p \in Touched(drv) /\ p \notin spoiled
  BY <1>3, <1>5, CommandStep
<1>7. \A p \in Followed' : PageInv(p)'
  <2> SUFFICES ASSUME NEW p \in Followed', Exact(c) /\ p \in Touched(drv) /\ p \notin spoiled
               PROVE  PageInv(p)'
    BY <1>6
  <2>1. Rewritten(p)
    BY <1>1, FollowedNext DEF PageInv, Followed, Exact
  <2> QED BY <2>1
<1>8. EspiTypes'
  BY <1>1, <1>4, <1>6 DEF EspiTypes, Requests, ChipState, Command, Content, Page
<1>9. RequestInRange'
  <2>1. CASE drv'.pc = "ready"
    BY <2>1 DEF RequestInRange, Writing
  <2>2. CASE drv'.pc # "ready"
    <3>1. Touched(drv)' = Touched(drv') /\ Touched(drv') = Touched(drv)
      BY <1>4, <2>2, TouchedKept DEF Touched, Page, SectorOf
    <3>2. drv'.lba \in Page /\ drv'.n > 0 /\ drv'.lba + drv'.n <= Sectors * SectorSize
      BY <1>1, <1>4, <2>2 DEF RequestInRange
    <3>3. drv'.pc \in {"wren", "sse"} => drv'.at = SectorOf(drv'.at) * SectorSize
      BY <2>2, NoRequestTyped
    <3> QED BY <1>4, <2>2, <3>1, <3>2, <3>3 DEF RequestInRange, Page, SectorOf
  <2> QED BY <2>1, <2>2
<1> QED BY <1>6, <1>7, <1>8, <1>9 DEF EspiInv, Page

\* What an undisturbed write has to show for a page, in its next state.
LEMMA NextPage ==
  ASSUME EspiTypes, NEW p \in Page, p \in Touched(drv), drv'.lba = drv.lba, drv'.n = drv.n,
         drv'.pc \in {"wren", "sse", "wren2", "pp"}, chip'.open = None, buf'[p] = want'[p],
         drv'.pc \in {"sse", "pp"} => chip'.wel,
         drv'.pc \in {"wren", "sse"} /\ p < drv'.at => flash'[p] = ErasedPage,
         drv'.pc \in {"wren2", "pp"} => flash'[p] = IF p < drv'.at THEN buf'[p] ELSE ErasedPage
  PROVE  PageInv(p)'
<1>1. Touched(drv)' = Touched(drv') /\ Touched(drv') = Touched(drv)
  BY TouchedKept DEF Touched, Page, SectorOf
<1>2. Rewritten(p)'
  BY DEF Rewritten, None
<1> QED BY <1>1, <1>2 DEF PageInv, Writing

\* The next request of a step within a write.
LEMMA Moved ==
  ASSUME drv \in Requests, NEW pc, NEW at, drv' = [drv EXCEPT !.pc = pc, !.at = at]
  PROVE  /\ drv' = [drv EXCEPT !.pc = drv'.pc, !.at = drv'.at]
         /\ drv'.pc = pc /\ drv'.at = at /\ drv'.lba = drv.lba /\ drv'.n = drv.n
  BY DEF Requests

LEMMA FetchKeeps == EspiInv /\ Fetch => EspiInv'
<1> SUFFICES ASSUME EspiInv, Fetch
             PROVE  EspiInv'
  OBVIOUS
<1> DEFINE c == Cmd("READ", Adr, ErasedPage)
           junk == [p \in Page |-> Junk]
<1>1. EspiTypes /\ RequestInRange /\ drv \in Requests /\ drv.pc = "fetch" /\ drv.pc \in Writing
  BY DEF EspiInv, EspiTypes, Requests, Fetch, Writing
<1>2. Adr \in Nat /\ Adr \in Touched(drv) /\ Adr = SectorOf(Adr) * SectorSize
      /\ \A p \in Page : p \in Touched(drv) => Adr <= p
  BY <1>1, WriteRange
<1>3. c \in Command /\ c.op = "READ"
  BY <1>2, CmdFields DEF Content
<1>4. Good(c) \/ BadWithStatus(c)
  BY DEF Fetch, BadWithStatus
<1>5. Disturbed \/ (Good(c) /\ Undisturbed)
  BY DEF Fetch
<1>6. /\ drv' = [drv EXCEPT !.pc = drv'.pc, !.at = drv'.at] /\ drv'.pc = "wren" /\ drv'.at = Adr
      /\ drv'.lba = drv.lba /\ drv'.n = drv.n
  BY <1>1, Moved DEF Fetch
<1>7. Merge(junk) \in [Page -> Content] /\ Merge(flash) \in [Page -> Content]
  BY <1>1 DEF Merge, Content, EspiTypes
<1>8. buf' \in {Merge(junk), Merge(flash)} /\ (Exact(c) => buf' = Merge(flash) \/ Disturbed)
  BY DEF Fetch, Exact
<1>9. want' = want
  BY DEF Fetch
<1> HIDE DEF c, junk
<1>10. ASSUME NEW p \in Followed', Exact(c) /\ p \in Touched(drv) /\ Rewritten(p)
       PROVE  PageInv(p)'
  <2> USE <1>10
  <2>1. flash' = Acted(c).flash /\ chip'.open = None
    BY <1>1, <1>3, GoodAlone
  <2>2. flash'[p] = flash[p]
    BY <1>1, <1>3, <2>1, ActedFlash DEF EspiTypes, Leaves
  <2>3. CASE buf' = Merge(flash)
    <3>1. buf'[p] = want'[p]
      BY <1>1, <1>9, <2>3, FollowedNow, FollowedNext DEF Merge, Rewritten
    <3>2. ~(p < Adr)
      BY <1>2, FollowedNow, FollowedNext DEF Page
    <3> QED BY <1>1, <1>6, <2>1, <3>1, <3>2, NextPage, FollowedNow, FollowedNext
  <2>4. CASE Disturbed
    BY <2>4, FollowedNow, FollowedNext DEF Disturbed
  <2> QED BY <1>8, <2>3, <2>4
<1> QED BY <1>1, <1>2, <1>3, <1>4, <1>5, <1>6, <1>7, <1>8, <1>9, <1>10, WriteStep

\* EspiWren, before an erasure and before a page.
LEMMA WrenKeeps == EspiInv /\ (EraseWren \/ WriteWren) => EspiInv'
<1> SUFFICES ASSUME EspiInv, EraseWren \/ WriteWren
             PROVE  EspiInv'
  OBVIOUS
<1> DEFINE c == Cmd("WREN", 0, ErasedPage)
           next == IF drv.pc = "wren" THEN "sse" ELSE "pp"
<1>1. EspiTypes /\ RequestInRange /\ drv \in Requests /\ drv.pc \in {"wren", "wren2"} /\ drv.pc \in Writing
  BY DEF EspiInv, EspiTypes, Requests, EraseWren, WriteWren, Wren, Writing
<1>2. Adr \in Nat /\ Adr \in Touched(drv) /\ Adr = SectorOf(Adr) * SectorSize
  BY <1>1, WriteRange
<1>3. c \in Command /\ c.op = "WREN"
  BY CmdFields DEF Content
<1>4. /\ Good(c) \/ BadWithStatus(c)
      /\ Disturbed \/ (Good(c) /\ Undisturbed)
      /\ want' = want /\ buf' = buf /\ buf' \in [Page -> Content]
  BY <1>1 DEF EraseWren, WriteWren, Wren, EspiTypes
<1>5. \/ drv' = [drv EXCEPT !.pc = next]
      \/ drv' = [drv EXCEPT !.pc = "wren2", !.at = Adr] /\ (Disturbed \/ ~chip'.wel)
      \/ drv' = NoRequest("ready") /\ (Disturbed \/ ~chip'.wel)
  BY DEF EraseWren, WriteWren, Wren, SkipErase, EndWrite
<1> HIDE DEF c
<1>6. CASE drv' = [drv EXCEPT !.pc = next]
  <2>1. drv' = [drv EXCEPT !.pc = next, !.at = drv.at]
    BY <1>1, <1>6 DEF Requests
  <2>2. /\ drv' = [drv EXCEPT !.pc = drv'.pc, !.at = drv'.at] /\ drv'.pc = next /\ drv'.at = drv.at
        /\ drv'.lba = drv.lba /\ drv'.n = drv.n
    BY <1>1, <2>1, Moved
  <2>3. /\ drv'.pc \in {"sse", "pp"} /\ (drv'.pc = "sse" <=> drv.pc = "wren") /\ drv.at \in Touched(drv)
        /\ drv'.pc \in {"wren", "sse"} => drv'.at = SectorOf(drv'.at) * SectorSize
    BY <1>1, <2>2 DEF RequestInRange
  <2>4. ASSUME NEW p \in Followed', Exact(c) /\ p \in Touched(drv) /\ Rewritten(p)
        PROVE  PageInv(p)'
    <3> USE <2>4
    <3>1. flash' = Acted(c).flash /\ chip'.open = None /\ chip'.wel
      BY <1>1, <1>3, GoodAlone
    <3>2. flash'[p] = flash[p]
      BY <1>1, <1>3, <3>1, ActedFlash DEF EspiTypes, Leaves
    <3>3. buf[p] = want[p]
      BY <1>1 DEF Rewritten
    <3>4. /\ drv.pc = "wren" /\ p < drv.at => flash[p] = ErasedPage
          /\ drv.pc = "wren2" => flash[p] = IF p < drv.at THEN buf[p] ELSE ErasedPage
      BY DEF Rewritten
    <3> QED BY <1>1, <1>4, <2>2, <2>3, <3>1, <3>2, <3>3, <3>4, NextPage, FollowedNow, FollowedNext
  <2> QED BY <1>1, <1>3, <1>4, <2>2, <2>3, <2>4, WriteStep
<1>7. ASSUME Disturbed \/ ~chip'.wel, NEW p \in Followed', Exact(c) /\ p \in Touched(drv)
      PROVE  FALSE
  <2>1. chip'.wel
    BY <1>1, <1>3, <1>7, GoodAlone
  <2> QED BY <1>7, <2>1, FollowedNow, FollowedNext DEF Disturbed
<1>8. CASE drv' = [drv EXCEPT !.pc = "wren2", !.at = Adr] /\ (Disturbed \/ ~chip'.wel)
  <2>1. drv' = [drv EXCEPT !.pc = drv'.pc, !.at = drv'.at] /\ drv'.pc = "wren2" /\ drv'.at = Adr
    BY <1>1, <1>8, Moved
  <2> QED BY <1>1, <1>2, <1>3, <1>4, <1>7, <1>8, <2>1, WriteStep
<1>9. CASE drv' = NoRequest("ready") /\ (Disturbed \/ ~chip'.wel)
  BY <1>1, <1>3, <1>4, <1>7, <1>9, WriteStep
<1> QED BY <1>5, <1>6, <1>8, <1>9

LEMMA EraseSectorKeeps == EspiInv /\ EraseSector => EspiInv'
<1> SUFFICES ASSUME EspiInv, EraseSector
             PROVE  EspiInv'
  OBVIOUS
<1> DEFINE c == Cmd("SSE", drv.at, ErasedPage)
<1>1. /\ EspiTypes /\ RequestInRange /\ drv \in Requests /\ drv.pc = "sse" /\ drv.pc \in Writing
      /\ drv.at \in Nat /\ drv.at \in Touched(drv) /\ drv.at = SectorOf(drv.at) * SectorSize
  BY DEF EspiInv, EspiTypes, Requests, RequestInRange, EraseSector, Writing
<1>2. /\ Adr \in Nat /\ Last \in Nat /\ Adr \in Touched(drv) /\ Adr = SectorOf(Adr) * SectorSize
      /\ \A p \in Page : p \in Touched(drv) => Adr <= p /\ p < Last
  BY <1>1, WriteRange
<1>3. c \in Command /\ c.op = "SSE" /\ c.at = drv.at
  BY <1>1, CmdFields DEF Content
<1>4. /\ Good(c) \/ BadWithStatus(c)
      /\ Disturbed \/ (Good(c) /\ Undisturbed)
      /\ want' = want /\ buf' = buf /\ buf' \in [Page -> Content]
  BY <1>1 DEF EraseSector, EspiTypes
<1>5. \/ /\ drv' = [drv EXCEPT !.pc = "wren", !.at = drv.at + SectorSize]
         /\ drv.at + SectorSize < Last
      \/ /\ drv' = [drv EXCEPT !.pc = "wren2", !.at = Adr]
         /\ Disturbed \/ ~(drv.at + SectorSize < Last)
  BY <1>1 DEF EraseSector, SkipErase, Requests
<1> HIDE DEF c
<1>6. ASSUME NEW p \in Followed', Exact(c) /\ p \in Touched(drv) /\ Rewritten(p)
      PROVE  /\ chip'.open = None /\ buf'[p] = want'[p]
             /\ p < drv.at + SectorSize => flash'[p] = ErasedPage
  <2> USE <1>6
  <2>1. flash' = Acted(c).flash /\ chip'.open = None
    BY <1>1, <1>3, GoodAlone
  <2>2. chip.wel /\ buf[p] = want[p] /\ (p < drv.at => flash[p] = ErasedPage)
    BY <1>1 DEF Rewritten
  <2>3. p \in Nat /\ p \in Page
    BY FollowedNow, FollowedNext DEF Page
  <2>4. SectorOf(p) = SectorOf(drv.at) <=> drv.at <= p /\ p < drv.at + SectorSize
    BY <1>1, <2>3, SectorPages
  <2>5. flash \in [Page -> Content]
    BY <1>1 DEF EspiTypes
  <2>6. SectorOf(p) = SectorOf(drv.at) => flash'[p] = ErasedPage
    BY <1>3, <2>1, <2>2, <2>3, <2>5, ActedFlash
  <2>7. SectorOf(p) # SectorOf(drv.at) => flash'[p] = flash[p]
    BY <1>3, <2>1, <2>3, <2>5, ActedFlash DEF Leaves
  <2> QED BY <1>1, <1>4, <2>1, <2>2, <2>3, <2>4, <2>6, <2>7
<1>7. CASE /\ drv' = [drv EXCEPT !.pc = "wren", !.at = drv.at + SectorSize]
           /\ drv.at + SectorSize < Last
  <2>1. /\ drv' = [drv EXCEPT !.pc = drv'.pc, !.at = drv'.at] /\ drv'.pc = "wren" /\ drv'.at = drv.at + SectorSize
        /\ drv'.lba = drv.lba /\ drv'.n = drv.n
    BY <1>1, <1>7, Moved
  <2>2. drv'.at \in Touched(drv) /\ drv'.at = SectorOf(drv'.at) * SectorSize
    BY <1>1, <1>7, <2>1, NextSector
  <2>3. ASSUME NEW p \in Followed', Exact(c) /\ p \in Touched(drv) /\ Rewritten(p)
        PROVE  PageInv(p)'
    BY <1>1, <1>6, <2>1, <2>3, NextPage, FollowedNow, FollowedNext
  <2> QED BY <1>1, <1>3, <1>4, <2>1, <2>2, <2>3, WriteStep
<1>8. CASE /\ drv' = [drv EXCEPT !.pc = "wren2", !.at = Adr]
           /\ Disturbed \/ ~(drv.at + SectorSize < Last)
  <2>1. /\ drv' = [drv EXCEPT !.pc = drv'.pc, !.at = drv'.at] /\ drv'.pc = "wren2" /\ drv'.at = Adr
        /\ drv'.lba = drv.lba /\ drv'.n = drv.n
    BY <1>1, <1>8, Moved
  <2>2. ASSUME NEW p \in Followed', Exact(c) /\ p \in Touched(drv) /\ Rewritten(p)
        PROVE  PageInv(p)'
    <3>1. ~(drv.at + SectorSize < Last)
      BY <1>8, <2>2, FollowedNow, FollowedNext DEF Disturbed
    <3>2. p \in Nat /\ Adr <= p /\ p < Last
      BY <1>2, <2>2, FollowedNow, FollowedNext DEF Page
    <3>3. p < drv.at + SectorSize /\ ~(p < Adr)
      BY <1>1, <1>2, <3>1, <3>2
    <3> QED BY <1>1, <1>6, <2>1, <2>2, <3>3, NextPage, FollowedNow, FollowedNext
  <2> QED BY <1>1, <1>2, <1>3, <1>4, <2>1, <2>2, WriteStep
<1> QED BY <1>5, <1>7, <1>8

LEMMA WritePageKeeps == EspiInv /\ WritePage => EspiInv'
<1> SUFFICES ASSUME EspiInv, WritePage
             PROVE  EspiInv'
  OBVIOUS
<1> DEFINE c == Cmd("PP", drv.at, buf[drv.at])
<1>1. /\ EspiTypes /\ RequestInRange /\ drv \in Requests /\ drv.pc = "pp" /\ drv.pc \in Writing
      /\ drv.at \in Nat /\ drv.at \in Touched(drv) /\ drv.at \in Page
  BY DEF EspiInv, EspiTypes, Requests, RequestInRange, WritePage, Writing, Touched
<1>2. /\ Adr \in Nat /\ Last \in Nat /\ Last <= Sectors * SectorSize
      /\ \A p \in Page : p \in Touched(drv) <=> Adr <= p /\ p < Last
  BY <1>1, WriteRange
<1>3. c \in Command /\ c.op = "PP" /\ c.at = drv.at /\ c.val = buf[drv.at]
  <2>1. buf[drv.at] \in Content
    BY <1>1 DEF EspiTypes
  <2> QED BY <1>1, <2>1, CmdFields
<1>4. /\ Good(c) \/ BadWithStatus(c)
      /\ Disturbed \/ (Good(c) /\ Undisturbed)
      /\ want' = want /\ buf' = buf /\ buf' \in [Page -> Content]
  BY <1>1 DEF WritePage, EspiTypes
<1>5. \/ /\ drv' = [drv EXCEPT !.pc = "wren2", !.at = drv.at + 1]
         /\ drv.at + 1 < Last
      \/ /\ drv' = NoRequest("ready")
         /\ Disturbed \/ ~(drv.at + 1 < Last)
  BY <1>1 DEF WritePage, EndWrite, Requests
<1> HIDE DEF c
<1>6. ASSUME NEW p \in Followed', Exact(c) /\ p \in Touched(drv) /\ Rewritten(p)
      PROVE  /\ chip'.open = None /\ buf'[p] = want'[p]
             /\ flash'[p] = IF p < drv.at + 1 THEN buf'[p] ELSE ErasedPage
  <2> USE <1>6
  <2>1. flash' = Acted(c).flash /\ chip'.open = None
    BY <1>1, <1>3, GoodAlone
  <2>2. chip.wel /\ buf[p] = want[p] /\ flash[p] = IF p < drv.at THEN buf[p] ELSE ErasedPage
    BY <1>1 DEF Rewritten
  <2>3. p \in Nat /\ p \in Page
    BY FollowedNow, FollowedNext DEF Page
  <2>4. flash \in [Page -> Content]
    BY <1>1 DEF EspiTypes
  <2>5. CASE p = drv.at
    <3>1. flash'[p] = Programmed(flash[p], c.val)
      BY <1>3, <2>1, <2>2, <2>3, <2>4, <2>5, ActedFlash
    <3>2. flash[p] = ErasedPage
      BY <2>2, <2>3, <2>5
    <3> QED BY <1>1, <1>3, <1>4, <2>1, <2>2, <2>5, <3>1, <3>2 DEF Programmed
  <2>6. CASE p # drv.at
    <3>1. flash'[p] = flash[p]
      BY <1>3, <2>1, <2>3, <2>4, <2>6, ActedFlash DEF Leaves
    <3> QED BY <1>1, <1>4, <2>1, <2>2, <2>3, <2>6, <3>1
  <2> QED BY <2>5, <2>6
<1>7. CASE /\ drv' = [drv EXCEPT !.pc = "wren2", !.at = drv.at + 1]
           /\ drv.at + 1 < Last
  <2>1. /\ drv' = [drv EXCEPT !.pc = drv'.pc, !.at = drv'.at] /\ drv'.pc = "wren2" /\ drv'.at = drv.at + 1
        /\ drv'.lba = drv.lba /\ drv'.n = drv.n
    BY <1>1, <1>7, Moved
  <2>2. drv'.at \in Touched(drv)
    <3>1. drv.at + 1 \in Page /\ Adr <= drv.at + 1
      <4>1. Sectors * SectorSize \in Nat /\ Adr <= drv.at
        BY <1>1, <1>2
      <4> QED BY <1>1, <1>2, <1>7, <4>1 DEF Page
    <3> QED BY <1>2, <1>7, <2>1, <3>1
  <2>3. ASSUME NEW p \in Followed', Exact(c) /\ p \in Touched(drv) /\ Rewritten(p)
        PROVE  PageInv(p)'
    BY <1>1, <1>6, <2>1, <2>3, NextPage, FollowedNow, FollowedNext
  <2> QED BY <1>1, <1>3, <1>4, <2>1, <2>2, <2>3, WriteStep
<1>8. CASE /\ drv' = NoRequest("ready")
           /\ Disturbed \/ ~(drv.at + 1 < Last)
  <2>1. ASSUME NEW p \in Followed', Exact(c) /\ p \in Touched(drv) /\ Rewritten(p)
        PROVE  PageInv(p)'
    <3>1. ~(drv.at + 1 < Last)
      BY <1>8, <2>1, FollowedNow, FollowedNext DEF Disturbed
    <3>2. p \in Nat /\ p < Last
      BY <1>2, <2>1, FollowedNow, FollowedNext DEF Page
    <3>3. p < drv.at + 1
      BY <1>1, <1>2, <3>1, <3>2
    <3>4. flash'[p] = want'[p] /\ drv'.pc \notin Writing
      BY <1>6, <1>8, <2>1, <3>3, NoRequestTyped
    <3> QED BY <3>4 DEF PageInv
  <2> QED BY <1>1, <1>3, <1>4, <1>8, <2>1, WriteStep
<1> QED BY <1>5, <1>7, <1>8

----------------------------------------------------------------------------
(***************************************************************************)
(* The theorem.                                                            *)
(***************************************************************************)
\* The invariant that the proof goes by: how far a write is with every page that nothing
\* has disturbed, from the copy in the buffer over the erased sector to the new page.
\* Of the pages it says nothing once bytes are left in the FIFOs; that requests stay in range
\* holds even then.
THEOREM EspiInvariant == EspiFlashSpec => []EspiInv
<1>1. ASSUME EspiFlashInit
      PROVE  EspiInv
  <2>1. drv \in Requests /\ drv.pc \notin Writing /\ drv.pc # "read"
    BY <1>1, NoRequestTyped DEF EspiFlashInit
  <2>2. chip \in ChipState /\ chip.open.op = "none"
    <3>1. FALSE \in BOOLEAN
      OBVIOUS
    <3>2. chip = [open |-> None, wel |-> FALSE]
      BY <1>1 DEF EspiFlashInit
    <3> QED BY <3>1, <3>2, NoneIsCommand DEF ChipState
  <2>3. EspiTypes
    <3>1. flash \in [Page -> Content] /\ want = flash /\ buf \in [Page -> Content] /\ spoiled = {} /\ stale = FALSE
      BY <1>1 DEF EspiFlashInit, Content
    <3> QED BY <2>1, <2>2, <3>1 DEF EspiTypes, Requests, ChipState
  <2>4. RequestInRange
    BY <2>1 DEF RequestInRange, Writing
  <2>5. \A p \in Followed : PageInv(p)
    BY <1>1, <2>1 DEF EspiFlashInit, PageInv
  <2> QED BY <2>2, <2>3, <2>4, <2>5 DEF EspiInv, OpenPageSpoiled
<1>2. ASSUME EspiInv, [EspiFlashNext]_espiVars
      PROVE  EspiInv'
  <2>1. CASE UNCHANGED espiVars
    <3>1. UNCHANGED <<flash, chip, stale, drv, buf, want, spoiled>> /\ Page' = Page
      BY <2>1 DEF espiVars, Page
    <3>2. Touched(drv)' = Touched(drv)
      BY <3>1 DEF Touched, Page, SectorOf
    <3>3. EspiTypes'
      BY <1>2, <3>1 DEF EspiInv, EspiTypes, Command, Content
    <3>4. RequestInRange'
      BY <1>2, <3>1, <3>2 DEF EspiInv, RequestInRange, Writing, SectorOf
    <3>5. OpenPageSpoiled'
      BY <1>2, <3>1 DEF EspiInv, OpenPageSpoiled
    <3>6. ASSUME NEW p \in Followed'
          PROVE  PageInv(p)'
      <4>1. PageInv(p)
        BY <1>2, <3>1, FollowedNow, FollowedNext DEF EspiInv, Followed
      <4>2. Rewritten(p) => Rewritten(p)'
        BY <3>1 DEF Rewritten, None
      <4> QED BY <3>1, <3>2, <4>1, <4>2 DEF PageInv, Writing
    <3> QED BY <3>1, <3>3, <3>4, <3>5, <3>6 DEF EspiInv
  <2> QED BY <1>2, <2>1, DetectKeeps, Mode3Keeps, ReadBlocksKeeps, ReadDoneKeeps, WriteBlocksKeeps,
            FetchKeeps, WrenKeeps, EraseSectorKeeps, WritePageKeeps DEF EspiFlashNext
<1> QED BY <1>1, <1>2, PTL DEF EspiFlashSpec

\* EspiLib and EspiFlashBlockIoDxe: a transfer that fails, and the commands that meet the chip
\* with its select still down, damage no sector but those of the requests they belong to, as
\* long as no failure has left bytes in the FIFOs.
THEOREM EspiDamageConfined == EspiFlashSpec => []DamageConfined
<1>1. EspiInv => DamageConfined
  BY DEF EspiInv, PageInv, DamageConfined, Writing, Followed
<1> QED BY <1>1, EspiInvariant, PTL
=============================================================================
