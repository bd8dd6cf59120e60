---------------------------- MODULE SdFvb_proofs ----------------------------
(***************************************************************************)
(* The variable store on the card: RAM and card agree but where a transfer *)
(* failed or block data went astray, no driver writes outside its request  *)
(* but where a request to the volume replaced the ARGUMENT of another, and *)
(* an identified card stays ready, for every geometry, every request,      *)
(* every failing command and power losses.                                 *)
(***************************************************************************)
EXTENDS SdFvbDxe, TLAPS

(***************************************************************************)
(* The inductive invariant of the volume and the block device.             *)
(***************************************************************************)
EraseTuples == {t \in Nat \X Nat : (t[1] + t[2]) * BlockSize <= VarSize}

FvbRecords == [pc : {"off", "ident", "absent", "bootread", "ready", "read", "next", "fetch", "store"},
               at : Nat, left : Nat, todo : Seq(EraseTuples) \cup {<<"install">>}]
BlkAtRest  == {"off", "ident", "absent", "ready"}
BlkRecords == [pc : BlkAtRest \cup {"issue", "count", "mode", "arg", "command", "data", "end"},
               op : {"none", "read", "write"}, lba : Nat, left : Nat, val : Val]

StoreTypes ==
  /\ media \in [Cell -> Val] /\ mirror \in [Offset -> Val] /\ buffer \in [0 .. BlockSize - 1 -> Val]
  /\ suspect \subseteq Offset
  /\ fvb \in FvbRecords /\ blk \in BlkRecords

\* The callers' requests, as far as they are still to be served.
Served ==
  /\ fvb.at + fvb.left <= VarSize
  /\ fvb.pc = "next" => fvb.todo \in Seq(EraseTuples)
  /\ blk.lba + blk.left <= VarBlock \/ VarBase + VarSize <= blk.lba * BlockSize \/ blk.left = 0
  /\ blk.pc \notin BlkAtRest => blk.left > 0

\* The block that is about to be stored is the one on the card, with the mirror's cells in it.
BlockReady ==
  fvb.pc = "store" =>
    /\ fvb.left > 0
    /\ \A a \in Cell : BlockOf(a) = AtBlock =>
         buffer[a % BlockSize] = IF a - VarBase \in PartOffsets THEN mirror[a - VarBase] ELSE media[a]

Agree == \A o \in Offset \ suspect : mirror[o] = media[VarBase + o]

StoreInv == StoreTypes /\ Served /\ BlockReady /\ Agree

(***************************************************************************)
(* The inductive invariant of the card.                                    *)
(***************************************************************************)
CardRecords == [kind : {"sd", "mmc", "none"}, csd : Nat, width : {1, 4, 8},
                st : {"off", "idle", "ready", "ident", "stby", "tran"}]

IdentRecords == [who : Driver \cup {"none"}, path : {"none", "mmc", "sd", "done", "failed"}, k : Nat, try : Nat]

CardTypes ==
  /\ card \in CardRecords /\ ident \in IdentRecords
  /\ DOMAIN host = {"clk", "width", "stuck", "busy", "cut"}
  /\ host.width \in {1, 4, 8} /\ host.clk \in {"off", "init", "default"}
  /\ total \in [Driver -> BOOLEAN]

\* What the sequences have achieved before their k-th step.
MmcProgress(k) ==
  /\ k >= 9  => card.st = "tran"
  /\ k >= 10 => card.width = 8
  /\ k >= 12 => host.width = 8
  /\ k >= 13 => host.clk = "default"
SdProgress(k) ==
  /\ k >= 11 => card.st = "tran"
  /\ k >= 12 => card.width = 4
  /\ k >= 14 => host.width = 4
  /\ k >= 15 => host.clk = "default"

IdentProgress ==
  /\ ident.path = "mmc" => MmcProgress(ident.k)
  /\ ident.path = "sd" => SdProgress(ident.k)
  /\ ident.path = "failed" => outcome = "failed"
  /\ ident.path \in {"none", "done"} /\ outcome = "ok" =>
       card.st = "tran" /\ host.clk = "default" /\ WidthsAgree

CardInv == CardTypes /\ IdentProgress

----------------------------------------------------------------------------
(***************************************************************************)
(* The tables of the identification.                                       *)
(***************************************************************************)
LEMMA RowTable ==
  ASSUME NEW r \in Rows
  PROVE  /\ r[4] \in {"off", "idle", "ready", "ident", "stby", "tran"}
         /\ r[1] \in {"CMD7", "CMD6", "ACMD6", "CMD13", "EXTCSD"} => r[4] = "tran"
         /\ r[1] \notin {"WIDTH4", "WIDTH8", "CLKDEF", "CLKINIT", "INIT"}
<1>1. CASE r \in ResetRows
  BY <1>1 DEF ResetRows
<1>2. CASE r \in OcrRows
  BY <1>2 DEF OcrRows
<1>3. CASE r \in AddressRows
  BY <1>3 DEF AddressRows
<1>4. CASE r \in WidthRows
  BY <1>4 DEF WidthRows
<1>5. CASE r \in RegisterRows
  BY <1>5 DEF RegisterRows
<1> QED BY <1>1, <1>2, <1>3, <1>4, <1>5 DEF Rows

LEMMA CommandTable == Commands \cap {"WIDTH4", "WIDTH8", "INIT"} = {}
  BY RowTable DEF Commands

LEMMA MmcTable ==
  /\ Len(MmcPath) = 13 /\ MmcPath[8] = "CMD7" /\ MmcPath[9] = "CMD6" /\ MmcPath[10] = "CMD13"
  /\ MmcPath[11] = "WIDTH8" /\ MmcPath[12] = "CLKDEF" /\ MmcPath[13] = "EXTCSD"
  BY DEF MmcPath

LEMMA SdTable ==
  /\ Len(SdPath) = 14 /\ SdPath[10] = "CMD7" /\ SdPath[11] = "ACMD6" /\ SdPath[12] = "CMD13"
  /\ SdPath[13] = "WIDTH4" /\ SdPath[14] = "CLKDEF"
  BY DEF SdPath

LEMMA PathTable == DOMAIN Path = {"mmc", "sd"} /\ Path["mmc"] = MmcPath /\ Path["sd"] = SdPath
  BY DEF Path

\* The step at hand, for the steps that matter to a card that is ready.
LEMMA RunningStep ==
  ASSUME CardTypes, NEW c, Running(c)
  PROVE  \/ /\ ident.path = "mmc" /\ ident.k <= 13
            /\ ident.k >= 8 => \/ ident.k = 8 /\ c = "CMD7"
                               \/ ident.k = 9 /\ c = "CMD6"
                               \/ ident.k = 10 /\ c = "CMD13"
                               \/ ident.k = 11 /\ c = "WIDTH8"
                               \/ ident.k = 12 /\ c = "CLKDEF"
                               \/ ident.k = 13 /\ c = "EXTCSD"
         \/ /\ ident.path = "sd" /\ ident.k <= 14
            /\ ident.k >= 10 => \/ ident.k = 10 /\ c = "CMD7"
                                \/ ident.k = 11 /\ c = "ACMD6"
                                \/ ident.k = 12 /\ c = "CMD13"
                                \/ ident.k = 13 /\ c = "WIDTH4"
                                \/ ident.k = 14 /\ c = "CLKDEF"
<1>1. ident.k \in Nat
  BY DEF CardTypes, IdentRecords
<1>2. ident.path \in {"mmc", "sd"} /\ ident.k <= Len(Path[ident.path]) /\ Path[ident.path][ident.k] = c
  BY PathTable DEF Running, Step
<1>3. CASE ident.path = "mmc"
  <2>1. ident.k <= 13 /\ MmcPath[ident.k] = c
    BY <1>2, <1>3, PathTable, MmcTable
  <2>2. ident.k >= 8 => ident.k \in {8, 9, 10, 11, 12, 13}
    BY <1>1, <2>1
  <2> QED BY <1>3, <2>1, <2>2, MmcTable
<1>4. CASE ident.path = "sd"
  <2>1. ident.k <= 14 /\ SdPath[ident.k] = c
    BY <1>2, <1>4, PathTable, SdTable
  <2>2. ident.k >= 10 => ident.k \in {10, 11, 12, 13, 14}
    BY <1>1, <2>1
  <2> QED BY <1>4, <2>1, <2>2, SdTable
<1> QED BY <1>2, <1>3, <1>4

----------------------------------------------------------------------------
(***************************************************************************)
(* Identification keeps the invariant of the card.                         *)
(***************************************************************************)
LEMMA ProceedFields ==
  ASSUME CardTypes, Proceed
  PROVE  ident' \in IdentRecords /\ ident'.path = ident.path /\ ident'.k = ident.k + 1
<1>1. ident \in IdentRecords /\ ident.k + 1 \in Nat /\ MaxTry \in Nat
  BY SdAssumption DEF CardTypes, IdentRecords, SdAssumption
<1>2. ident' = [ident EXCEPT !.k = ident.k + 1, !.try = MaxTry]
  BY DEF Proceed
<1> QED BY <1>1, <1>2 DEF IdentRecords

LEMMA GiveUpFields ==
  ASSUME CardTypes, GiveUp
  PROVE  /\ ident' \in IdentRecords
         /\ \/ ident'.path = "sd" /\ ident'.k = 1
            \/ ident'.path = "failed" /\ outcome' = "failed"
<1>1. ident.who \in Driver \cup {"none"} /\ ident \in IdentRecords
  BY DEF CardTypes, IdentRecords
<1>2. CASE ident' = Begin(ident.who, "sd")
  BY <1>1, <1>2, SdAssumption DEF Begin, IdentRecords, SdAssumption
<1>3. CASE ident' = [ident EXCEPT !.path = "failed"] /\ outcome' = "failed"
  BY <1>1, <1>3 DEF IdentRecords
<1> QED BY <1>2, <1>3 DEF GiveUp

\* The sequences end here or start again.
LEMMA GaveUp ==
  ASSUME CardTypes', (ident'.path = "sd" /\ ident'.k = 1) \/ (ident'.path = "failed" /\ outcome' = "failed")
  PROVE  CardInv'
  BY DEF CardInv, IdentProgress, SdProgress

LEMMA IdentInitKeeps == CardInv /\ IdentInit => CardInv'
<1> SUFFICES ASSUME CardInv, IdentInit
             PROVE  CardInv'
  OBVIOUS
<1>1. CardTypes /\ Running("INIT") /\ Proceed /\ UNCHANGED total
  BY DEF CardInv, IdentInit
<1>2. host' = HostOff /\ card' = [card EXCEPT !.st = "idle", !.width = 1]
  BY DEF IdentInit, SdInitHost
<1>3. card' \in CardRecords
  BY <1>1, <1>2 DEF CardTypes, CardRecords
<1>4. ident' \in IdentRecords /\ ident'.path = ident.path /\ ident'.k = ident.k + 1 /\ ident.k \in Nat
  BY <1>1, ProceedFields DEF CardTypes, IdentRecords
<1>5. CardTypes'
  BY <1>1, <1>2, <1>3, <1>4 DEF CardTypes, HostOff, CardRecords, IdentRecords
<1>6. \/ ident'.path = "mmc" /\ ident'.k <= 8
      \/ ident'.path = "sd" /\ ident'.k <= 10
  BY <1>1, <1>4, RunningStep
<1>7. ident'.k \in Nat
  BY <1>4
<1> QED BY <1>5, <1>6, <1>7 DEF CardInv, IdentProgress, MmcProgress, SdProgress

LEMMA IdentClockKeeps == CardInv /\ IdentClock => CardInv'
<1> SUFFICES ASSUME CardInv,
                    NEW c \in {<<"CLKINIT", "init">>, <<"CLKDEF", "default">>},
                    Running(c[1]), SdClockSupply(c[2]), Proceed, UNCHANGED <<media, total, outcome, faults>>
             PROVE  CardInv'
  BY DEF IdentClock
<1>1. CardTypes /\ IdentProgress
  BY DEF CardInv
<1>2. /\ card' = card /\ host'.width = host.width /\ host'.clk = c[2]
      /\ DOMAIN host' = {"clk", "width", "stuck", "busy", "cut"}
  BY <1>1 DEF SdClockSupply, CardTypes
<1>3. ident' \in IdentRecords /\ ident'.path = ident.path /\ ident'.k = ident.k + 1 /\ ident.k \in Nat
  BY <1>1, ProceedFields DEF CardTypes, IdentRecords
<1>4. CardTypes'
  BY <1>1, <1>2, <1>3 DEF CardTypes, CardRecords, IdentRecords
<1>5. CASE c = <<"CLKINIT", "init">>
  <2>1. \/ ident'.path = "mmc" /\ ident'.k <= 8
        \/ ident'.path = "sd" /\ ident'.k <= 10
    BY <1>1, <1>3, <1>5, RunningStep
  <2>2. ident'.k \in Nat
    BY <1>3
  <2> QED BY <1>4, <2>1, <2>2 DEF CardInv, IdentProgress, MmcProgress, SdProgress
<1>6. CASE c = <<"CLKDEF", "default">>
  <2>1. \/ ident'.path = "mmc" /\ (ident'.k <= 8 \/ ident'.k = 13)
        \/ ident'.path = "sd" /\ (ident'.k <= 10 \/ ident'.k = 15)
    BY <1>1, <1>3, <1>6, RunningStep
  <2>2. ident'.k \in Nat /\ host'.clk = "default"
    BY <1>2, <1>3, <1>6
  <2> QED BY <1>1, <1>2, <1>3, <1>4, <2>1, <2>2 DEF CardInv, IdentProgress, MmcProgress, SdProgress
<1> QED BY <1>5, <1>6

LEMMA IdentWidthKeeps == CardInv /\ IdentWidth => CardInv'
<1> SUFFICES ASSUME CardInv, NEW c \in {<<"WIDTH4", 4>>, <<"WIDTH8", 8>>},
                    Running(c[1]), SdConfigBusWidth(c[2]), Proceed, UNCHANGED <<media, total, outcome, faults>>
             PROVE  CardInv'
  BY DEF IdentWidth
<1>1. CardTypes /\ IdentProgress
  BY DEF CardInv
<1>2. /\ card' = card /\ host'.width = c[2] /\ host'.clk = host.clk
      /\ DOMAIN host' = {"clk", "width", "stuck", "busy", "cut"}
  BY <1>1 DEF SdConfigBusWidth, CardTypes
<1>3. ident' \in IdentRecords /\ ident'.path = ident.path /\ ident'.k = ident.k + 1 /\ ident.k \in Nat
  BY <1>1, ProceedFields DEF CardTypes, IdentRecords
<1>4. CardTypes'
  BY <1>1, <1>2, <1>3 DEF CardTypes, CardRecords, IdentRecords
<1>5. CASE c = <<"WIDTH4", 4>>
  <2>1. \/ ident'.path = "mmc" /\ ident'.k <= 8
        \/ ident'.path = "sd" /\ (ident'.k <= 10 \/ ident'.k = 14)
    BY <1>1, <1>3, <1>5, RunningStep
  <2>2. ident'.k \in Nat /\ host'.width = 4
    BY <1>2, <1>3, <1>5
  <2> QED BY <1>1, <1>2, <1>3, <1>4, <2>1, <2>2 DEF CardInv, IdentProgress, MmcProgress, SdProgress
<1>6. CASE c = <<"WIDTH8", 8>>
  <2>1. \/ ident'.path = "mmc" /\ (ident'.k <= 8 \/ ident'.k = 12)
        \/ ident'.path = "sd" /\ ident'.k <= 10
    BY <1>1, <1>3, <1>6, RunningStep
  <2>2. ident'.k \in Nat /\ host'.width = 8
    BY <1>2, <1>3, <1>6
  <2> QED BY <1>1, <1>2, <1>3, <1>4, <2>1, <2>2 DEF CardInv, IdentProgress, MmcProgress, SdProgress
<1> QED BY <1>5, <1>6

LEMMA IdentCommandKeeps == CardInv /\ IdentCommand => CardInv'
<1> SUFFICES ASSUME CardInv, NEW r \in Rows, Running(r[1]), Proceed, UNCHANGED <<host, media, total, outcome, faults>>,
                    card' = [card EXCEPT !.st = r[4], !.width = IF r[1] \in DOMAIN Widths THEN Widths[r[1]] ELSE @]
             PROVE  CardInv'
  BY DEF IdentCommand
<1>1. CardTypes /\ IdentProgress
  BY DEF CardInv
<1> DEFINE w == IF r[1] \in DOMAIN Widths THEN Widths[r[1]] ELSE card.width
<1>2. /\ w \in {1, 4, 8}
      /\ r[1] = "CMD6" => w = 8
      /\ r[1] = "ACMD6" => w = 4
      /\ r[1] \notin {"CMD6", "ACMD6"} => w = card.width
  BY <1>1 DEF Widths, CardTypes, CardRecords
<1>3. card' = [card EXCEPT !.st = r[4], !.width = w]
  BY <1>1 DEF CardTypes, CardRecords
<1> HIDE DEF w
<1>4. card' \in CardRecords /\ card'.st = r[4] /\ card'.width = w
  BY <1>1, <1>2, <1>3, RowTable DEF CardTypes, CardRecords
<1>5. ident' \in IdentRecords /\ ident'.path = ident.path /\ ident'.k = ident.k + 1 /\ ident.k \in Nat
  BY <1>1, ProceedFields DEF CardTypes, IdentRecords
<1>6. CardTypes'
  BY <1>1, <1>4, <1>5 DEF CardTypes, CardRecords, IdentRecords
<1>7. r[1] \notin {"WIDTH4", "WIDTH8", "CLKDEF"} /\ (r[1] \in {"CMD7", "CMD6", "ACMD6", "CMD13", "EXTCSD"} => r[4] = "tran")
  BY RowTable
<1>8. CASE ident.path = "mmc"
  <2>1. \/ ident'.k <= 8
        \/ ident'.k = 9 /\ r[1] = "CMD7"
        \/ ident'.k = 10 /\ r[1] = "CMD6"
        \/ ident'.k = 11 /\ r[1] = "CMD13"
        \/ ident'.k = 14 /\ r[1] = "EXTCSD"
    BY <1>1, <1>5, <1>7, <1>8, RunningStep
  <2>2. ident'.path = "mmc" /\ ident'.k \in Nat /\ host' = host
    BY <1>5, <1>8
  <2>3. /\ ident'.k >= 9  => card'.st = "tran"
        /\ ident'.k >= 10 => card'.width = 8
        /\ ident'.k >= 12 => host'.width = 8
        /\ ident'.k >= 13 => host'.clk = "default"
    BY <1>1, <1>2, <1>4, <1>5, <1>7, <1>8, <2>1, <2>2 DEF IdentProgress, MmcProgress
  <2> QED BY <1>6, <2>2, <2>3 DEF CardInv, IdentProgress, MmcProgress
<1>9. CASE ident.path = "sd"
  <2>1. \/ ident'.k <= 10
        \/ ident'.k = 11 /\ r[1] = "CMD7"
        \/ ident'.k = 12 /\ r[1] = "ACMD6"
        \/ ident'.k = 13 /\ r[1] = "CMD13"
    BY <1>1, <1>5, <1>7, <1>9, RunningStep
  <2>2. ident'.path = "sd" /\ ident'.k \in Nat /\ host' = host
    BY <1>5, <1>9
  <2>3. /\ ident'.k >= 11 => card'.st = "tran"
        /\ ident'.k >= 12 => card'.width = 4
        /\ ident'.k >= 14 => host'.width = 4
        /\ ident'.k >= 15 => host'.clk = "default"
    BY <1>1, <1>2, <1>4, <1>5, <1>7, <1>9, <2>1, <2>2 DEF IdentProgress, SdProgress
  <2> QED BY <1>6, <2>2, <2>3 DEF CardInv, IdentProgress, SdProgress
<1> QED BY <1>1, <1>8, <1>9, RunningStep

LEMMA IdentStaysOrGivesUp ==
  ASSUME CardInv, UNCHANGED <<card, total>>, host'.width = host.width,
         DOMAIN host' = {"clk", "width", "stuck", "busy", "cut"},
         \/ host'.clk \in {"off", "init", "default"} /\ GiveUp
         \/ host'.clk = host.clk /\ ident.try > 0 /\ ident' = [ident EXCEPT !.try = @ - 1] /\ outcome' = outcome
  PROVE  CardInv'
<1>1. CardTypes /\ IdentProgress /\ ident \in IdentRecords
  BY DEF CardInv, CardTypes
<1>2. CASE host'.clk \in {"off", "init", "default"} /\ GiveUp
  <2>1. CardTypes'
    BY <1>1, <1>2, GiveUpFields DEF CardTypes, CardRecords, IdentRecords
  <2>2. (ident'.path = "sd" /\ ident'.k = 1) \/ (ident'.path = "failed" /\ outcome' = "failed")
    BY <1>1, <1>2, GiveUpFields
  <2> QED BY <2>1, <2>2, GaveUp
<1>3. CASE host'.clk = host.clk /\ ident.try > 0 /\ ident' = [ident EXCEPT !.try = @ - 1] /\ outcome' = outcome
  <2>1. ident.try - 1 \in Nat
    BY <1>1, <1>3 DEF IdentRecords
  <2>2. ident' \in IdentRecords /\ ident'.path = ident.path /\ ident'.k = ident.k
    BY <1>1, <1>3, <2>1 DEF IdentRecords
  <2>3. CardTypes'
    BY <1>1, <1>3, <2>2 DEF CardTypes, CardRecords, IdentRecords
  <2> QED BY <1>1, <1>3, <2>2, <2>3 DEF CardInv, IdentProgress, MmcProgress, SdProgress, WidthsAgree
<1> QED BY <1>2, <1>3

LEMMA IdentBusyKeeps == CardInv /\ IdentBusy => CardInv'
<1> SUFFICES ASSUME CardInv, IdentBusy
             PROVE  CardInv'
  OBVIOUS
<1>1. UNCHANGED <<card, host, total>>
  BY DEF IdentBusy, hwVars
<1>2. \/ ident.try > 0 /\ ident' = [ident EXCEPT !.try = @ - 1] /\ outcome' = outcome
      \/ GiveUp
  BY DEF IdentBusy
<1> QED BY <1>1, <1>2, IdentStaysOrGivesUp DEF CardInv, CardTypes

LEMMA IdentDevStatusKeeps == CardInv /\ IdentDevStatus => CardInv'
  BY IdentStaysOrGivesUp DEF IdentDevStatus, hwVars, CardInv, CardTypes

LEMMA IdentFailsKeeps == CardInv /\ IdentFails => CardInv'
<1> SUFFICES ASSUME CardInv, IdentFails
             PROVE  CardInv'
  OBVIOUS
<1>1. UNCHANGED <<card, total>> /\ GiveUp /\ (host' = host \/ host' = [host EXCEPT !.clk = "off"])
  BY DEF IdentFails
<1>2. DOMAIN host = {"clk", "width", "stuck", "busy", "cut"} /\ host.clk \in {"off", "init", "default"}
  BY DEF CardInv, CardTypes
<1>3. /\ host'.width = host.width /\ host'.clk \in {"off", "init", "default"}
      /\ DOMAIN host' = {"clk", "width", "stuck", "busy", "cut"}
  BY <1>1, <1>2
<1> QED BY <1>1, <1>3, IdentStaysOrGivesUp

LEMMA TotalKept ==
  ASSUME total \in [Driver -> BOOLEAN], NEW d, NEW v \in BOOLEAN
  PROVE  [total EXCEPT ![d] = v] \in [Driver -> BOOLEAN]
  OBVIOUS

LEMMA IdentDoneKeeps == CardInv /\ IdentDone => CardInv'
<1> SUFFICES ASSUME CardInv, IdentDone
             PROVE  CardInv'
  OBVIOUS
<1>1. CardTypes /\ IdentProgress /\ ident \in IdentRecords /\ ident.k \in Nat
  BY DEF CardInv, CardTypes, IdentRecords
<1>2. UNCHANGED <<card, host>> /\ ident' = [ident EXCEPT !.path = "done", !.k = 0] /\ outcome' = "ok"
  BY DEF IdentDone, hwVars
<1>3. ident' \in IdentRecords /\ ident'.path = "done"
  BY <1>1, <1>2 DEF IdentRecords
<1>4. total' \in [Driver -> BOOLEAN]
  <2>1. HasCapacity(card.kind, card.csd) \in BOOLEAN
    BY DEF HasCapacity
  <2>2. total \in [Driver -> BOOLEAN]
    BY <1>1 DEF CardTypes
  <2> QED BY <2>1, <2>2, TotalKept DEF IdentDone
<1>5. CardTypes'
  BY <1>1, <1>2, <1>3, <1>4 DEF CardTypes, CardRecords, IdentRecords
<1>6. \/ ident.path = "mmc" /\ ident.k >= 14
      \/ ident.path = "sd" /\ ident.k >= 15
  <2>1. ident.path \in {"mmc", "sd"} /\ ident.k > Len(Path[ident.path])
    BY PathTable DEF IdentDone
  <2>2. CASE ident.path = "mmc"
    BY <1>1, <2>1, <2>2, PathTable, MmcTable
  <2>3. CASE ident.path = "sd"
    BY <1>1, <2>1, <2>3, PathTable, SdTable
  <2> QED BY <2>1, <2>2, <2>3
<1>7. card.st = "tran" /\ host.clk = "default" /\ host.width = card.width
  BY <1>1, <1>6 DEF IdentProgress, MmcProgress, SdProgress
<1> QED BY <1>2, <1>3, <1>5, <1>7 DEF CardInv, IdentProgress, WidthsAgree

LEMMA IdentifyKeeps == CardInv /\ Identify => CardInv'
  BY IdentInitKeeps, IdentClockKeeps, IdentWidthKeeps, IdentCommandKeeps, IdentBusyKeeps, IdentFailsKeeps,
     IdentDevStatusKeeps, IdentDoneKeeps DEF Identify

LEMMA IdentStartKeeps ==
  ASSUME CardInv, NEW d \in Driver, IdentStart(d)
  PROVE  CardInv'
<1>1. CardTypes /\ IdentProgress /\ ident = NoIdent /\ UNCHANGED <<card, host, total, outcome>>
  BY DEF CardInv, IdentStart, hwVars
<1>2. \/ ident' = [Begin(d, "done") EXCEPT !.k = 0]
      \/ ident' = Begin(d, "mmc")
  BY DEF IdentStart
<1>3. Begin(d, "done") \in IdentRecords /\ Begin(d, "mmc") \in IdentRecords
  BY SdAssumption DEF Begin, IdentRecords, SdAssumption
<1>4. ident' \in IdentRecords /\ (ident'.path = "done" \/ (ident'.path = "mmc" /\ ident'.k = 1))
  <2>1. Begin(d, "done").path = "done" /\ Begin(d, "mmc").path = "mmc" /\ Begin(d, "mmc").k = 1
    BY DEF Begin
  <2>2. CASE ident' = [Begin(d, "done") EXCEPT !.k = 0]
    <3> DEFINE b == Begin(d, "done")
    <3>1. b \in IdentRecords /\ b.path = "done" /\ ident' = [b EXCEPT !.k = 0]
      BY <1>3, <2>1, <2>2
    <3> HIDE DEF b
    <3>2. ident'.path = "done"
      BY <3>1 DEF IdentRecords
    <3>3. ident' \in IdentRecords
      BY <3>1 DEF IdentRecords
    <3> QED BY <3>2, <3>3
  <2>3. CASE ident' = Begin(d, "mmc")
    BY <1>3, <2>1, <2>3
  <2> QED BY <1>2, <2>2, <2>3
<1>5. CardTypes'
  BY <1>1, <1>4 DEF CardTypes, CardRecords, IdentRecords
<1>6. ident.path = "none"
  BY <1>1 DEF NoIdent
<1> QED BY <1>1, <1>4, <1>5, <1>6 DEF CardInv, IdentProgress, MmcProgress, WidthsAgree

\* A driver has seen the result, or a transfer moves lines and status bits of the controller.
LEMMA TransferKeeps ==
  ASSUME CardInv, UNCHANGED <<card, total, outcome>>, host'.width = host.width, host'.clk = host.clk,
         DOMAIN host' = {"clk", "width", "stuck", "busy", "cut"},
         \/ ident' = ident
         \/ ident' = NoIdent /\ ident.path \in {"done", "failed"}
  PROVE  CardInv'
<1>1. CardTypes /\ IdentProgress
  BY DEF CardInv
<1>2. NoIdent \in IdentRecords /\ NoIdent.path = "none"
  BY DEF NoIdent, IdentRecords
<1>3. CardTypes'
  BY <1>1, <1>2 DEF CardTypes, CardRecords, IdentRecords
<1> QED BY <1>1, <1>2, <1>3 DEF CardInv, IdentProgress, MmcProgress, SdProgress, WidthsAgree

HostKeepsClock == /\ host'.width = host.width /\ host'.clk = host.clk
                  /\ DOMAIN host' = {"clk", "width", "stuck", "busy", "cut"}

LEMMA LinesMoved ==
  ASSUME CardTypes, NEW a, NEW b, NEW c, host' = [host EXCEPT !.stuck = a, !.busy = b, !.cut = c]
  PROVE  HostKeepsClock
  BY DEF CardTypes, HostKeepsClock

LEMMA DataFailsKeepsClock ==
  ASSUME CardTypes, DataFails
  PROVE  HostKeepsClock
<1>1. PICK s \in {host.stuck, DataWorks} : host' = [host EXCEPT !.stuck = s \/ @, !.cut = TRUE]
  BY DEF DataFails
<1>2. ASSUME NEW a, NEW c, host' = [host EXCEPT !.stuck = a, !.cut = c]
      PROVE  HostKeepsClock
  BY <1>2 DEF CardTypes, HostKeepsClock
<1> QED BY <1>1, <1>2

LEMMA HostUnchanged ==
  ASSUME CardTypes, host' = host
  PROVE  HostKeepsClock
  BY DEF CardTypes, HostKeepsClock

LEMMA FvbKeepsCard == CardInv /\ FvbRun => CardInv'
<1> SUFFICES ASSUME CardInv, FvbRun
             PROVE  CardInv'
  OBVIOUS
<1>1. CardTypes
  BY DEF CardInv
<1>2. CASE FvbNoCard \/ FvbAllocate
  <2>1. UNCHANGED <<card, host, total, outcome>> /\ ident' = NoIdent /\ ident.path \in {"done", "failed"}
    BY <1>2 DEF FvbNoCard, FvbAllocate, IdentSeen, hwVars
  <2> QED BY <1>1, <2>1, HostUnchanged, TransferKeeps DEF HostKeepsClock
<1>3. ASSUME UNCHANGED <<card, total, ident, outcome>>, host' = host \/ DataFails
      PROVE  CardInv'
  BY <1>1, <1>3, HostUnchanged, DataFailsKeepsClock, TransferKeeps DEF HostKeepsClock
<1>4. CASE FvbBootRead \/ FvbReading
  BY <1>3, <1>4 DEF FvbBootRead, FvbReading, ReadStep, ReadFails, hwVars
<1>5. CASE FvbFetch
  BY <1>3, <1>5 DEF FvbFetch, WriteFetch, FetchFails, sdVars
<1>6. CASE FvbStore
  BY <1>3, <1>6 DEF FvbStore, WriteStore, WriteFails
<1>7. CASE FvbHeadersFound \/ FvbFormat \/ FvbReadDone \/ EraseTuple \/ EraseEnds \/ FvbWritten
  BY <1>3, <1>7 DEF FvbHeadersFound, FvbFormat, FvbReadDone, EraseTuple, EraseEnds, FvbWritten, sdVars
<1> QED BY <1>2, <1>4, <1>5, <1>6, <1>7 DEF FvbRun

LEMMA BlkKeepsCard == CardInv /\ BlkRun => CardInv'
<1> SUFFICES ASSUME CardInv, BlkRun
             PROVE  CardInv'
  OBVIOUS
<1>1. CardTypes
  BY DEF CardInv
<1>2. CASE BlkNoCard \/ BlkInstall
  <2>1. UNCHANGED <<card, host, total, outcome>> /\ ident' = NoIdent /\ ident.path \in {"done", "failed"}
    BY <1>2 DEF BlkNoCard, BlkInstall, IdentSeen, hwVars
  <2> QED BY <1>1, <2>1, HostUnchanged, TransferKeeps DEF HostKeepsClock
<1>3. ASSUME UNCHANGED <<card, total, ident, outcome>>, HostKeepsClock
      PROVE  CardInv'
  BY <1>3, TransferKeeps DEF HostKeepsClock
<1>4. ASSUME NEW a, NEW c, \/ host' = [host EXCEPT !.busy = a, !.cut = c]
                           \/ \E s : host' = [host EXCEPT !.busy = a, !.cut = c, !.stuck = s]
      PROVE  HostKeepsClock
  BY <1>1, <1>4 DEF CardTypes, HostKeepsClock
<1>5. CASE BlkIssue \/ BlkCommand
  <2>1. UNCHANGED <<card, total, ident, outcome>>
    BY <1>5 DEF BlkIssue, BlkCommand
  <2>2. host' = host \/ DataFails \/ host' = [host EXCEPT !.busy = TRUE, !.cut = FALSE]
    BY <1>5 DEF BlkIssue, BlkCommand
  <2>3. HostKeepsClock
    BY <1>1, <1>4, <2>2, HostUnchanged, DataFailsKeepsClock
  <2> QED BY <1>3, <2>1, <2>3
<1>6. CASE BlkData
  <2>1. UNCHANGED <<card, total, ident, outcome>> /\ host' = [host EXCEPT !.busy = FALSE]
    BY <1>6 DEF BlkData
  <2>2. HostKeepsClock
    BY <1>1, <2>1 DEF CardTypes, HostKeepsClock
  <2> QED BY <1>3, <2>1, <2>2
<1>7. CASE BlkDataFails
  <2>1. HostKeepsClock
    BY <1>1, <1>4, <1>7 DEF BlkDataFails
  <2> QED BY <1>3, <1>7, <2>1 DEF BlkDataFails
<1>8. CASE BlkRegister \/ BlkEnd \/ BlkEndFails
  <2>1. UNCHANGED <<card, host, total, ident, outcome>>
    BY <1>8 DEF BlkRegister, BlkEnd, BlkEndFails, sdVars, hwVars
  <2> QED BY <1>1, <1>3, <2>1, HostUnchanged
<1> QED BY <1>2, <1>5, <1>6, <1>7, <1>8 DEF BlkRun, BlkTransfer

LEMMA PowerLossKeepsCard == CardInv /\ PowerLoss => CardInv'
<1> SUFFICES ASSUME CardInv, PowerLoss
             PROVE  CardInv'
  OBVIOUS
<1>1. /\ card' = [card EXCEPT !.st = "off", !.width = 1] /\ host' = HostOff /\ ident' = NoIdent
      /\ total' = [d \in Driver |-> FALSE] /\ outcome' = "none"
  BY DEF PowerLoss, SdPowerLoss
<1>2. card' \in CardRecords /\ ident' \in IdentRecords /\ ident'.path = "none"
  BY <1>1 DEF CardInv, CardTypes, CardRecords, IdentRecords, NoIdent
<1>3. CardTypes'
  BY <1>1, <1>2 DEF CardTypes, CardRecords, IdentRecords, HostOff
<1> QED BY <1>1, <1>2, <1>3 DEF CardInv, IdentProgress

LEMMA RequestKeepsCard == CardInv /\ Request => CardInv'
<1> SUFFICES ASSUME CardInv, Request
             PROVE  CardInv'
  OBVIOUS
<1>1. UNCHANGED <<card, host, total, ident, outcome>>
  BY DEF Request, FvbRead, FvbWrite, FvbErase, BlkRequest, sdVars
<1> QED BY <1>1, HostUnchanged, TransferKeeps DEF CardInv, HostKeepsClock

\* How far the identification of the card has come at each of its steps.
THEOREM SdCardInvariant == SdFvbSpec => []CardInv
<1>1. ASSUME SdFvbInit
      PROVE  CardInv
  <2>1. PICK c \in Card : SdInit(c)
    BY <1>1 DEF SdFvbInit
  <2>2. c.kind \in {"sd", "mmc", "none"} /\ c.csd \in Nat
    BY SdAssumption DEF SdAssumption
  <2>3. card \in CardRecords
    BY <2>1, <2>2 DEF SdInit, CardRecords
  <2>4. ident \in IdentRecords /\ ident.path = "none" /\ outcome = "none" /\ host = HostOff
    BY <2>1 DEF SdInit, NoIdent, IdentRecords
  <2>5. total \in [Driver -> BOOLEAN]
    BY <2>1 DEF SdInit
  <2>6. CardTypes
    BY <2>3, <2>4, <2>5 DEF CardTypes, HostOff
  <2> QED BY <2>4, <2>6 DEF CardInv, IdentProgress
<1>2. ASSUME CardInv, [SdFvbNext]_vars
      PROVE  CardInv'
  <2>1. CASE Run
    BY <1>2, <2>1, IdentifyKeeps, FvbKeepsCard, BlkKeepsCard DEF Run
  <2>2. CASE Dispatch
    <3>1. Fvb \in Driver /\ Blk \in Driver
      BY SdFvbAssumption DEF SdFvbAssumption
    <3> QED BY <1>2, <2>2, <3>1, IdentStartKeeps DEF Dispatch, FvbEntry, BlkEntry
  <2>3. CASE UNCHANGED vars
    BY <1>2, <2>3, HostUnchanged, TransferKeeps DEF vars, sdVars, CardInv, HostKeepsClock
  <2> QED BY <1>2, <2>1, <2>2, <2>3, RequestKeepsCard, PowerLossKeepsCard DEF SdFvbNext
<1> QED BY <1>1, <1>2, PTL DEF SdFvbSpec

\* SdLib: a card that is offered to its drivers has been identified to the end, and both ends
\* of the bus agree, whichever of the two drivers ran the identification last.
THEOREM SdReadyAfterIdent == SdFvbSpec => []ReadyAfterIdent
<1>1. CardInv => ReadyAfterIdent
  BY DEF CardInv, IdentProgress, NoIdent, ReadyAfterIdent, TransferReady, WidthsAgree
<1> QED BY <1>1, SdCardInvariant, PTL

----------------------------------------------------------------------------
(***************************************************************************)
(* Blocks and cells.                                                       *)
(***************************************************************************)
LEMMA Sizes ==
  /\ BlockSize \in Nat \ {0} /\ Blocks \in Nat \ {0} /\ PartBlocks \in Nat \ {0}
  /\ VarBlock \in Nat /\ VarSize \in Nat \ {0} /\ VarBase \in Nat /\ VarBase + VarSize <= Blocks * BlockSize
  BY SdAssumption, SdFvbAssumption DEF SdAssumption, SdFvbAssumption, VarBase

LEMMA Contents == Header \in Val /\ Erased \in Val /\ Data \subseteq Val
  BY SdFvbAssumption DEF SdFvbAssumption

LEMMA BlockDivision ==
  ASSUME NEW a \in Nat
  PROVE  BlockOf(a) \in Nat /\ a % BlockSize \in 0 .. BlockSize - 1 /\ a = BlockOf(a) * BlockSize + (a % BlockSize)
  BY Sizes DEF BlockOf

LEMMA TimesBlockSize ==
  ASSUME NEW a \in Nat, NEW b \in Nat, a <= b
  PROVE  a * BlockSize <= b * BlockSize
<1>1. PICK d \in Nat : b = a + d
  <2>1. b - a \in Nat /\ b = a + (b - a)
    OBVIOUS
  <2> QED BY <2>1
<1>2. b * BlockSize = a * BlockSize + d * BlockSize
  BY <1>1, Sizes
<1>3. d * BlockSize \in Nat /\ a * BlockSize \in Nat
  BY <1>1, Sizes
<1> QED BY <1>2, <1>3

LEMMA BlockIs ==
  ASSUME NEW a \in Nat, NEW k \in Nat, k * BlockSize <= a, a < k * BlockSize + BlockSize
  PROVE  BlockOf(a) = k /\ a % BlockSize = a - k * BlockSize
<1>1. PICK q \in Nat : q = BlockOf(a)
  BY BlockDivision
<1>2. PICK r \in 0 .. BlockSize - 1 : r = a % BlockSize
  BY BlockDivision
<1>3. a = q * BlockSize + r
  BY <1>1, <1>2, BlockDivision
<1>4. /\ q * BlockSize \in Nat /\ k * BlockSize \in Nat /\ BlockSize \in Nat \ {0}
      /\ (q + 1) * BlockSize = q * BlockSize + BlockSize /\ (k + 1) * BlockSize = k * BlockSize + BlockSize
  BY Sizes
<1>5. CASE q < k
  <2>1. (q + 1) * BlockSize <= k * BlockSize
    BY <1>5, TimesBlockSize
  <2> QED BY <1>2, <1>3, <1>4, <2>1
<1>6. CASE k < q
  <2>1. (k + 1) * BlockSize <= q * BlockSize
    BY <1>6, TimesBlockSize
  <2> QED BY <1>2, <1>3, <1>4, <2>1
<1>7. CASE q = k
  BY <1>1, <1>2, <1>3, <1>4, <1>7
<1> QED BY <1>5, <1>6, <1>7

LEMMA OffsetCell ==
  ASSUME NEW o \in Offset
  PROVE  o \in Nat /\ VarBase + o \in Cell /\ VarBase + o \in Nat /\ (VarBase + o) - VarBase = o
<1>1. Blocks * BlockSize \in Nat
  BY Sizes
<1> QED BY <1>1, Sizes DEF Offset, Cell

\* The block at hand and the part of the request in it.
LEMMA BlockAtHand ==
  ASSUME StoreTypes, Served, fvb.left > 0
  PROVE  /\ AtBlock \in 0 .. Blocks - 1 /\ Part \in Nat /\ Part > 0 /\ Part <= fvb.left
         /\ PartOffsets \subseteq RestOffsets /\ RestOffsets \subseteq Offset
         /\ \A o \in PartOffsets : BlockOf(VarBase + o) = AtBlock
<1>1. fvb.at \in Nat /\ fvb.left \in Nat /\ fvb.left > 0 /\ fvb.at + fvb.left <= VarSize
  BY DEF StoreTypes, FvbRecords, Served
<1>2. PICK r \in 0 .. BlockSize - 1 : r = fvb.at % BlockSize
  BY <1>1, BlockDivision
<1>3. PICK q \in Nat : q = BlockOf(fvb.at)
  BY <1>1, BlockDivision
<1>4. fvb.at = q * BlockSize + r
  BY <1>1, <1>2, <1>3, BlockDivision
<1>5. /\ q * BlockSize \in Nat /\ VarBlock + q \in Nat /\ (VarBlock + q) * BlockSize \in Nat
      /\ (VarBlock + q) * BlockSize = VarBase + q * BlockSize
      /\ BlockSize \in Nat \ {0} /\ VarBase \in Nat
  BY Sizes DEF VarBase
<1>6. AtBlock = VarBlock + q
  <2>1. VarBase + fvb.at \in Nat
    BY <1>1, <1>5
  <2>2. (VarBlock + q) * BlockSize <= VarBase + fvb.at /\ VarBase + fvb.at < (VarBlock + q) * BlockSize + BlockSize
    BY <1>2, <1>4, <1>5
  <2> QED BY <1>5, <2>1, <2>2, BlockIs DEF AtBlock
<1>7. Part \in Nat /\ Part > 0 /\ Part <= fvb.left /\ Part <= BlockSize - r
  BY <1>1, <1>2, <1>5 DEF Part, MinOf
<1>8. AtBlock \in 0 .. Blocks - 1
  <2>1. VarBase + fvb.at < Blocks * BlockSize /\ Blocks \in Nat /\ Blocks * BlockSize \in Nat
    BY <1>1, Sizes
  <2>2. SUFFICES ASSUME Blocks <= VarBlock + q
                 PROVE  FALSE
    BY <1>5, <1>6, <2>1
  <2>3. Blocks * BlockSize <= (VarBlock + q) * BlockSize
    BY <1>5, <2>1, <2>2, TimesBlockSize
  <2> QED BY <1>2, <1>4, <1>5, <2>1, <2>3
<1>9. ASSUME NEW o \in PartOffsets
      PROVE  BlockOf(VarBase + o) = AtBlock
  <2>1. o \in Nat /\ fvb.at <= o /\ o <= fvb.at + Part - 1
    BY <1>1, <1>7 DEF PartOffsets, Offset
  <2>2. (VarBlock + q) * BlockSize <= VarBase + o /\ VarBase + o < (VarBlock + q) * BlockSize + BlockSize
    BY <1>2, <1>4, <1>5, <1>7, <2>1
  <2>3. VarBase + o \in Nat
    BY <1>5, <2>1
  <2> QED BY <1>5, <1>6, <2>2, <2>3, BlockIs
<1>10. PartOffsets \subseteq RestOffsets /\ RestOffsets \subseteq Offset
  BY <1>1, <1>7 DEF PartOffsets, RestOffsets, Offset
<1> QED BY <1>7, <1>8, <1>9, <1>10

\* A cell is at its place in its block.
LEMMA CellInBlock ==
  ASSUME NEW b \in 0 .. Blocks - 1, NEW i \in 0 .. BlockSize - 1
  PROVE  b * BlockSize + i \in Cell
<1>1. Blocks \in Nat /\ BlockSize \in Nat \ {0} /\ b + 1 \in Nat /\ b + 1 <= Blocks
  BY Sizes
<1>2. (b + 1) * BlockSize <= Blocks * BlockSize
  BY <1>1, TimesBlockSize
<1>3. (b + 1) * BlockSize = b * BlockSize + BlockSize /\ b * BlockSize \in Nat /\ Blocks * BlockSize \in Nat
  BY <1>1
<1> QED BY <1>1, <1>2, <1>3 DEF Cell

LEMMA CellIsNat == Cell \subseteq Nat
<1>1. Blocks * BlockSize \in Nat
  BY Sizes
<1> QED BY <1>1 DEF Cell

----------------------------------------------------------------------------
(***************************************************************************)
(* The actions keep the invariant of the volume and the block device.      *)
(***************************************************************************)
LEMMA QuietFields ==
  ASSUME NEW pc \in {"off", "ident", "absent", "ready", "next"}
  PROVE  /\ Quiet(pc) \in FvbRecords /\ Quiet(pc).pc = pc /\ Quiet(pc).at = 0 /\ Quiet(pc).left = 0
         /\ Quiet(pc).todo = <<>> /\ <<>> \in Seq(EraseTuples)
  BY DEF Quiet, FvbRecords

LEMMA TransferFields ==
  ASSUME NEW pc \in {"bootread", "read", "fetch"}, NEW at \in Nat, NEW n \in Nat
  PROVE  /\ Transfer(pc, at, n) \in FvbRecords /\ Transfer(pc, at, n).pc = pc
         /\ Transfer(pc, at, n).at = at /\ Transfer(pc, at, n).left = n
  BY DEF Transfer, FvbRecords

\* A step of the volume that leaves no block to be stored.
LEMMA VolumeStep ==
  ASSUME StoreInv, blk' = blk, fvb' \in FvbRecords, fvb'.pc # "store", fvb'.at + fvb'.left <= VarSize,
         fvb'.pc = "next" => fvb'.todo \in Seq(EraseTuples), media' \in [Cell -> Val],
         mirror' \in [Offset -> Val], buffer' \in [0 .. BlockSize - 1 -> Val], suspect' \subseteq Offset,
         \A o \in Offset \ suspect' : mirror'[o] = media'[VarBase + o]
  PROVE  StoreInv'
<1>1. StoreTypes' /\ Served'
  BY DEF StoreInv, StoreTypes, Served, FvbRecords, BlkRecords, Offset, Cell, VarBase, EraseTuples
<1>2. BlockReady'
  BY DEF BlockReady
<1>3. Agree'
  BY DEF Agree, Offset, VarBase
<1> QED BY <1>1, <1>2, <1>3 DEF StoreInv

LEMMA AfterWriteFields ==
  ASSUME StoreTypes, NEW f \in FvbRecords, f.todo = fvb.todo, fvb' \in AfterWrite(f)
  PROVE  /\ fvb' \in FvbRecords /\ fvb'.pc \in {"ready", "absent", "next"} /\ fvb'.at = 0 /\ fvb'.left = 0
         /\ fvb'.pc = "next" => fvb'.todo \in Seq(EraseTuples)
<1>1. CASE f.todo = <<"install">>
  BY <1>1, QuietFields DEF AfterWrite
<1>2. CASE f.todo # <<"install">>
  <2>1. f.todo \in Seq(EraseTuples)
    BY <1>2 DEF FvbRecords
  <2> DEFINE q == Quiet("next")
  <2>2. q \in FvbRecords /\ q.pc = "next" /\ q.at = 0 /\ q.left = 0
    BY QuietFields
  <2>3. fvb' = [q EXCEPT !.todo = f.todo]
    BY <1>2 DEF AfterWrite
  <2> HIDE DEF q
  <2> QED BY <2>1, <2>2, <2>3 DEF FvbRecords
<1> QED BY <1>1, <1>2

LEMMA AdvanceFields ==
  ASSUME StoreTypes, Served, fvb.left > 0
  PROVE  /\ Advance \in FvbRecords /\ Advance.pc = fvb.pc /\ Advance.todo = fvb.todo
         /\ Advance.at = fvb.at + Part /\ Advance.left = fvb.left - Part
         /\ Advance.at + Advance.left <= VarSize
<1>1. Part \in Nat /\ Part <= fvb.left /\ fvb.at \in Nat /\ fvb.left \in Nat /\ fvb.at + fvb.left <= VarSize /\ fvb \in FvbRecords
  BY BlockAtHand DEF StoreTypes, FvbRecords, Served
<1>2. fvb.at + Part \in Nat /\ fvb.left - Part \in Nat /\ (fvb.at + Part) + (fvb.left - Part) = fvb.at + fvb.left
  BY <1>1
<1> QED BY <1>1, <1>2 DEF Advance, FvbRecords

\* A block comes into the buffer, and its part into the mirror.
LEMMA ReadStepKeeps == StoreInv /\ ReadStep /\ blk' = blk /\ fvb.pc \in {"bootread", "read"} => StoreInv'
<1> SUFFICES ASSUME StoreInv, ReadStep, blk' = blk, fvb.pc \in {"bootread", "read"}
             PROVE  StoreInv'
  OBVIOUS
<1>1. /\ StoreTypes /\ Served /\ Agree /\ fvb.left > 0 /\ fvb' = Advance /\ media' = media
      /\ VarSize \in Nat /\ media \in [Cell -> Val] /\ mirror \in [Offset -> Val] /\ suspect \subseteq Offset
  BY Sizes DEF StoreInv, StoreTypes, ReadStep, hwVars
<1>2. fvb' \in FvbRecords /\ fvb'.pc \in {"bootread", "read"} /\ fvb'.at + fvb'.left <= VarSize
  BY <1>1, AdvanceFields
<1>3. buffer' \in [0 .. BlockSize - 1 -> Val]
  <2>1. \A i \in 0 .. BlockSize - 1 : media[AtBlock * BlockSize + i] \in Val
    BY <1>1, BlockAtHand, CellInBlock
  <2> QED BY <2>1 DEF ReadStep, BlockNow
<1>4. mirror' = [o \in Offset |-> IF o \in PartOffsets THEN media[VarBase + o] ELSE mirror[o]]
  BY DEF ReadStep
<1>5. mirror' \in [Offset -> Val]
  BY <1>1, <1>4, OffsetCell
<1>6. suspect' = suspect \ PartOffsets
  BY DEF ReadStep
<1>7. \A o \in Offset \ suspect' : mirror'[o] = media'[VarBase + o]
  BY <1>1, <1>4, <1>6 DEF Agree
<1> QED BY <1>1, <1>2, <1>3, <1>5, <1>6, <1>7, VolumeStep

LEMMA FetchKeepsStore == StoreInv /\ FvbFetch => StoreInv'
<1> SUFFICES ASSUME StoreInv, FvbFetch
             PROVE  StoreInv'
  OBVIOUS
<1>1. /\ StoreTypes /\ Served /\ Agree /\ fvb.left > 0 /\ blk' = blk /\ fvb.pc = "fetch"
      /\ media \in [Cell -> Val] /\ mirror \in [Offset -> Val] /\ suspect \subseteq Offset /\ fvb \in FvbRecords
      /\ buffer \in [0 .. BlockSize - 1 -> Val]
  BY DEF StoreInv, StoreTypes, FvbFetch
<1>2. CASE WriteFetch /\ fvb' = [fvb EXCEPT !.pc = "store"]
  <2> DEFINE b == AtBlock
             Merged(i) == LET o == (b * BlockSize + i) - VarBase
                          IN  IF o \in PartOffsets THEN mirror[o] ELSE media[b * BlockSize + i]
  <2>1. /\ UNCHANGED <<media, mirror, suspect>>
        /\ buffer' = [i \in 0 .. BlockSize - 1 |-> Merged(i)]
    BY <1>2 DEF WriteFetch, sdVars, BlockNow
  <2>2. fvb' \in FvbRecords /\ fvb'.pc = "store" /\ fvb'.at = fvb.at /\ fvb'.left = fvb.left /\ fvb'.todo = fvb.todo
    BY <1>1, <1>2 DEF FvbRecords
  <2>3. b \in 0 .. Blocks - 1 /\ PartOffsets \subseteq Offset
    BY <1>1, BlockAtHand
  <2>4. \A i \in 0 .. BlockSize - 1 : Merged(i) \in Val
    <3>1. \A i \in 0 .. BlockSize - 1 : media[b * BlockSize + i] \in Val
      BY <1>1, <2>3, CellInBlock
    <3> QED BY <1>1, <2>3, <3>1
  <2>5. \A a \in Cell : BlockOf(a) = b =>
          buffer'[a % BlockSize] = IF a - VarBase \in PartOffsets THEN mirror[a - VarBase] ELSE media[a]
    <3> SUFFICES ASSUME NEW a \in Cell, BlockOf(a) = b
                 PROVE  buffer'[a % BlockSize] = IF a - VarBase \in PartOffsets THEN mirror[a - VarBase] ELSE media[a]
      OBVIOUS
    <3>1. a \in Nat
      BY CellIsNat
    <3>2. PICK i \in 0 .. BlockSize - 1 : i = a % BlockSize
      BY <3>1, BlockDivision
    <3>3. a = b * BlockSize + i
      BY <3>1, <3>2, BlockDivision
    <3>4. buffer'[i] = Merged(i)
      BY <2>1
    <3> QED BY <3>2, <3>3, <3>4
  <2> HIDE DEF b, Merged
  <2>6. StoreTypes'
    <3>1. buffer' \in [0 .. BlockSize - 1 -> Val]
      BY <2>1, <2>4
    <3> QED BY <1>1, <2>1, <2>2, <3>1 DEF StoreTypes, FvbRecords, BlkRecords, Offset, Cell, VarBase, EraseTuples
  <2>7. Served'
    BY <1>1, <2>2 DEF Served, VarBase, EraseTuples
  <2>8. BlockReady'
    <3>1. AtBlock' = b /\ PartOffsets' = PartOffsets /\ Cell' = Cell
      BY <2>2 DEF AtBlock, b, PartOffsets, Part, MinOf, BlockOf, VarBase, Offset, Cell
    <3> QED BY <1>1, <2>1, <2>2, <2>5, <3>1 DEF BlockReady, BlockOf, VarBase
  <2>9. Agree'
    BY <1>1, <2>1 DEF Agree, Offset, VarBase
  <2> QED BY <2>6, <2>7, <2>8, <2>9 DEF StoreInv
<1>3. CASE FetchFails /\ fvb' \in AfterWrite(fvb)
  <2>1. UNCHANGED <<media, mirror, buffer>> /\ suspect' = suspect \cup RestOffsets
    BY <1>3 DEF FetchFails
  <2>2. /\ fvb' \in FvbRecords /\ fvb'.pc \in {"ready", "absent", "next"} /\ fvb'.at = 0 /\ fvb'.left = 0
        /\ fvb'.pc = "next" => fvb'.todo \in Seq(EraseTuples)
    BY <1>1, <1>3, AfterWriteFields
  <2>3. suspect' \subseteq Offset /\ suspect \subseteq suspect'
    BY <1>1, <2>1 DEF RestOffsets
  <2>4. \A o \in Offset \ suspect' : mirror'[o] = media'[VarBase + o]
    BY <1>1, <2>1, <2>3 DEF Agree
  <2> QED BY <1>1, <2>1, <2>2, <2>3, <2>4, Sizes, VolumeStep
<1> QED BY <1>2, <1>3 DEF FvbFetch

\* What storing the block at hand makes of the card.
Stored == [a \in Cell |-> IF BlockOf(a) = AtBlock THEN buffer[a % BlockSize] ELSE media[a]]

LEMMA StoredCells ==
  ASSUME StoreInv, fvb.pc = "store"
  PROVE  /\ Stored \in [Cell -> Val]
         /\ \A a \in Cell : Stored[a] = IF a - VarBase \in PartOffsets THEN mirror[a - VarBase] ELSE media[a]
<1>1. /\ StoreTypes /\ Served /\ fvb.left > 0
      /\ media \in [Cell -> Val] /\ buffer \in [0 .. BlockSize - 1 -> Val]
      /\ \A a \in Cell : BlockOf(a) = AtBlock =>
           buffer[a % BlockSize] = IF a - VarBase \in PartOffsets THEN mirror[a - VarBase] ELSE media[a]
  BY DEF StoreInv, StoreTypes, BlockReady
<1>2. \A o \in PartOffsets : BlockOf(VarBase + o) = AtBlock
  BY <1>1, BlockAtHand
<1>3. ASSUME NEW a \in Cell
      PROVE  a % BlockSize \in 0 .. BlockSize - 1
  BY CellIsNat, BlockDivision
<1>4. Stored \in [Cell -> Val]
  BY <1>1, <1>3 DEF Stored
<1>5. ASSUME NEW a \in Cell
      PROVE  Stored[a] = IF a - VarBase \in PartOffsets THEN mirror[a - VarBase] ELSE media[a]
  <2>1. a \in Nat /\ VarBase \in Nat
    BY CellIsNat, Sizes
  <2>2. VarBase + (a - VarBase) = a
    BY <2>1
  <2>3. CASE BlockOf(a) = AtBlock
    BY <1>1, <2>3 DEF Stored
  <2>4. CASE BlockOf(a) # AtBlock
    <3>1. a - VarBase \notin PartOffsets
      BY <1>2, <2>2, <2>4
    <3> QED BY <2>4, <3>1 DEF Stored
  <2> QED BY <2>3, <2>4
<1> QED BY <1>4, <1>5

LEMMA StoreKeepsStore == StoreInv /\ FvbStore => StoreInv'
<1> SUFFICES ASSUME StoreInv, FvbStore
             PROVE  StoreInv'
  OBVIOUS
<1>1. /\ StoreTypes /\ Served /\ Agree /\ fvb.left > 0 /\ blk' = blk /\ fvb.pc = "store"
      /\ media \in [Cell -> Val] /\ mirror \in [Offset -> Val] /\ suspect \subseteq Offset /\ fvb \in FvbRecords
      /\ buffer \in [0 .. BlockSize - 1 -> Val] /\ VarSize \in Nat
  BY Sizes DEF StoreInv, StoreTypes, BlockReady, FvbStore
<1>2. /\ Stored \in [Cell -> Val]
      /\ \A a \in Cell : Stored[a] = IF a - VarBase \in PartOffsets THEN mirror[a - VarBase] ELSE media[a]
  BY <1>1, StoredCells
<1>3. ASSUME NEW o \in Offset
      PROVE  Stored[VarBase + o] = IF o \in PartOffsets THEN mirror[o] ELSE media[VarBase + o]
  BY <1>2, OffsetCell
<1>4. CASE WriteStore /\ fvb' = [Advance EXCEPT !.pc = "fetch"]
  <2>1. media' = Stored /\ suspect' = suspect \ PartOffsets /\ UNCHANGED <<mirror, buffer>>
    BY <1>4 DEF WriteStore, Stored
  <2>2. fvb' \in FvbRecords /\ fvb'.pc = "fetch" /\ fvb'.at + fvb'.left <= VarSize
    <3>1. Advance \in FvbRecords /\ Advance.at + Advance.left <= VarSize
      BY <1>1, AdvanceFields
    <3> QED BY <1>4, <3>1 DEF FvbRecords
  <2>3. \A o \in Offset \ suspect' : mirror'[o] = media'[VarBase + o]
    BY <1>1, <1>3, <2>1 DEF Agree
  <2> QED BY <1>1, <1>2, <2>1, <2>2, <2>3, VolumeStep
<1>5. CASE WriteFails /\ fvb' \in AfterWrite(fvb)
  <2>1. suspect' = suspect \cup RestOffsets /\ UNCHANGED <<mirror, buffer>>
    BY <1>5 DEF WriteFails
  <2>2. media' = media \/ media' = Stored
    <3>1. CASE DataWorks
      BY <1>5, <3>1 DEF WriteFails, Stored
    <3>2. CASE ~DataWorks
      <4>1. media = [a \in Cell |-> media[a]]
        BY <1>1
      <4>2. media' \in {media, [a \in Cell |-> media[a]]}
        BY <1>5, <3>2 DEF WriteFails
      <4> QED BY <4>1, <4>2
    <3> QED BY <3>1, <3>2
  <2>3. /\ fvb' \in FvbRecords /\ fvb'.pc \in {"ready", "absent", "next"} /\ fvb'.at = 0 /\ fvb'.left = 0
        /\ fvb'.pc = "next" => fvb'.todo \in Seq(EraseTuples)
    BY <1>1, <1>5, AfterWriteFields
  <2>4. suspect' \subseteq Offset /\ suspect \subseteq suspect'
    BY <1>1, <2>1 DEF RestOffsets
  <2>5. \A o \in Offset \ suspect' : mirror'[o] = media'[VarBase + o]
    BY <1>1, <1>3, <2>1, <2>2, <2>4 DEF Agree
  <2> QED BY <1>1, <1>2, <2>1, <2>2, <2>3, <2>4, <2>5, VolumeStep
<1> QED BY <1>4, <1>5 DEF FvbStore

\* A step of the volume at rest, which transfers nothing.
LEMMA RestStep ==
  ASSUME StoreInv, NEW pc \in {"ident", "absent", "ready", "next"}, fvb' = Quiet(pc),
         UNCHANGED <<media, mirror, buffer, suspect, blk>>
  PROVE  StoreInv'
<1>1. /\ media \in [Cell -> Val] /\ mirror \in [Offset -> Val] /\ suspect \subseteq Offset
      /\ buffer \in [0 .. BlockSize - 1 -> Val]
      /\ \A o \in Offset \ suspect : mirror[o] = media[VarBase + o]
  BY DEF StoreInv, StoreTypes, Agree
<1>2. fvb' \in FvbRecords /\ fvb'.pc # "store" /\ fvb'.at = 0 /\ fvb'.left = 0
      /\ fvb'.todo \in Seq(EraseTuples)
  BY QuietFields
<1>3. \A o \in Offset \ suspect' : mirror'[o] = media'[VarBase + o]
  BY <1>1
<1> QED BY <1>1, <1>2, <1>3, Sizes, VolumeStep

LEMMA ReadingKeepsStore == StoreInv /\ (FvbBootRead \/ FvbReading) => StoreInv'
<1> SUFFICES ASSUME StoreInv, FvbBootRead \/ FvbReading
             PROVE  StoreInv'
  OBVIOUS
<1>1. blk' = blk /\ fvb.pc \in {"bootread", "read"}
  BY DEF FvbBootRead, FvbReading
<1>2. CASE ReadStep
  BY <1>1, <1>2, ReadStepKeeps
<1>3. CASE ReadFails /\ fvb' = [fvb EXCEPT !.left = 0]
  <2>1. /\ media \in [Cell -> Val] /\ mirror \in [Offset -> Val] /\ suspect \subseteq Offset /\ fvb \in FvbRecords
        /\ buffer \in [0 .. BlockSize - 1 -> Val] /\ fvb.at + fvb.left <= VarSize
        /\ \A o \in Offset \ suspect : mirror[o] = media[VarBase + o]
    BY DEF StoreInv, StoreTypes, Served, Agree
  <2>2. UNCHANGED <<media, mirror, buffer, suspect>>
    BY <1>3 DEF ReadFails
  <2>3. fvb' \in FvbRecords /\ fvb'.pc = fvb.pc /\ fvb'.at = fvb.at /\ fvb'.left = 0 /\ fvb.at \in Nat /\ fvb.left \in Nat
    BY <1>3, <2>1 DEF FvbRecords
  <2>4. fvb'.at + fvb'.left <= VarSize
    BY <2>1, <2>3, Sizes
  <2>5. \A o \in Offset \ suspect' : mirror'[o] = media'[VarBase + o]
    BY <2>1, <2>2
  <2> QED BY <1>1, <2>1, <2>2, <2>3, <2>4, <2>5, VolumeStep
<1>4. CASE ReadFails /\ fvb' = Quiet("ready")
  BY <1>1, <1>4, RestStep DEF ReadFails
<1> QED BY <1>2, <1>3, <1>4 DEF FvbBootRead, FvbReading

\* A transfer of the whole volume or of a request starts, perhaps with new contents of the mirror
\* that the card does not hold yet.
LEMMA TransferStarts ==
  ASSUME StoreInv, UNCHANGED <<media, buffer, blk>>, fvb' \in FvbRecords, fvb'.pc \in {"bootread", "read", "fetch"},
         fvb'.at + fvb'.left <= VarSize, mirror' \in [Offset -> Val], suspect \subseteq suspect', suspect' \subseteq Offset,
         \A o \in Offset \ suspect' : mirror'[o] = mirror[o]
  PROVE  StoreInv'
<1>1. /\ media \in [Cell -> Val] /\ buffer \in [0 .. BlockSize - 1 -> Val]
      /\ \A o \in Offset \ suspect : mirror[o] = media[VarBase + o]
  BY DEF StoreInv, StoreTypes, Agree
<1>2. \A o \in Offset \ suspect' : mirror'[o] = media'[VarBase + o]
  BY <1>1
<1> QED BY <1>1, <1>2, VolumeStep

LEMMA FormatKeepsStore == StoreInv /\ FvbFormat => StoreInv'
<1> SUFFICES ASSUME StoreInv, FvbFormat
             PROVE  StoreInv'
  OBVIOUS
<1>1. /\ mirror' = DefaultStore /\ suspect' = Offset /\ UNCHANGED <<media, buffer, blk>>
      /\ fvb' = [Transfer("fetch", 0, VarSize) EXCEPT !.todo = <<"install">>]
  BY DEF FvbFormat, sdVars, blkVars
<1>2. mirror' \in [Offset -> Val]
  BY <1>1, Contents DEF DefaultStore
<1>3. fvb' = [pc |-> "fetch", at |-> 0, left |-> VarSize, todo |-> <<"install">>]
  BY <1>1 DEF Transfer
<1>4. fvb' \in FvbRecords /\ fvb'.pc = "fetch" /\ fvb'.at = 0 /\ fvb'.left = VarSize
  BY <1>3, Sizes DEF FvbRecords
<1>5. suspect \subseteq suspect' /\ fvb'.at + fvb'.left <= VarSize
  BY <1>1, <1>4, Sizes DEF StoreInv, StoreTypes
<1> QED BY <1>1, <1>2, <1>4, <1>5, TransferStarts

LEMMA AllocateKeepsStore == StoreInv /\ FvbAllocate => StoreInv'
<1> SUFFICES ASSUME StoreInv, FvbAllocate
             PROVE  StoreInv'
  OBVIOUS
<1>1. UNCHANGED <<media, mirror, buffer, suspect, blk>> /\ fvb' \in {Quiet("absent"), Transfer("bootread", 0, VarSize)}
  BY DEF FvbAllocate, hwVars, blkVars
<1>2. CASE fvb' = Quiet("absent")
  BY <1>1, <1>2, RestStep
<1>3. CASE fvb' = Transfer("bootread", 0, VarSize)
  <2>1. fvb' \in FvbRecords /\ fvb'.pc = "bootread" /\ fvb'.at + fvb'.left <= VarSize
    BY <1>3, Sizes, TransferFields
  <2>2. mirror' \in [Offset -> Val] /\ suspect' \subseteq Offset
    BY <1>1 DEF StoreInv, StoreTypes
  <2> QED BY <1>1, <2>1, <2>2, TransferStarts
<1> QED BY <1>1, <1>2, <1>3

LEMMA EraseTupleKeepsStore == StoreInv /\ EraseTuple => StoreInv'
<1> SUFFICES ASSUME StoreInv, EraseTuple
             PROVE  StoreInv'
  OBVIOUS
<1> DEFINE t == Head(fvb.todo)
           range == t[1] * BlockSize .. (t[1] + t[2]) * BlockSize - 1
<1>1. fvb.todo \in Seq(EraseTuples) /\ fvb.todo # <<>>
  BY DEF EraseTuple, StoreInv, Served
<1>2. t \in EraseTuples /\ Tail(fvb.todo) \in Seq(EraseTuples)
  BY <1>1
<1>3. /\ mirror' = [o \in Offset |-> IF o \in range THEN Erased ELSE mirror[o]]
      /\ suspect' = suspect \cup (Offset \cap range)
      /\ fvb' = [pc |-> "fetch", at |-> t[1] * BlockSize, left |-> t[2] * BlockSize, todo |-> Tail(fvb.todo)]
      /\ UNCHANGED <<media, buffer, blk>>
  BY DEF EraseTuple, sdVars, blkVars
<1>4. t[1] \in Nat /\ t[2] \in Nat /\ (t[1] + t[2]) * BlockSize <= VarSize
  BY <1>2 DEF EraseTuples
<1>5. /\ t[1] * BlockSize \in Nat /\ t[2] * BlockSize \in Nat
      /\ t[1] * BlockSize + t[2] * BlockSize = (t[1] + t[2]) * BlockSize
  BY <1>4, Sizes
<1>6. mirror' \in [Offset -> Val] /\ suspect \subseteq suspect' /\ suspect' \subseteq Offset
  BY <1>3, Contents DEF StoreInv, StoreTypes
<1>7. \A o \in Offset \ suspect' : mirror'[o] = mirror[o]
  BY <1>3
<1> HIDE DEF t, range
<1>8. fvb' \in FvbRecords
  BY <1>2, <1>3, <1>5 DEF FvbRecords
<1>9. fvb'.pc = "fetch" /\ fvb'.at + fvb'.left <= VarSize
  BY <1>3, <1>4, <1>5
<1> QED BY <1>3, <1>6, <1>7, <1>8, <1>9, TransferStarts

LEMMA FvbKeepsStore == StoreInv /\ FvbRun => StoreInv'
<1> SUFFICES ASSUME StoreInv, FvbRun
             PROVE  StoreInv'
  OBVIOUS
<1>1. CASE FvbNoCard
  BY <1>1, RestStep DEF FvbNoCard, hwVars, blkVars
<1>2. CASE FvbHeadersFound \/ FvbReadDone \/ EraseEnds
  BY <1>2, RestStep DEF FvbHeadersFound, FvbReadDone, EraseEnds, sdVars, blkVars
<1>3. CASE FvbWritten
  <2>1. /\ media \in [Cell -> Val] /\ mirror \in [Offset -> Val] /\ suspect \subseteq Offset /\ fvb \in FvbRecords
        /\ buffer \in [0 .. BlockSize - 1 -> Val] /\ StoreTypes
        /\ \A o \in Offset \ suspect : mirror[o] = media[VarBase + o]
    BY DEF StoreInv, StoreTypes, Agree
  <2>2. UNCHANGED <<media, mirror, buffer, suspect, blk>>
    BY <1>3 DEF FvbWritten, sdVars, blkVars
  <2>3. /\ fvb' \in FvbRecords /\ fvb'.pc \in {"ready", "absent", "next"} /\ fvb'.at = 0 /\ fvb'.left = 0
        /\ fvb'.pc = "next" => fvb'.todo \in Seq(EraseTuples)
    BY <1>3, <2>1, AfterWriteFields DEF FvbWritten
  <2>4. \A o \in Offset \ suspect' : mirror'[o] = media'[VarBase + o]
    BY <2>1, <2>2
  <2> QED BY <2>1, <2>2, <2>3, <2>4, Sizes, VolumeStep
<1> QED BY <1>1, <1>2, <1>3, AllocateKeepsStore, ReadingKeepsStore, FormatKeepsStore, EraseTupleKeepsStore,
           FetchKeepsStore, StoreKeepsStore DEF FvbRun

\* The protocol's callers stay in the volume.
LEMMA FvbRequestKeepsStore == StoreInv /\ (FvbRead \/ FvbWrite \/ FvbErase) => StoreInv'
<1> SUFFICES ASSUME StoreInv, FvbRead \/ FvbWrite \/ FvbErase
             PROVE  StoreInv'
  OBVIOUS
<1>1. /\ media \in [Cell -> Val] /\ mirror \in [Offset -> Val] /\ suspect \subseteq Offset
      /\ buffer \in [0 .. BlockSize - 1 -> Val]
      /\ \A o \in Offset \ suspect : mirror[o] = media[VarBase + o]
  BY DEF StoreInv, StoreTypes, Agree
<1>2. \A r \in Ranges : r[1] \in Nat /\ r[2] \in Nat /\ r[1] + r[2] <= VarSize
  BY CallerAssumption DEF CallerAssumption
<1>3. CASE FvbRead
  <2>1. PICK r \in Ranges : fvb' = Transfer("read", r[1], r[2])
    BY <1>3 DEF FvbRead
  <2>2. fvb' \in FvbRecords /\ fvb'.pc = "read" /\ fvb'.at + fvb'.left <= VarSize
    BY <1>2, <2>1, TransferFields
  <2>3. UNCHANGED <<media, mirror, buffer, suspect, blk>>
    BY <1>3 DEF FvbRead, sdVars, blkVars
  <2> QED BY <1>1, <2>2, <2>3, TransferStarts
<1>4. CASE FvbWrite
  <2>1. PICK r \in Ranges, d \in Data :
          /\ mirror' = [o \in Offset |-> IF o \in r[1] .. r[1] + r[2] - 1 THEN d ELSE mirror[o]]
          /\ suspect' = suspect \cup (Offset \cap (r[1] .. r[1] + r[2] - 1))
          /\ fvb' = Transfer("fetch", r[1], r[2])
    BY <1>4 DEF FvbWrite
  <2>2. fvb' \in FvbRecords /\ fvb'.pc = "fetch" /\ fvb'.at + fvb'.left <= VarSize
    BY <1>2, <2>1, TransferFields
  <2>3. UNCHANGED <<media, buffer, blk>>
    BY <1>4 DEF FvbWrite, sdVars, blkVars
  <2>4. mirror' \in [Offset -> Val] /\ suspect \subseteq suspect' /\ suspect' \subseteq Offset
    BY <1>1, <2>1, Contents
  <2>5. \A o \in Offset \ suspect' : mirror'[o] = mirror[o]
    BY <2>1
  <2> QED BY <2>2, <2>3, <2>4, <2>5, TransferStarts
<1>5. CASE FvbErase
  <2>1. PICK l \in EraseLists : fvb' = [Quiet("next") EXCEPT !.todo = l]
    BY <1>5 DEF FvbErase
  <2>2. l \in Seq(EraseTuples)
    BY CallerAssumption DEF CallerAssumption, EraseTuples
  <2>3. fvb' = [pc |-> "next", at |-> 0, left |-> 0, todo |-> l]
    BY <2>1 DEF Quiet
  <2>4. fvb' \in FvbRecords /\ fvb'.pc = "next" /\ fvb'.at = 0 /\ fvb'.left = 0 /\ fvb'.todo = l
    BY <2>2, <2>3 DEF FvbRecords
  <2>5. UNCHANGED <<media, mirror, buffer, suspect, blk>>
    BY <1>5 DEF FvbErase, sdVars, blkVars
  <2>6. \A o \in Offset \ suspect' : mirror'[o] = media'[VarBase + o]
    BY <1>1, <2>5
  <2> QED BY <1>1, <2>2, <2>4, <2>5, <2>6, Sizes, VolumeStep
<1> QED BY <1>3, <1>4, <1>5

\* What is left of a block request lies outside the volume, and there is something left of one
\* that has not ended.
Outside(b) == /\ b.lba + b.left <= VarBlock \/ VarBase + VarSize <= b.lba * BlockSize \/ b.left = 0
              /\ b.pc \notin BlkAtRest => b.left > 0

\* A step of the block device alone: where it changes the volume, it says so.
LEMMA BlockStep ==
  ASSUME StoreInv, fvb.pc # "store", UNCHANGED <<fvb, mirror, buffer>>, blk' \in BlkRecords, Outside(blk'),
         media' \in [Cell -> Val], suspect \subseteq suspect', suspect' \subseteq Offset,
         \A o \in Offset \ suspect' : media'[VarBase + o] = media[VarBase + o]
  PROVE  StoreInv'
<1>1. StoreTypes'
  BY DEF StoreInv, StoreTypes, FvbRecords, BlkRecords, BlkAtRest, Offset, Cell, EraseTuples
<1>2. Served'
  BY DEF StoreInv, Served, Outside, BlkAtRest, VarBase, EraseTuples
<1>3. BlockReady'
  BY DEF StoreInv, BlockReady
<1>4. \A o \in Offset \ suspect' : mirror'[o] = media'[VarBase + o]
  BY DEF StoreInv, Agree
<1>5. Agree'
  BY <1>4 DEF Agree, Offset, VarBase
<1> QED BY <1>1, <1>2, <1>3, <1>5 DEF StoreInv

\* A step of the block device that leaves the card alone.
LEMMA BlockStepNoData ==
  ASSUME StoreInv, fvb.pc # "store", UNCHANGED <<media, fvbVars>>, blk' \in BlkRecords, Outside(blk')
  PROVE  StoreInv'
<1>1. /\ media' \in [Cell -> Val] /\ suspect' \subseteq Offset /\ UNCHANGED <<fvb, mirror, buffer, suspect>>
      /\ \A o \in Offset : media'[VarBase + o] = media[VarBase + o]
  BY DEF StoreInv, StoreTypes, fvbVars
<1> QED BY <1>1, BlockStep

LEMMA NoBlkFields ==
  ASSUME NEW pc \in BlkAtRest
  PROVE  NoBlk(pc) \in BlkRecords /\ NoBlk(pc).pc = pc /\ Outside(NoBlk(pc))
  BY Contents DEF NoBlk, BlkRecords, Outside

\* The next step of a command, with what is left of the request unchanged.
LEMMA NextStepFields ==
  ASSUME StoreInv, blk.pc \notin BlkAtRest,
         NEW pc \in {"count", "mode", "arg", "command", "data", "end"}, blk' = [blk EXCEPT !.pc = pc]
  PROVE  blk' \in BlkRecords /\ Outside(blk')
<1>1. blk \in BlkRecords /\ Outside(blk)
  BY DEF StoreInv, StoreTypes, Served, Outside
<1>2. blk' \in BlkRecords /\ blk'.lba = blk.lba /\ blk'.left = blk.left
  BY <1>1 DEF BlkRecords
<1> QED BY <1>1, <1>2 DEF Outside

\* The cells that a request writes do not lie in the volume, unless the request is redirected.
LEMMA HitOutside ==
  ASSUME StoreInv, ~Redirected, NEW n \in Nat, n <= blk.left, NEW o \in Offset
  PROVE  VarBase + o \notin Hit(n)
<1>1. blk.lba \in Nat /\ blk.left \in Nat /\ Outside(blk) /\ regs.arg = blk.lba
  BY DEF StoreInv, StoreTypes, BlkRecords, Served, Outside, Redirected
<1>2. SUFFICES VarBase + o \notin CellsOf(blk.lba, n)
  BY <1>1 DEF Hit
<1>3. o \in Nat /\ o < VarSize /\ VarBase \in Nat /\ VarSize \in Nat
  BY Sizes DEF Offset
<1>4. blk.lba + n \in Nat /\ blk.lba * BlockSize \in Nat /\ (blk.lba + n) * BlockSize \in Nat
  BY <1>1, Sizes
<1>5. SUFFICES ASSUME blk.lba * BlockSize <= VarBase + o, VarBase + o <= (blk.lba + n) * BlockSize - 1
               PROVE  FALSE
  BY <1>4 DEF CellsOf
<1>6. CASE blk.lba + blk.left <= VarBlock
  <2>1. (blk.lba + n) * BlockSize <= VarBlock * BlockSize
    BY <1>1, <1>4, <1>6, Sizes, TimesBlockSize
  <2> QED BY <1>3, <1>4, <1>5, <2>1 DEF VarBase
<1>7. CASE VarBase + VarSize <= blk.lba * BlockSize
  BY <1>3, <1>4, <1>5, <1>7
<1>8. CASE blk.left = 0
  <2>1. n = 0 /\ blk.lba + n = blk.lba
    BY <1>1, <1>8
  <2> QED BY <1>3, <1>4, <1>5, <2>1
<1> QED BY <1>1, <1>6, <1>7, <1>8 DEF Outside

\* Block data arrives: outside the volume, or where it is said to.
LEMMA ArriveKeepsStore ==
  ASSUME StoreInv, fvb.pc # "store", UNCHANGED <<fvb, mirror, buffer>>, NEW n \in Nat, n <= blk.left, Arrive(n),
         blk' \in BlkRecords, Outside(blk')
  PROVE  StoreInv'
<1>1. media \in [Cell -> Val] /\ blk.val \in Val /\ suspect \subseteq Offset
  BY DEF StoreInv, StoreTypes, BlkRecords
<1>2. media' = [a \in Cell |-> IF a \in Hit(n) THEN blk.val ELSE media[a]]
  BY DEF Arrive
<1>3. media' \in [Cell -> Val]
  BY <1>1, <1>2
<1>4. CASE Redirected
  <2>1. suspect' = suspect \cup {o \in Offset : VarBase + o \in Hit(n)}
    BY <1>4 DEF Arrive
  <2>2. \A o \in Offset \ suspect' : media'[VarBase + o] = media[VarBase + o]
    BY <1>2, <2>1, OffsetCell
  <2>3. suspect \subseteq suspect' /\ suspect' \subseteq Offset
    BY <1>1, <2>1
  <2> QED BY <1>3, <2>2, <2>3, BlockStep
<1>5. CASE ~Redirected
  <2>1. suspect' = suspect
    BY <1>5 DEF Arrive
  <2>2. \A o \in Offset \ suspect' : media'[VarBase + o] = media[VarBase + o]
    BY <1>2, <1>5, HitOutside, OffsetCell
  <2> QED BY <1>1, <1>3, <2>1, <2>2, BlockStep
<1> QED BY <1>4, <1>5

LEMMA PartFields ==
  ASSUME StoreTypes
  PROVE  /\ BlkPart \in Nat /\ BlkPart <= blk.left /\ blk.left \in Nat /\ blk.lba \in Nat
         /\ blk.left > 0 => BlkPart > 0
  BY Sizes DEF BlkPart, MinOf, StoreTypes, BlkRecords

LEMMA ArrivingFields ==
  ASSUME StoreInv, blk.pc = "data", NEW n \in Arriving
  PROVE  n \in Nat /\ n <= blk.left
<1>1. blk.left > 0 /\ StoreTypes
  BY DEF StoreInv, Served, BlkAtRest
<1> QED BY <1>1, PartFields DEF Arriving

\* A part has been transferred: the request ends, or goes on behind it.
LEMMA EndKeepsStore == StoreInv /\ fvb.pc # "store" /\ BlkEnd => StoreInv'
<1> SUFFICES ASSUME StoreInv, fvb.pc # "store", BlkEnd
             PROVE  StoreInv'
  OBVIOUS
<1>1. UNCHANGED <<media, fvbVars>> /\ blk.pc = "end"
  BY DEF BlkEnd, sdVars
<1>2. StoreTypes /\ Outside(blk) /\ blk \in BlkRecords
  BY DEF StoreInv, StoreTypes, Served, Outside
<1>3. CASE blk' = NoBlk("ready")
  BY <1>1, <1>3, NoBlkFields, BlockStepNoData DEF BlkAtRest
<1>4. CASE /\ blk.left # BlkPart
           /\ blk' = [blk EXCEPT !.pc = "issue", !.lba = @ + BlkPart, !.left = @ - BlkPart]
  <2>1. PICK n \in Nat : n = BlkPart /\ n <= blk.left /\ n # blk.left
    BY <1>2, <1>4, PartFields
  <2>2. blk.left - n \in Nat /\ blk.left - n > 0 /\ blk.lba + n \in Nat /\ blk.lba \in Nat /\ blk.left \in Nat
    BY <1>2, <2>1, PartFields
  <2>3. blk' = [pc |-> "issue", op |-> blk.op, lba |-> blk.lba + n, left |-> blk.left - n, val |-> blk.val]
    BY <1>2, <1>4, <2>1 DEF BlkRecords
  <2>4. blk' \in BlkRecords /\ blk'.lba = blk.lba + n /\ blk'.left = blk.left - n
    BY <1>2, <2>2, <2>3 DEF BlkRecords
  <2>5. blk.lba * BlockSize <= (blk.lba + n) * BlockSize
    BY <2>2, TimesBlockSize
  <2>6. blk.lba * BlockSize \in Nat /\ (blk.lba + n) * BlockSize \in Nat
    BY <2>2, Sizes
  <2>7. Outside(blk')
    BY <1>2, <2>1, <2>2, <2>4, <2>5, <2>6, Sizes DEF Outside
  <2> QED BY <1>1, <2>4, <2>7, BlockStepNoData
<1> QED BY <1>3, <1>4 DEF BlkEnd, BlkReady

LEMMA BlkKeepsStore == StoreInv /\ BlkRun => StoreInv'
<1> SUFFICES ASSUME StoreInv, BlkRun
             PROVE  StoreInv'
  OBVIOUS
<1>1. fvb.pc # "store"
  BY DEF BlkRun, FvbIdle
<1>2. ASSUME NEW pc \in {"absent", "ready"}, blk' = NoBlk(pc), UNCHANGED <<media, fvbVars>>
      PROVE  StoreInv'
  BY <1>1, <1>2, NoBlkFields, BlockStepNoData DEF BlkAtRest
<1>3. ASSUME blk.pc \notin BlkAtRest, NEW pc \in {"count", "mode", "arg", "command", "data", "end"},
             blk' = [blk EXCEPT !.pc = pc], UNCHANGED <<media, fvbVars>>
      PROVE  StoreInv'
  BY <1>1, <1>3, NextStepFields, BlockStepNoData
<1>4. CASE BlkNoCard \/ BlkInstall
  BY <1>2, <1>4 DEF BlkNoCard, BlkInstall, hwVars
<1>5. CASE BlkIssue \/ BlkCommand
  <2>1. UNCHANGED <<media, fvbVars>> /\ blk.pc \notin BlkAtRest
    BY <1>5 DEF BlkIssue, BlkCommand, BlkAtRest
  <2> QED BY <1>2, <1>3, <1>5, <2>1 DEF BlkIssue, BlkCommand, BlkReady
<1>6. CASE BlkRegister
  <2>1. PICK r \in DOMAIN Following : blk.pc = r /\ blk' = [blk EXCEPT !.pc = Following[r]]
    BY <1>6 DEF BlkRegister
  <2>2. UNCHANGED <<media, fvbVars>> /\ blk.pc \notin BlkAtRest
    BY <1>6, <2>1 DEF BlkRegister, sdVars, Following, BlkAtRest
  <2>3. Following[r] \in {"mode", "arg", "command"}
    BY DEF Following
  <2> QED BY <1>3, <2>1, <2>2, <2>3
<1>7. CASE BlkData
  <2>1. UNCHANGED <<fvb, mirror, buffer>> /\ blk.pc = "data" /\ Arrive(BlkPart) /\ blk' = [blk EXCEPT !.pc = "end"]
    BY <1>7 DEF BlkData
  <2>2. blk' \in BlkRecords /\ Outside(blk')
    BY <2>1, NextStepFields DEF BlkAtRest
  <2> QED BY <1>1, <2>1, <2>2, PartFields, ArriveKeepsStore DEF StoreInv
<1>8. CASE BlkDataFails
  <2>1. UNCHANGED <<fvb, mirror, buffer>> /\ blk.pc = "data" /\ blk' = NoBlk("ready")
    BY <1>8 DEF BlkDataFails, BlkReady
  <2>2. PICK n \in Arriving : Arrive(n)
    BY <1>8 DEF BlkDataFails
  <2>3. blk' \in BlkRecords /\ Outside(blk')
    BY <2>1, NoBlkFields DEF BlkAtRest
  <2> QED BY <1>1, <2>1, <2>2, <2>3, ArrivingFields, ArriveKeepsStore
<1>9. CASE BlkEndFails
  BY <1>2, <1>9 DEF BlkEndFails, BlkReady, hwVars
<1> QED BY <1>1, <1>4, <1>5, <1>6, <1>7, <1>8, <1>9, EndKeepsStore DEF BlkRun, BlkTransfer

\* The partitions leave the volume alone.
LEMMA BlkRequestKeepsStore == StoreInv /\ BlkRequest /\ FvbIdle => StoreInv'
<1> SUFFICES ASSUME StoreInv, BlkRequest, FvbIdle
             PROVE  StoreInv'
  OBVIOUS
<1>1. PICK r \in BlkRequests, v \in Data :
        blk' = [pc |-> "issue", op |-> r[1], lba |-> r[2], left |-> r[3], val |-> v]
  BY DEF BlkRequest
<1>2. /\ r[1] \in {"read", "write"} /\ r[2] \in Nat /\ r[3] \in Nat /\ r[3] > 0
      /\ r[2] + r[3] <= VarBlock \/ VarBlock * BlockSize + VarSize <= r[2] * BlockSize
  BY CallerAssumption DEF CallerAssumption
<1>3. blk' \in BlkRecords /\ Outside(blk')
  BY <1>1, <1>2, Contents DEF BlkRecords, Outside, VarBase
<1>4. fvb.pc # "store" /\ UNCHANGED <<media, fvbVars>>
  BY DEF FvbIdle, BlkRequest, sdVars
<1> QED BY <1>3, <1>4, BlockStepNoData

LEMMA PowerLossKeepsStore == StoreInv /\ PowerLoss => StoreInv'
<1> SUFFICES ASSUME StoreInv, PowerLoss
             PROVE  StoreInv'
  OBVIOUS
<1>1. /\ fvb' = Quiet("off") /\ blk' = NoBlk("off") /\ media' = media /\ suspect' = Offset
      /\ mirror' \in {mirror, [o \in Offset |-> Erased]} /\ buffer' = [i \in 0 .. BlockSize - 1 |-> Erased]
  BY DEF PowerLoss
<1>2. fvb' \in FvbRecords /\ fvb'.pc = "off" /\ fvb'.at = 0 /\ fvb'.left = 0
  BY <1>1, QuietFields
<1>3. blk' \in BlkRecords /\ Outside(blk')
  BY <1>1, NoBlkFields DEF BlkAtRest
<1>4. mirror' \in [Offset -> Val] /\ buffer' \in [0 .. BlockSize - 1 -> Val]
  BY <1>1, Contents DEF StoreInv, StoreTypes
<1>5. StoreTypes'
  BY <1>1, <1>2, <1>3, <1>4 DEF StoreInv, StoreTypes, FvbRecords, BlkRecords, Offset, Cell, EraseTuples
<1>6. Served'
  BY <1>2, <1>3, Sizes DEF Served, Outside, VarBase
<1>7. BlockReady' /\ Agree'
  BY <1>1, <1>2 DEF BlockReady, Agree, Offset
<1> QED BY <1>5, <1>6, <1>7 DEF StoreInv

LEMMA IdentifyKeepsMedia == Identify => media' = media
  BY DEF Identify, IdentInit, IdentClock, IdentWidth, IdentCommand, IdentBusy, IdentFails, IdentDevStatus,
         IdentDone, hwVars

LEMMA DispatchKeepsStore == StoreInv /\ Dispatch => StoreInv'
<1> SUFFICES ASSUME StoreInv, Dispatch
             PROVE  StoreInv'
  OBVIOUS
<1>1. CASE FvbEntry
  BY <1>1, RestStep DEF FvbEntry, IdentStart, hwVars, blkVars
<1>2. CASE BlkEntry
  <2>1. blk' = NoBlk("ident") /\ fvb.pc # "store" /\ UNCHANGED <<media, fvbVars>>
    BY <1>2 DEF BlkEntry, FvbIdle, IdentStart, hwVars
  <2> QED BY <2>1, NoBlkFields, BlockStepNoData DEF BlkAtRest
<1> QED BY <1>1, <1>2 DEF Dispatch

\* Where the volume's contents are, and what is under way with them.
THEOREM SdStoreInvariant == SdFvbSpec => []StoreInv
<1>1. ASSUME SdFvbInit
      PROVE  StoreInv
  <2>1. media \in [Cell -> Val]
    BY <1>1 DEF SdFvbInit, SdInit
  <2>2. /\ fvb = Quiet("off") /\ blk = NoBlk("off") /\ suspect = Offset
        /\ mirror = [o \in Offset |-> Erased] /\ buffer = [i \in 0 .. BlockSize - 1 |-> Erased]
    BY <1>1 DEF SdFvbInit, FvbInit
  <2>3. fvb \in FvbRecords /\ fvb.pc = "off" /\ fvb.at = 0 /\ fvb.left = 0
    BY <2>2, QuietFields
  <2>4. blk \in BlkRecords /\ Outside(blk)
    BY <2>2, NoBlkFields DEF BlkAtRest
  <2>5. mirror \in [Offset -> Val] /\ buffer \in [0 .. BlockSize - 1 -> Val]
    BY <2>2, Contents
  <2>6. StoreTypes
    BY <2>1, <2>2, <2>3, <2>4, <2>5 DEF StoreTypes
  <2>7. Served /\ BlockReady /\ Agree
    BY <2>2, <2>3, <2>4, Sizes DEF Served, Outside, BlockReady, Agree
  <2> QED BY <2>6, <2>7 DEF StoreInv
<1>2. ASSUME StoreInv, [SdFvbNext]_vars
      PROVE  StoreInv'
  <2>1. ASSUME media' = media, UNCHANGED <<fvbVars, blk>>
        PROVE  StoreInv'
    BY <1>2, <2>1 DEF StoreInv, StoreTypes, Served, BlockReady, Agree, fvbVars, FvbRecords, BlkRecords, Offset,
                      Cell, VarBase, EraseTuples, AtBlock, BlockOf, PartOffsets, Part, MinOf, BlkAtRest
  <2>2. CASE Run
    BY <1>2, <2>1, <2>2, IdentifyKeepsMedia, FvbKeepsStore, BlkKeepsStore DEF Run, blkVars
  <2>3. CASE Request
    BY <1>2, <2>3, FvbRequestKeepsStore, BlkRequestKeepsStore DEF Request
  <2>4. CASE UNCHANGED vars
    BY <2>1, <2>4 DEF vars, sdVars, blkVars
  <2> QED BY <1>2, <2>2, <2>3, <2>4, DispatchKeepsStore, PowerLossKeepsStore DEF SdFvbNext
<1> QED BY <1>1, <1>2, PTL DEF SdFvbSpec

\* SdFvbRead refreshes the mirror and SdFvbWrite and SdFvbErase write through it, block by block
\* with fetched neighbours: what callers see in memory is what the card holds, but for the
\* offsets that a failed transfer left behind or that the data of a redirected block request hit.
THEOREM SdCardMirrored == SdFvbSpec => []CardMirrored
<1>1. StoreInv /\ CardInv => CardMirrored
  <2> SUFFICES ASSUME StoreInv, CardInv
               PROVE  CardMirrored
    OBVIOUS
  <2>1. /\ card.kind \in {"sd", "mmc", "none"} /\ card.width \in {1, 4, 8}
        /\ host.width \in {1, 4, 8} /\ host.clk \in {"off", "init", "default"} /\ total \in [Driver -> BOOLEAN]
    BY DEF CardInv, CardTypes, CardRecords
  <2>2. fvb.at + fvb.left \in 0 .. VarSize
    BY Sizes DEF StoreInv, StoreTypes, FvbRecords, Served
  <2>3. SdTypeOK
    BY <2>1, <2>2 DEF SdTypeOK, StoreInv, StoreTypes
  <2>4. MirrorMatchesCard
    BY DEF StoreInv, Agree, MirrorMatchesCard
  <2> QED BY <2>3, <2>4 DEF CardMirrored
<1> QED BY <1>1, SdCardInvariant, SdStoreInvariant, PTL

----------------------------------------------------------------------------
(***************************************************************************)
(* The registers of a block command.                                       *)
(***************************************************************************)
InVolume(b) == CellsOf(b, 1) \subseteq Volume

\* From the write of ARGUMENT on it names the block of the request, unless a request to the
\* volume has left its own command for one block there.
RegInv ==
  /\ DOMAIN regs = {"count", "mode", "arg"} /\ regs.arg \in Nat
  /\ blk.pc \in {"command", "data"} => regs.arg = blk.lba \/ (regs.count = 1 /\ InVolume(regs.arg))

\* The volume is made of whole blocks.
LEMMA AtBlockInVolume ==
  ASSUME StoreTypes, Served, fvb.left > 0
  PROVE  InVolume(AtBlock)
<1>1. fvb.at \in Nat /\ fvb.left \in Nat /\ fvb.at < VarSize /\ VarSize \in Nat
  BY Sizes DEF StoreTypes, FvbRecords, Served
<1>2. PICK r \in 0 .. BlockSize - 1 : r = fvb.at % BlockSize
  BY <1>1, BlockDivision
<1>3. PICK q \in Nat : q = BlockOf(fvb.at)
  BY <1>1, BlockDivision
<1>4. fvb.at = q * BlockSize + r
  BY <1>1, <1>2, <1>3, BlockDivision
<1>5. /\ q * BlockSize \in Nat /\ VarBlock + q \in Nat /\ (VarBlock + q) * BlockSize \in Nat
      /\ (VarBlock + q) * BlockSize = VarBase + q * BlockSize
      /\ BlockSize \in Nat \ {0} /\ VarBase \in Nat
  BY Sizes DEF VarBase
<1>6. AtBlock = VarBlock + q
  <2>1. VarBase + fvb.at \in Nat
    BY <1>1, <1>5
  <2>2. (VarBlock + q) * BlockSize <= VarBase + fvb.at /\ VarBase + fvb.at < (VarBlock + q) * BlockSize + BlockSize
    BY <1>2, <1>4, <1>5
  <2> QED BY <1>5, <2>1, <2>2, BlockIs DEF AtBlock
<1>7. PICK w \in Nat : VarSize = w * BlockSize
  <2>1. VarSize % BlockSize = 0
    BY SdFvbAssumption DEF SdFvbAssumption
  <2>2. PICK k \in Nat : k = BlockOf(VarSize)
    BY <1>1, BlockDivision
  <2>3. VarSize = k * BlockSize + 0
    BY <1>1, <2>1, <2>2, BlockDivision
  <2>4. VarSize = k * BlockSize
    BY <1>5, <2>2, <2>3
  <2> QED BY <2>2, <2>4
<1>8. q * BlockSize + BlockSize <= VarSize
  <2>1. SUFFICES ASSUME w <= q
                 PROVE  FALSE
    <3>1. q + 1 <= w => (q + 1) * BlockSize <= w * BlockSize
      BY TimesBlockSize
    <3>2. (q + 1) * BlockSize = q * BlockSize + BlockSize
      BY <1>5
    <3> QED BY <1>7, <3>1, <3>2
  <2>2. w * BlockSize <= q * BlockSize
    BY <2>1, TimesBlockSize
  <2> QED BY <1>1, <1>2, <1>4, <1>5, <1>7, <2>2
<1>9. ((VarBlock + q) + 1) * BlockSize = (VarBlock + q) * BlockSize + BlockSize
  BY <1>5
<1>10. ASSUME NEW a \in CellsOf(AtBlock, 1)
       PROVE  a \in Volume
  <2>1. a \in Nat
    BY CellIsNat DEF CellsOf
  <2>2. (VarBlock + q) * BlockSize <= a /\ a <= (VarBlock + q) * BlockSize + BlockSize - 1
    BY <1>5, <1>6, <1>9, <2>1 DEF CellsOf
  <2>3. a - VarBase \in Offset /\ a = VarBase + (a - VarBase)
    BY <1>1, <1>5, <1>8, <2>1, <2>2 DEF Offset
  <2> QED BY <2>3 DEF Volume
<1> QED BY <1>10 DEF InVolume

\* The block device is where it was; the volume may have had a command.
LEMMA VolumeKeepsRegs ==
  ASSUME StoreInv, RegInv, blk' = blk,
         \/ regs' = regs
         \/ fvb.left > 0 /\ \E op \in {"read", "write"} : regs' = Command(op, AtBlock)
  PROVE  RegInv'
<1>1. CASE regs' = regs
  BY <1>1 DEF RegInv, InVolume, CellsOf, Volume, Offset, VarBase, Cell
<1>2. CASE fvb.left > 0 /\ regs' # regs /\ \E op \in {"read", "write"} : regs' = Command(op, AtBlock)
  <2>1. PICK op \in {"read", "write"} : regs' = [count |-> 1, mode |-> <<op, FALSE>>, arg |-> AtBlock]
    BY <1>2 DEF Command
  <2>2. DOMAIN regs' = {"count", "mode", "arg"} /\ regs'.count = 1 /\ regs'.arg = AtBlock
    BY <2>1
  <2>3. InVolume(regs'.arg) /\ regs'.arg \in Nat
    BY <1>2, <2>2, AtBlockInVolume, BlockAtHand DEF StoreInv
  <2> QED BY <2>2, <2>3 DEF RegInv, InVolume, CellsOf, Volume, Offset, VarBase, Cell
<1> QED BY <1>1, <1>2

LEMMA FvbKeepsRegs == StoreInv /\ RegInv /\ FvbRun => RegInv'
<1> SUFFICES ASSUME StoreInv, RegInv, FvbRun
             PROVE  RegInv'
  OBVIOUS
<1>1. ASSUME NEW op \in {"read", "write"}, regs' \in Registers(op)
      PROVE  regs' = regs \/ regs' = Command(op, AtBlock)
  BY <1>1 DEF Registers
<1>2. CASE FvbBootRead \/ FvbReading \/ FvbFetch
  <2>1. blk' = blk /\ fvb.left > 0
    BY <1>2 DEF FvbBootRead, FvbReading, FvbFetch
  <2>2. regs' = Command("read", AtBlock) \/ regs' \in Registers("read")
    BY <1>2 DEF FvbBootRead, FvbReading, FvbFetch, ReadStep, ReadFails, WriteFetch, FetchFails
  <2> QED BY <1>1, <2>1, <2>2, VolumeKeepsRegs
<1>3. CASE FvbStore
  <2>1. blk' = blk /\ fvb.left > 0
    BY <1>3 DEF FvbStore, StoreInv, BlockReady
  <2>2. regs' = Command("write", AtBlock) \/ regs' \in Registers("write")
    BY <1>3 DEF FvbStore, WriteStore, WriteFails
  <2> QED BY <1>1, <2>1, <2>2, VolumeKeepsRegs
<1>4. CASE FvbNoCard \/ FvbAllocate \/ FvbHeadersFound \/ FvbFormat \/ FvbReadDone \/ EraseTuple \/ EraseEnds
             \/ FvbWritten
  <2>1. UNCHANGED blkVars
    BY <1>4 DEF FvbNoCard, FvbAllocate, FvbHeadersFound, FvbFormat, FvbReadDone, EraseTuple, EraseEnds, FvbWritten
  <2> QED BY <2>1, VolumeKeepsRegs DEF blkVars
<1> QED BY <1>2, <1>3, <1>4 DEF FvbRun

\* The block device at rest or before its command has no use for the registers.
LEMMA EarlyKeepsRegs ==
  ASSUME RegInv, regs' = regs \/ regs' = NoCommand, blk'.pc \notin {"command", "data"}
  PROVE  RegInv'
<1>1. NoCommand.arg = 0 /\ DOMAIN NoCommand = {"count", "mode", "arg"}
  BY DEF NoCommand
<1>2. DOMAIN regs' = {"count", "mode", "arg"} /\ regs'.arg \in Nat
  BY <1>1 DEF RegInv
<1> QED BY <1>2 DEF RegInv

LEMMA BlkKeepsRegs == StoreInv /\ RegInv /\ BlkRun => RegInv'
<1> SUFFICES ASSUME StoreInv, RegInv, BlkRun
             PROVE  RegInv'
  OBVIOUS
<1>1. blk \in BlkRecords
  BY DEF StoreInv, StoreTypes
<1>2. ASSUME NEW pc \in BlkAtRest, blk' = NoBlk(pc), regs' = regs \/ regs' = NoCommand
      PROVE  RegInv'
  BY <1>2, NoBlkFields, EarlyKeepsRegs DEF BlkAtRest
<1>3. CASE BlkNoCard \/ BlkInstall
  BY <1>2, <1>3 DEF BlkNoCard, BlkInstall, BlkAtRest
<1>4. CASE BlkIssue
  <2>1. CASE blk' = [blk EXCEPT !.pc = "count"]
    <3>1. blk'.pc = "count"
      BY <1>1, <2>1 DEF BlkRecords
    <3> QED BY <1>4, <3>1, EarlyKeepsRegs DEF BlkIssue
  <2> QED BY <1>2, <1>4, <2>1 DEF BlkIssue, BlkAtRest
<1>5. CASE BlkRegister
  <2>1. PICK r \in {"count", "mode", "arg"} :
          blk.pc = r /\ regs' = [regs EXCEPT ![r] = BlkRegisters[r]] /\ blk' = [blk EXCEPT !.pc = Following[r]]
    BY <1>5 DEF BlkRegister, Following
  <2>2. blk'.pc = Following[r] /\ blk'.lba = blk.lba /\ DOMAIN regs' = {"count", "mode", "arg"}
    BY <1>1, <2>1 DEF BlkRecords, RegInv
  <2>3. CASE r = "arg"
    <3>1. regs'.arg = blk.lba /\ blk.lba \in Nat
      BY <1>1, <2>1, <2>3 DEF RegInv, BlkRegisters, BlkRecords
    <3> QED BY <2>2, <3>1 DEF RegInv
  <2>4. CASE r # "arg"
    <3>1. blk'.pc \notin {"command", "data"}
      BY <2>1, <2>2, <2>4 DEF Following
    <3>2. regs'.arg = regs.arg
      BY <2>1, <2>4 DEF RegInv
    <3> QED BY <2>2, <3>1, <3>2 DEF RegInv
  <2> QED BY <2>3, <2>4
<1>6. CASE BlkCommand
  <2>1. CASE blk' = [blk EXCEPT !.pc = "data"] /\ regs' = regs
    <3>1. blk'.lba = blk.lba /\ blk.pc = "command"
      BY <1>1, <1>6, <2>1 DEF BlkRecords, BlkCommand
    <3> QED BY <2>1, <3>1 DEF RegInv, InVolume, CellsOf, Volume, Offset, VarBase, Cell
  <2> QED BY <1>2, <1>6, <2>1 DEF BlkCommand, BlkReady, BlkAtRest
<1>7. CASE BlkData
  <2>1. blk'.pc = "end" /\ regs' = regs
    BY <1>1, <1>7 DEF BlkData, BlkRecords
  <2> QED BY <2>1, EarlyKeepsRegs
<1>8. CASE BlkDataFails \/ BlkEndFails
  BY <1>2, <1>8 DEF BlkDataFails, BlkEndFails, BlkReady, BlkAtRest
<1>9. CASE BlkEnd
  <2>1. CASE blk' = [blk EXCEPT !.pc = "issue", !.lba = @ + BlkPart, !.left = @ - BlkPart] /\ regs' = NoCommand
    <3>1. blk'.pc = "issue"
      BY <1>1, <2>1 DEF BlkRecords
    <3> QED BY <2>1, <3>1, EarlyKeepsRegs
  <2> QED BY <1>2, <1>9, <2>1 DEF BlkEnd, BlkReady, BlkAtRest
<1> QED BY <1>3, <1>4, <1>5, <1>6, <1>7, <1>8, <1>9 DEF BlkRun, BlkTransfer

LEMMA OthersKeepRegs ==
  ASSUME StoreInv, RegInv, (Identify /\ UNCHANGED blkVars) \/ Dispatch \/ Request \/ PowerLoss \/ UNCHANGED vars
  PROVE  RegInv'
<1>1. CASE UNCHANGED blkVars
  BY <1>1, VolumeKeepsRegs DEF blkVars
<1>2. CASE PowerLoss \/ BlkEntry
  <2>1. PICK pc \in BlkAtRest : blk' = NoBlk(pc)
    BY <1>2 DEF PowerLoss, BlkEntry, BlkAtRest
  <2>2. regs' = regs \/ regs' = NoCommand
    BY <1>2 DEF PowerLoss, BlkEntry
  <2>3. blk'.pc \notin {"command", "data"}
    BY <2>1, NoBlkFields DEF BlkAtRest
  <2> QED BY <2>2, <2>3, EarlyKeepsRegs
<1>3. CASE BlkRequest
  <2>1. blk'.pc = "issue" /\ regs' = regs
    BY <1>3 DEF BlkRequest
  <2> QED BY <2>1, EarlyKeepsRegs
<1>4. CASE FvbEntry \/ FvbRead \/ FvbWrite \/ FvbErase
  BY <1>1, <1>4 DEF FvbEntry, FvbRead, FvbWrite, FvbErase
<1> QED BY <1>1, <1>2, <1>3, <1>4 DEF Dispatch, Request, vars

LEMMA RegisterInvariant == SdFvbSpec => []RegInv
<1>1. SdFvbInit => RegInv
  BY NoBlkFields DEF SdFvbInit, FvbInit, RegInv, NoCommand, BlkAtRest
<1>2. StoreInv /\ RegInv /\ [SdFvbNext]_vars => RegInv'
  BY FvbKeepsRegs, BlkKeepsRegs, OthersKeepRegs DEF SdFvbNext, Run
<1> QED BY <1>1, <1>2, SdStoreInvariant, PTL DEF SdFvbSpec

\* What arrives for a request whose ARGUMENT was replaced is one block of the volume; what
\* arrives for any other lies in the request.
LEMMA HitConfined ==
  ASSUME StoreInv, RegInv, blk.pc = "data", NEW n \in Nat, n \in Arriving \/ (AsIssued /\ n = BlkPart)
  PROVE  Hit(n) \subseteq IF Redirected THEN CellsOf(regs.arg, 1) \cap Volume ELSE CellsOf(blk.lba, blk.left)
<1>1. StoreTypes /\ blk.left \in Nat /\ blk.lba \in Nat /\ BlkPart \in Nat /\ BlkPart <= blk.left /\ n <= blk.left
  BY PartFields, ArrivingFields DEF StoreInv
<1>2. CASE Redirected
  <2>1. regs.count = 1 /\ InVolume(regs.arg)
    BY <1>2 DEF RegInv, Redirected
  <2>2. n = 0 \/ n = 1
    BY <1>1, <2>1 DEF Arriving, AsIssued
  <2>3. CASE n = 1
    BY <1>2, <2>1, <2>3 DEF Hit, InVolume
  <2>4. CASE n = 0
    <3>1. SUFFICES ASSUME NEW a \in CellsOf(regs.arg, 0)
                   PROVE  FALSE
      BY <2>4 DEF Hit
    <3>2. regs.arg * BlockSize \in Nat /\ regs.arg + 0 = regs.arg
      BY Sizes DEF RegInv
    <3> QED BY <3>1, <3>2 DEF CellsOf
  <2> QED BY <2>2, <2>3, <2>4
<1>3. CASE ~Redirected
  <2>1. blk.lba + n <= blk.lba + blk.left /\ blk.lba + n \in Nat /\ blk.lba + blk.left \in Nat
    BY <1>1
  <2>2. (blk.lba + n) * BlockSize <= (blk.lba + blk.left) * BlockSize
    BY <2>1, TimesBlockSize
  <2>3. (blk.lba + n) * BlockSize \in Nat /\ (blk.lba + blk.left) * BlockSize \in Nat /\ blk.lba * BlockSize \in Nat
    BY <1>1, <2>1, Sizes
  <2>4. CellsOf(blk.lba, n) \subseteq CellsOf(blk.lba, blk.left)
    BY <2>2, <2>3 DEF CellsOf
  <2> QED BY <1>3, <2>4 DEF Hit, Redirected
<1> QED BY <1>2, <1>3

\* SdWrite rewrites whole blocks and SdWriteBlocks writes part by part.  A request to the volume
\* changes no byte that its caller did not ask for, whatever it interrupts or fails at.  Nor does
\* a block request, unless a request to the volume has replaced its ARGUMENT (SdLib.c:509): then
\* what it changes lies in one block of the volume.
THEOREM SdWritesConfined == SdFvbSpec => WritesConfined
<1>1. ASSUME StoreInv, RegInv, [SdFvbNext]_vars
      PROVE  WriteConfined
  <2>1. CASE media' = media
    BY <2>1 DEF WriteConfined
  <2>2. CASE FvbStore
    <3>1. /\ ~FvbIdle /\ fvb.pc = "store" /\ fvb.left > 0 /\ StoreTypes /\ Served
          /\ media \in [Cell -> Val]
      BY <1>1, <2>2 DEF FvbStore, FvbIdle, StoreInv, StoreTypes, BlockReady
    <3>2. PartOffsets \subseteq RestOffsets
      BY <3>1, BlockAtHand
    <3>3. media' = Stored \/ \A a \in Cell : media'[a] = media[a]
      <4>1. CASE DataWorks
        BY <2>2, <4>1 DEF FvbStore, WriteStore, WriteFails, Stored
      <4>2. CASE ~DataWorks
        BY <2>2, <4>2 DEF FvbStore, WriteStore, WriteFails
      <4> QED BY <4>1, <4>2
    <3>4. ASSUME NEW a \in Cell, media'[a] # media[a]
          PROVE  a \in Requested
      <4>1. a - VarBase \in PartOffsets
        BY <1>1, <3>1, <3>3, <3>4, StoredCells
      <4>2. a = VarBase + (a - VarBase)
        BY CellIsNat, Sizes
      <4> QED BY <3>2, <4>1, <4>2 DEF Requested
    <3> QED BY <3>1, <3>4 DEF WriteConfined
  <2>3. CASE BlkRun /\ (BlkData \/ BlkDataFails)
    <3>1. FvbIdle /\ blk.pc = "data"
      BY <2>3 DEF BlkRun, BlkData, BlkDataFails
    <3>2. PICK n \in Nat : Arrive(n) /\ (n \in Arriving \/ (AsIssued /\ n = BlkPart))
      <4>1. CASE BlkData
        BY <1>1, <4>1, PartFields DEF BlkData, StoreInv
      <4>2. CASE BlkDataFails
        BY <1>1, <3>1, <4>2, ArrivingFields DEF BlkDataFails
      <4> QED BY <2>3, <4>1, <4>2
    <3>3. media \in [Cell -> Val]
      BY <1>1 DEF StoreInv, StoreTypes
    <3>4. \A a \in Cell : media'[a] # media[a] => a \in Hit(n)
      BY <3>2, <3>3 DEF Arrive
    <3>5. Hit(n) \subseteq IF Redirected THEN CellsOf(regs.arg, 1) \cap Volume ELSE CellsOf(blk.lba, blk.left)
      BY <1>1, <3>1, <3>2, HitConfined
    <3> QED BY <3>1, <3>4, <3>5 DEF WriteConfined
  <2>5. CASE FvbRun /\ ~FvbStore
    BY <2>1, <2>5 DEF FvbRun, FvbNoCard, FvbAllocate, FvbBootRead, FvbHeadersFound, FvbFormat, FvbReading,
                      FvbReadDone, EraseTuple, EraseEnds, FvbFetch, FvbWritten, ReadStep, ReadFails, WriteFetch,
                      FetchFails, sdVars, hwVars
  <2>6. CASE BlkRun /\ ~(BlkData \/ BlkDataFails)
    BY <2>1, <2>6 DEF BlkRun, BlkTransfer, BlkNoCard, BlkInstall, BlkIssue, BlkRegister, BlkCommand, BlkEnd,
                      BlkEndFails, sdVars, hwVars
  <2>7. CASE Dispatch \/ Request \/ PowerLoss \/ UNCHANGED vars
    BY <2>1, <2>7 DEF Dispatch, FvbEntry, BlkEntry, IdentStart, Request, FvbRead, FvbWrite, FvbErase, BlkRequest,
                      PowerLoss, vars, sdVars, hwVars
  <2> QED BY <1>1, <2>1, <2>2, <2>3, <2>5, <2>6, <2>7, IdentifyKeepsMedia DEF SdFvbNext, Run
<1> QED BY <1>1, SdStoreInvariant, RegisterInvariant, PTL DEF SdFvbSpec, WritesConfined
=============================================================================
