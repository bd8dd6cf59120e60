------------------------------- MODULE SdLib -------------------------------
(***************************************************************************)
(* The SD and eMMC library (Platform/Baikal/Library/SdLib): the host       *)
(* controller, the identification of the card, and block transfers.        *)
(*                                                                         *)
(* The library is linked into every driver that uses it, so that each has  *)
(* a copy of mTotalSize, while the controller and the card are shared.     *)
(* A command is one step: it is answered if the card is in a state in      *)
(* which it knows the command and the controller speaks to it over the     *)
(* width and clock it listens to, and times out otherwise (SdFvbDxe takes  *)
(* apart those of a driver that can be interrupted).  Any command          *)
(* may fail; MaxFaults bounds how many do.  The card is external: its      *)
(* states are those the comments and commands of the library rely on.      *)
(***************************************************************************)
EXTENDS Naturals, Sequences, FiniteSets

CONSTANTS
  Driver,      \* the drivers that link the library
  Card,        \* the cards that may be in the slot: records [kind, csd]
  Blocks,      \* the size of the card, in blocks
  BlockSize,   \* SDHCI_BLOCK_SIZE_DEFAULT, in cells
  PartBlocks,  \* SDHCI_PARTSIZE, in blocks
  Val,         \* contents of a cell
  MaxTry,      \* bound: repeated CMD1 and ACMD41 (10 in the code)
  MaxFaults    \* bound: commands that fail

ASSUME SdAssumption ==
  /\ Blocks \in Nat \ {0} /\ BlockSize \in Nat \ {0} /\ PartBlocks \in Nat \ {0}
  /\ MaxTry \in Nat /\ MaxFaults \in Nat
  /\ Card \subseteq [kind : {"sd", "mmc", "none"}, csd : Nat]

VARIABLES
  card,        \* external: [kind, csd, st, width]
  host,        \* the controller: [clk, width, stuck, busy, cut]
  media,       \* external: [Cell -> Val], what the card holds
  total,       \* [Driver -> BOOLEAN]: mTotalSize # 0
  ident,       \* the identification under way
  outcome,     \* history: how the last identification ended
  faults       \* commands that have failed

sdVars == <<card, host, media, total, ident, outcome, faults>>
hwVars == <<card, host, media>>

Cell == 0 .. Blocks * BlockSize - 1
BlockOf(a)    == a \div BlockSize
CellsOf(b, n) == Cell \cap (b * BlockSize .. (b + n) * BlockSize - 1)

----------------------------------------------------------------------------
(* The card.  A command moves it along the rows of a table; a command that *)
(* is in no row for its state is not answered.                             *)

\* A row: the command, the cards that know it, the state it is given in and the next.
Both == {"sd", "mmc"}

\* SdResetCmd
ResetRows == {<<"CMD0", Both, s, "idle">> : s \in {"idle", "ready", "ident", "stby", "tran"}}

\* SdVoltageCheck, SdGetOcrMmc, SdSendOpCond (CMD55 and ACMD41 in one)
OcrRows == {<<"CMD8", {"sd"}, "idle", "idle">>, <<"CMD1", {"mmc"}, "idle", "ready">>,
            <<"ACMD41", {"sd"}, "idle", "ready">>}

\* SdAllSendCid, SdSetRca, SdSelect
AddressRows == {<<"CMD2", Both, "ready", "ident">>, <<"CMD3", Both, "ident", "stby">>,
                <<"CMD7", Both, "stby", "tran">>}

\* SdSetBusWidth, SdSwitchBusWidthMmc, SdSendStatus
WidthRows == {<<"ACMD6", {"sd"}, "tran", "tran">>, <<"CMD6", {"mmc"}, "tran", "tran">>,
              <<"CMD13", Both, "tran", "tran">>}

\* SdGetCsd, SdGetExtCsd, SdGetCid
RegisterRows == {<<"CMD9", Both, "stby", "stby">>, <<"CMD10", Both, "stby", "stby">>,
                 <<"EXTCSD", {"mmc"}, "tran", "tran">>}

Rows == ResetRows \cup OcrRows \cup AddressRows \cup WidthRows \cup RegisterRows

Commands == {r[1] : r \in Rows}

\* CMD1 and ACMD41 are answered with busy, too, and then change nothing.
MayBeBusy == {"CMD1", "ACMD41", "CMD13"}

\* The card takes the bus width that ACMD6 or CMD6 asks for.
Widths == [c \in {"ACMD6", "CMD6"} |-> IF c = "ACMD6" THEN 4 ELSE 8]

----------------------------------------------------------------------------
(* The controller.  stuck: the data lines are inhibited after a command    *)
(* that ended early; busy: a data command is under way; cut: its status    *)
(* bits have been cleared by another command.                              *)

HostOff == [clk |-> "off", width |-> 1, stuck |-> FALSE, busy |-> FALSE, cut |-> FALSE]

\* SdReset, and power and internal clock on again: the card starts afresh.
SdInitHost ==
  /\ host' = HostOff
  /\ card' = [card EXCEPT !.st = "idle", !.width = 1]

\* SdClockSupply also resets the command and data lines.
SdClockSupply(clk) ==
  /\ host' = [host EXCEPT !.clk = clk, !.stuck = FALSE]
  /\ UNCHANGED card

SdConfigBusWidth(w) ==
  /\ host' = [host EXCEPT !.width = w]
  /\ UNCHANGED card

Fault == faults < MaxFaults /\ faults' = faults + 1

\* The two ends of the bus agree: data can pass.
WidthsAgree == host.width = card.width

TransferReady == card.st = "tran" /\ host.clk = "default" /\ WidthsAgree /\ ~host.stuck

\* SdCmdExec with data, in one piece: it waits until the lines are free, which they
\* never are while another data command is under way or after one that ended early.
DataWorks == TransferReady /\ ~host.busy

\* On its way out SdCmdExec clears all status bits, those of the other command, too.
DataFails ==
  /\ IF DataWorks THEN Fault ELSE UNCHANGED faults
  /\ \E s \in {host.stuck, DataWorks} :
       host' = [host EXCEPT !.stuck = s \/ @, !.cut = TRUE]

----------------------------------------------------------------------------
(* Identification: the eMMC sequence first, then the SD sequence.  A step  *)
(* is a command or a call that can fail.                                   *)

MmcPath == <<"INIT", "CLKINIT", "CMD0", "CMD1", "CMD2", "CMD3", "CMD9", "CMD7",
             "CMD6", "CMD13", "WIDTH8", "CLKDEF", "EXTCSD">>
\* Mutant: the controller stays at one data line after ACMD6.
SdPathNoWidth ==
           <<"INIT", "CLKINIT", "CMD0", "CMD8", "ACMD41", "CMD2", "CMD3", "CMD9",
             "CMD10", "CMD7", "ACMD6", "CMD13", "CLKDEF">>
SdPath  == <<"INIT", "CLKINIT", "CMD0", "CMD8", "ACMD41", "CMD2", "CMD3", "CMD9",
             "CMD10", "CMD7", "ACMD6", "CMD13", "WIDTH4", "CLKDEF">>

Path == [mmc |-> MmcPath, sd |-> SdPath]

NoIdent == [who |-> "none", path |-> "none", k |-> 0, try |-> 0]
Begin(d, p) == [who |-> d, path |-> p, k |-> 1, try |-> MaxTry]
Step == Path[ident.path][ident.k]

Proceed == ident' = [ident EXCEPT !.k = @ + 1, !.try = MaxTry]

\* The SD sequence looks for a card first; the SDIO sequence is not supported.
GiveUp ==
  IF ident.path = "mmc" /\ card.kind # "none"
  THEN ident' = Begin(ident.who, "sd") /\ UNCHANGED outcome
  ELSE ident' = [ident EXCEPT !.path = "failed"] /\ outcome' = "failed"

Answers(r, c) == r[1] = c /\ card.kind \in r[2] /\ r[3] = card.st
Answered(c)   == \E r \in Rows : Answers(r, c)
\* EXTCSD is the one command of the sequences with data.
Understood(c) == host.clk # "off" /\ ~host.stuck /\ Answered(c) /\ (c = "EXTCSD" => WidthsAgree)

\* SdIdentification starts, unless this copy of the library knows the size already.
IdentStart(d) ==
  /\ ident = NoIdent
  /\ ident' = IF total[d] THEN [Begin(d, "done") EXCEPT !.k = 0] ELSE Begin(d, "mmc")
  /\ UNCHANGED <<hwVars, total, outcome, faults>>

Running(c) == ident.path \in DOMAIN Path /\ ident.k <= Len(Path[ident.path]) /\ Step = c

IdentInit ==
  /\ Running("INIT")
  /\ SdInitHost
  /\ Proceed
  /\ UNCHANGED <<media, total, outcome, faults>>

IdentClock ==
  \E c \in {<<"CLKINIT", "init">>, <<"CLKDEF", "default">>} :
    /\ Running(c[1])
    /\ SdClockSupply(c[2])
    /\ Proceed
    /\ UNCHANGED <<media, total, outcome, faults>>

IdentWidth ==
  \E c \in {<<"WIDTH4", 4>>, <<"WIDTH8", 8>>} :
    /\ Running(c[1])
    /\ SdConfigBusWidth(c[2])
    /\ Proceed
    /\ UNCHANGED <<media, total, outcome, faults>>

\* A command is answered: the card changes state, and its width with ACMD6 or CMD6.
IdentCommand ==
  \E r \in Rows :
    /\ Running(r[1])
    /\ Understood(r[1])
    /\ Answers(r, r[1])
    /\ card' = [card EXCEPT !.st = r[4], !.width = IF r[1] \in DOMAIN Widths THEN Widths[r[1]] ELSE @]
    /\ Proceed
    /\ UNCHANGED <<host, media, total, outcome, faults>>

\* The card is still busy: the command is sent again, unless the tries are used up.
IdentBusy ==
  \E c \in MayBeBusy :
    /\ Running(c)
    /\ Understood(c)
    /\ c = "CMD13" => ident.path = "mmc"
    /\ IF ident.try > 0
       THEN ident' = [ident EXCEPT !.try = @ - 1] /\ UNCHANGED outcome
       ELSE GiveUp
    /\ UNCHANGED <<hwVars, total, faults>>

\* A command nobody answers, or one that fails; a clock that does not become stable.
\* SdClockSupply stops the clock before it waits.
IdentFails ==
  /\ \E c \in Commands \cup {"CLKINIT", "CLKDEF"} :
       /\ Running(c)
       /\ \/ c \in Commands /\ ~Understood(c) /\ UNCHANGED faults
          \/ Fault
       /\ IF c \in Commands THEN UNCHANGED host ELSE host' = [host EXCEPT !.clk = "off"]
  /\ GiveUp
  /\ UNCHANGED <<card, media, total>>

\* SdSwitchBusWidthSd tests DevStatus, which SdSendStatus never writes.
IdentDevStatus ==
  /\ ident.path = "sd"
  /\ Running("CMD13")
  /\ Understood("CMD13")
  /\ GiveUp
  /\ UNCHANGED <<hwVars, total, faults>>

\* SdCalcCapacity: a CSD of version 2 has no size, one of version 3 has it in
\* the extended CSD, which only the eMMC sequence reads.
HasCapacity(kind, csd) == csd \in {0, 1} \/ (csd = 3 /\ kind = "mmc")

IdentDone ==
  /\ ident.path \in DOMAIN Path
  /\ ident.k > Len(Path[ident.path])
  /\ total' = [total EXCEPT ![ident.who] = HasCapacity(card.kind, card.csd)]
  /\ ident' = [ident EXCEPT !.path = "done", !.k = 0]
  /\ outcome' = "ok"
  /\ UNCHANGED <<hwVars, faults>>

Identify ==
  /\ ident.path \in DOMAIN Path
  /\ IdentInit \/ IdentClock \/ IdentWidth \/ IdentCommand \/ IdentBusy
       \/ IdentFails \/ IdentDevStatus \/ IdentDone

\* The driver has seen the result.
IdentSeen(d, result) == ident.who = d /\ ident.path = result

SdInit(c) ==
  /\ card = [kind |-> c.kind, csd |-> c.csd, st |-> "off", width |-> 1]
  /\ host = HostOff
  /\ media \in [Cell -> Val]
  /\ total = [d \in Driver |-> FALSE]
  /\ ident = NoIdent
  /\ outcome = "none"
  /\ faults = 0

\* Power fails: the card keeps its contents, everything else is gone.
SdPowerLoss ==
  /\ card' = [card EXCEPT !.st = "off", !.width = 1]
  /\ host' = HostOff
  /\ total' = [d \in Driver |-> FALSE]
  /\ ident' = NoIdent
  /\ outcome' = "none"

\* Once the last identification has succeeded, by whichever driver, and no transfer has
\* left the data lines inhibited, the card is selected and both ends of the bus agree:
\* every later transfer can work.
ReadyAfterIdent ==
  (outcome = "ok" /\ ident = NoIdent /\ ~host.stuck) => TransferReady
=============================================================================
