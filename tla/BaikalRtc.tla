----------------------------- MODULE BaikalRtc -----------------------------
(* BaikalRtcLib on top of I2cTxRx: LibGetTime and LibSetTime for the two kinds of clock chip, their   *)
(* register image in BCD, and the two EFI variables that hold what the chips do not.  A transfer      *)
(* either does all of it or fails before the chip takes anything.  The clock does not tick here:      *)
(* both chips hand out one consistent snapshot.                                                       *)
EXTENDS Naturals

CONSTANTS Years, Months, Days, Hours, Minutes, Seconds, Zones, \* samples of what is set
          Junk                                                   \* register contents after power-on
ASSUME RtcAssumption == /\ Years \cup Months \cup Days \cup Hours \cup Minutes \cup Seconds \subseteq Nat
                        /\ Junk \subseteq [0..6 -> 0..255]

VARIABLES rtcType,  \* "Abeoz9" or "Pcf212x", from the device tree
          reg,      \* the seven time registers
          hour12,   \* Pcf212x: the mode bit in its first control register
          tz, dl,   \* the variables TimeZone and Daylight
          last,     \* what the last successful LibSetTime was asked for; NoTime before
          got       \* what the last LibGetTime delivered; NoTime if it failed
rtcVars == <<rtcType, reg, hour12, tz, dl, last, got>>

Time(y, mo, d, h, mi, s) == [Year |-> y, Month |-> mo, Day |-> d, Hour |-> h, Minute |-> mi, Second |-> s]
NoTime == Time(0, 0, 0, 0, 0, 0)
BuildYear == 2024
NoZone == 2047 \* EFI_UNSPECIFIED_TIMEZONE
Absent == 9999

DayMax(y, mo) == IF mo = 2 THEN (IF y % 4 = 0 /\ (y % 100 # 0 \/ y % 400 = 0) THEN 29 ELSE 28)
                 ELSE IF mo \in {4, 6, 9, 11} THEN 30 ELSE 31
ValidYears == 1900..9999
IsTimeValid(t) == /\ t.Year \in ValidYears /\ t.Month \in 1..12 /\ t.Day \in 1..DayMax(t.Year, t.Month)
                  /\ t.Hour \in 0..23 /\ t.Minute \in 0..59 /\ t.Second \in 0..59

Bcd2Bin(v) == (v \div 16) * 10 + (v % 16)
Bin2BcdCarry(v) == (v \div 10) * 16 + (v % 16)
Bin2Bcd(v) == (v \div 10) * 16 + (v % 10)
Bit(v, weight) == (v \div weight) % 2 = 1

----------------------------------------------------------------------------
(* The registers 0 .. 6: seconds, minutes, hours, day, weekday, month, year. *)

\* The weekday byte of the buffer is never written.
Encode(t, w) == [i \in 0..6 |-> CASE i = 0 -> Bin2Bcd(t.Second) [] i = 1 -> Bin2Bcd(t.Minute) [] i = 2 -> Bin2Bcd(t.Hour)
                  [] i = 3 -> Bin2Bcd(t.Day) [] i = 4 -> w [] i = 5 -> Bin2Bcd(t.Month) [] i = 6 -> Bin2Bcd(t.Year - 2000)]

HourOf(r, mode12) ==
  IF mode12
  THEN LET h == Bcd2Bin(r[2] % 32) IN IF Bit(r[2], 32) /\ h # 12 THEN h + 12 ELSE h
  ELSE Bcd2Bin(r[2] % 64)
Mode12 == IF rtcType = "Abeoz9" THEN Bit(reg[2], 64) ELSE hour12
Decode(r) == LET year == IF rtcType = "Abeoz9" THEN r[6] % 128 ELSE r[6]
             IN Time(Bcd2Bin(year) + 2000, Bcd2Bin(r[5] % 32), Bcd2Bin(r[3] % 64), HourOf(r, Mode12),
                     Bcd2Bin(r[1] % 128), Bcd2Bin(r[0] % 128))
Default == Time(BuildYear, 1, 1, 1, 0, 0)

----------------------------------------------------------------------------
RtcInit == /\ rtcType \in {"Abeoz9", "Pcf212x"} /\ reg \in Junk /\ hour12 \in BOOLEAN
           /\ tz \in {Absent, 0, 1441} /\ dl \in {Absent, 0} /\ last = NoTime /\ got = NoTime

YearMax == IF rtcType = "Abeoz9" THEN 2085 ELSE 2099
Settable(t) == IsTimeValid(t) /\ t.Year >= 2000 /\ t.Year <= YearMax

\* The two variables are written before the chip is; each write may fail, and so may the transfer.
LibSetTime ==
  \E y \in Years, mo \in Months, d \in Days, h \in Hours, mi \in Minutes, s \in Seconds, z \in Zones :
    LET t == Time(y, mo, d, h, mi, s) IN
    /\ Settable(t) /\ got' = NoTime
    /\ \/ UNCHANGED <<tz, dl, reg, last>>
       \/ tz' = z /\ dl' \in {dl, 0} /\ UNCHANGED <<reg, last>>
       \/ tz' = z /\ dl' = 0 /\ last' = t /\ \E w \in {0, 255} : reg' = Encode(t, w)
    /\ UNCHANGED <<rtcType, hour12>>

\* A variable that does not exist is created with its default, and the call fails if that fails.
Create(v, default) == IF v = Absent THEN default ELSE v
LibGetTime ==
  /\ \/ got' = NoTime /\ tz' \in {tz, Create(tz, NoZone)} /\ dl' \in (IF tz' = Absent THEN {dl} ELSE {dl, Create(dl, 0)})
     \/ /\ got' = IF IsTimeValid(Decode(reg)) THEN Decode(reg) ELSE Default
        /\ tz' = Create(tz, NoZone) /\ dl' = Create(dl, 0)
  /\ UNCHANGED <<rtcType, reg, hour12, last>>

RtcNext == LibSetTime \/ LibGetTime
RtcSpec == RtcInit /\ [][RtcNext]_rtcVars

----------------------------------------------------------------------------
\* The time read is a valid one even from a chip that lost its battery, and after LibSetTime it is the
\* time that was set: encoding, masks, modes and year ranges of the two chips fit together.  A Pcf212x that
\* other software left in 12-hour mode is the exception: LibSetTime does not clear the mode bit, and of what it
\* stored only the hour may be read as another.
HourUnsure == rtcType = "Pcf212x" /\ hour12
ReadsBackWhatWasSet ==
  got # NoTime => /\ IsTimeValid(got)
                  /\ last # NoTime => got = IF HourUnsure THEN [last EXCEPT !.Hour = got.Hour] ELSE last
=============================================================================
