------------------------------- MODULE DwI2c -------------------------------
(* I2cTxRx of DwI2cLib: the polling loop of the driver on one side, the controller with its two queues *)
(* and a memory on the bus on the other.  Between any two looks of the driver the controller may do    *)
(* nothing or a lot: interrupts and timer callbacks run in between.                                    *)
EXTENDS Integers, SequencesExt

CONSTANTS Depth,     \* entries of each of the two queues
          MemSize,   \* addresses of the memory are 0 .. MemSize - 1
          MaxTx, MaxRx, MaxCalls \* bounds: bytes of a request, requests
ASSUME BusAssumption == Depth \in Nat \ {0} /\ MemSize \in Nat \ {0} /\ MaxTx \in Nat /\ MaxRx \in Nat /\ MaxCalls \in Nat

VARIABLES i2c,       \* the driver: [pc, tx, n, txed, rx, st, ret, calls]
          ctl,       \* the controller: [en, txf, rxf, cur, open, abrt, hold]
          mem,       \* the memory: [cell, ptr, first]
          ghost      \* [from, fault]: the memory at the start of a request, and faults since
i2cVars == <<i2c, ctl, mem, ghost>>

None == [op |-> "none", byte |-> 0, stop |-> FALSE]
Rd(stop) == [op |-> "rd", byte |-> 0, stop |-> stop]
Wr(b, stop) == [op |-> "wr", byte |-> b, stop |-> stop]
Texts == UNION {[1..k -> 0..MemSize - 1] : k \in 0..MaxTx}
Requests == {r \in Texts \X (0..MaxRx) : Len(r[1]) + r[2] > 0 /\ (Len(r[1]) > 1 => r[2] = 0)}
Store(m, b) == IF m.first THEN [m EXCEPT !.ptr = b, !.first = FALSE]
               ELSE [m EXCEPT !.cell[m.ptr] = b, !.ptr = (@ + 1) % MemSize]
\* What writing the text t leaves of memory m: t[1] is an address, and of the bytes behind it the last one
\* that comes to a cell stays.
Written(m, t) ==
  [m EXCEPT !.ptr = (t[1] + Len(t) - 1) % MemSize,
            !.cell = [a \in 0..MemSize - 1 |-> LET K == {k \in 2..Len(t) : (t[1] + k - 2) % MemSize = a}
                                               IN IF K = {} THEN @[a] ELSE t[Max(K)]]]

----------------------------------------------------------------------------
I2cInit ==
  /\ i2c = [pc |-> "idle", tx |-> <<>>, n |-> 0, txed |-> 0, rx |-> <<>>, st |-> [rfne |-> FALSE, tfnf |-> FALSE, tfe |-> FALSE, act |-> FALSE], ret |-> 0, calls |-> MaxCalls]
  /\ \E h \in BOOLEAN : ctl = [en |-> FALSE, txf |-> <<>>, rxf |-> <<>>, cur |-> None, open |-> "no", abrt |-> FALSE, hold |-> h]
  /\ mem = [cell |-> [a \in 0..MemSize - 1 |-> a], ptr |-> 0, first |-> FALSE]
  /\ ghost = [from |-> mem, fault |-> FALSE]

\* The call: the controller is configured and enabled with empty queues.
Begin ==
  /\ i2c.pc \in {"idle", "ret"} /\ i2c.calls > 0
  /\ \E r \in Requests :
       i2c' = [i2c EXCEPT !.pc = "sample", !.tx = r[1], !.n = r[2], !.txed = 0, !.rx = <<>>, !.calls = @ - 1]
  /\ ctl' = [ctl EXCEPT !.en = TRUE]
  /\ ghost' = [from |-> mem, fault |-> FALSE] /\ UNCHANGED mem

Total == Len(i2c.tx) + i2c.n
Status == [rfne |-> ctl.rxf # <<>>, tfnf |-> Len(ctl.txf) < Depth, tfe |-> ctl.txf = <<>>,
           act |-> ctl.cur # None \/ ctl.open # "no"]
Sample == i2c.pc = "sample" /\ i2c' = [i2c EXCEPT !.pc = "act", !.st = Status] /\ UNCHANGED <<ctl, mem, ghost>>

Receiving == Len(i2c.rx) < i2c.n /\ i2c.st.rfne
ReceiveByte ==
  /\ i2c.pc = "act" /\ Receiving
  /\ i2c' = [i2c EXCEPT !.pc = "sample", !.rx = Append(@, Head(ctl.rxf))]
  /\ ctl' = [ctl EXCEPT !.rxf = Tail(@)] /\ UNCHANGED <<mem, ghost>>

Fail == i2c' = [i2c EXCEPT !.pc = "stop", !.ret = -1]
Abort == i2c.pc = "act" /\ ~Receiving /\ ctl.abrt /\ Fail /\ UNCHANGED <<ctl, mem, ghost>>

Command == LET k == i2c.txed + 1 stop == k = Total
           IN IF k <= Len(i2c.tx) THEN Wr(i2c.tx[k], stop) ELSE Rd(stop)
Push ==
  /\ i2c.pc = "act" /\ ~Receiving /\ ~ctl.abrt /\ i2c.txed < Total /\ i2c.st.tfnf
  /\ ctl' = [ctl EXCEPT !.txf = Append(@, Command)]
  /\ i2c' = [i2c EXCEPT !.pc = "sample", !.txed = @ + 1] /\ UNCHANGED <<mem, ghost>>

BusIdleByFifo == i2c.st.tfe
BusIdle == i2c.st.tfe /\ ~i2c.st.act
Finish ==
  /\ i2c.pc = "act" /\ ~Receiving /\ ~ctl.abrt /\ i2c.txed = Total /\ BusIdle
  /\ i2c' = [i2c EXCEPT !.pc = "stop", !.ret = Len(i2c.rx)] /\ UNCHANGED <<ctl, mem, ghost>>

\* The time is read after the status: 100 ms may have passed in between, whatever the controller did since.
Again ==
  /\ i2c.pc = "act" /\ ~Receiving /\ ~ctl.abrt
  /\ IF i2c.txed < Total THEN ~i2c.st.tfnf ELSE ~BusIdle
  /\ \/ i2c' = [i2c EXCEPT !.pc = "sample"] /\ UNCHANGED ghost
     \/ Fail /\ ghost' = [ghost EXCEPT !.fault = TRUE]
  /\ UNCHANGED <<ctl, mem>>

\* IcEnable = 0 ends what is on the bus and empties the queues before IcEnableStatus says so.
DisableKeepsQueues(c) == [c EXCEPT !.en = FALSE, !.cur = None, !.open = "no", !.abrt = FALSE]
Disable(c) == [c EXCEPT !.en = FALSE, !.txf = <<>>, !.rxf = <<>>, !.cur = None, !.open = "no", !.abrt = FALSE]
Leave == /\ i2c.pc = "stop" /\ i2c' = [i2c EXCEPT !.pc = "ret"] /\ ctl' = Disable(ctl)
         /\ mem' = [mem EXCEPT !.first = FALSE] /\ UNCHANGED ghost

----------------------------------------------------------------------------
(* The controller and the memory. *)

Take == /\ ctl.en /\ ctl.cur = None /\ ctl.txf # <<>> /\ ~ctl.abrt
        /\ ctl' = [ctl EXCEPT !.cur = Head(ctl.txf), !.txf = Tail(@), !.open = Head(ctl.txf).op]
        /\ mem' = IF Head(ctl.txf).op = "wr" /\ ctl.open # "wr" THEN [mem EXCEPT !.first = TRUE] ELSE mem
        /\ UNCHANGED <<i2c, ghost>>
After == IF ctl.cur.stop THEN "no" ELSE ctl.open
Byte == /\ ctl.en /\ ctl.cur # None
        /\ IF ctl.cur.op = "wr"
           THEN mem' = Store(mem, ctl.cur.byte) /\ ctl' = [ctl EXCEPT !.cur = None, !.open = After] /\ UNCHANGED ghost
           ELSE /\ mem' = [mem EXCEPT !.ptr = (@ + 1) % MemSize]
                /\ ctl' = [ctl EXCEPT !.cur = None, !.open = After,
                             !.rxf = IF Len(@) < Depth THEN Append(@, mem.cell[mem.ptr]) ELSE @]
                /\ ghost' = [ghost EXCEPT !.fault = @ \/ Len(ctl.rxf) = Depth]
        /\ UNCHANGED i2c
\* The memory does not answer: the transmit queue is flushed.
Nack == /\ ctl.en /\ ctl.cur # None
        /\ ctl' = [ctl EXCEPT !.cur = None, !.open = "no", !.abrt = TRUE, !.txf = <<>>]
        /\ ghost' = [ghost EXCEPT !.fault = TRUE] /\ UNCHANGED <<i2c, mem>>
\* A controller that does not hold the bus ends the transfer when its queue runs empty.
RanEmpty == /\ ~ctl.hold /\ ctl.en /\ ctl.cur = None /\ ctl.open # "no" /\ ctl.txf = <<>>
            /\ ctl' = [ctl EXCEPT !.open = "no"] /\ UNCHANGED <<i2c, mem, ghost>>

I2cNext == \/ Begin \/ Sample \/ ReceiveByte \/ Abort \/ Push \/ Finish \/ Again \/ Leave
           \/ Take \/ Byte \/ Nack \/ RanEmpty
I2cSpec == I2cInit /\ [][I2cNext]_i2cVars

----------------------------------------------------------------------------
\* What I2cTxRx returns can be relied on, however the polling loop and the controller interleave: a call
\* that returns the number of bytes asked for delivers exactly the consecutive bytes of the memory, and,
\* on a controller that holds the bus, wrote all of its bytes in one piece; and a call during which
\* nothing went wrong does return that number.
TransferHonest ==
  i2c.pc = "ret" =>
    LET w == IF i2c.tx = <<>> THEN ghost.from ELSE Written(ghost.from, i2c.tx)
    IN /\ i2c.ret = i2c.n => /\ \A k \in 1..i2c.n : i2c.rx[k] = w.cell[(w.ptr + k - 1) % MemSize]
                             /\ ctl.hold => mem.cell = w.cell
       /\ ~ghost.fault => i2c.ret = i2c.n
=============================================================================
