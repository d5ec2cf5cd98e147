-------------------------------- MODULE Uart --------------------------------
(***************************************************************************)
(* What the drivers of serial lines have in common: a program that calls   *)
(* read, write and sync, a transmitter and a receiver, and two rings of    *)
(* bytes between them, which an interrupt handler (or, with RTT, the       *)
(* debugger) works on at the same time.                                    *)
(*                                                                         *)
(* The bytes of either direction are numbered modulo Bytes, which is more  *)
(* than a ring and the UART hold, so a byte that is lost, repeated or out  *)
(* of order shows.                                                         *)
(***************************************************************************)
EXTENDS Integers, Sequences, FiniteSetsExt

CONSTANTS
  SIZE_TX, SIZE_RX,        (* of the rings *)
  TxFifo, RxFifo,          (* bytes the transmitter and the receiver hold *)
  SyncBytes,               (* bytes the line takes in the time the sync of zynq waits *)
  Bytes,                   (* numbers of bytes *)
  ReadLens, WriteLens      (* lengths of the transfers a caller asks for *)

ASSUME UartAssumption ==
  /\ SIZE_TX \in Nat \ {0} /\ SIZE_RX \in Nat \ {0, 1}
  /\ TxFifo \in Nat \ {0} /\ RxFifo \in Nat \ {0}
  /\ SyncBytes \in Nat
  /\ ReadLens \cup WriteLens \subseteq Nat \ {0}
  /\ Bytes > SIZE_TX + TxFifo + 1 /\ Bytes > SIZE_RX + RxFifo

VARIABLES
  driver,                  (* the driver this board has *)
  tx, th, tt, tf,          (* transmit ring: read at th, written at tt, full *)
  rx, rh, rt, rf,          (* receive ring; on stm32 rf is rxflag *)
  ier,                     (* the transmit interrupt is enabled *)
  thr, tsr, threi,         (* bytes to send, the one being sent, interrupt of a 16550 *)
  rbr,                     (* bytes received and not read by the handler *)
  isr,                     (* where the handler is, for handlers of several steps *)
  io,                      (* the call of lib/cbuffer.c in the last step, if any *)
  lim,                     (* an index RTT has read *)
  pc, len,                 (* the program, and what is left of its transfer or wait *)
  out, line,               (* number of the next byte to write; of the last one sent *)
  in, kept,                (* next byte to arrive; bytes for the reader, oldest first *)
  cut                      (* the driver has dropped bytes, or sent some of its own *)

txRing == <<tx, th, tt, tf>>
rxRing == <<rx, rh, rt, rf>>
aux == <<isr, lim>>
history == <<out, line, in, kept, cut>>
uartVars == <<driver, txRing, rxRing, ier, thr, tsr, threi, rbr, aux, io, pc, len, history>>

None == Bytes            (* an empty register *)
NoIO == [op |-> "init", bytes |-> <<>>]
succ(b) == (b + 1) % Bytes
numbered(b, n) == [i \in 1..n |-> (b + i - 1) % Bytes]
least(a, b) == Min({a, b})

(***************************************************************************)
(* The calls begin.  uart_safeWrite repeats uart_write.                    *)
(***************************************************************************)
call(label, l) ==
  /\ pc = "idle" /\ isr = "off"
  /\ pc' = label /\ len' = l
  /\ io' = NoIO
  /\ UNCHANGED <<driver, txRing, rxRing, ier, thr, tsr, threi, rbr, aux, history>>

uart_read(l) == call("read", l)
uart_safeWrite(l) == call("write", l)
uart_sync == call("sync", IF driver = "zynq" THEN SyncBytes ELSE 0)

(* A poll: the program goes on at label, if at all. *)
goto(label) ==
  /\ pc' = label
  /\ io' = NoIO
  /\ UNCHANGED <<driver, txRing, rxRing, ier, thr, tsr, threi, rbr, aux, len, history>>

(* -ETIME, or EOK of uart_sync *)
leave ==
  /\ pc' = "idle" /\ len' = 0
  /\ io' = NoIO
  /\ UNCHANGED <<driver, txRing, rxRing, ier, thr, tsr, threi, rbr, aux, history>>

(* A pending interrupt (received bytes; an empty transmitter, if the driver  *)
(* wants to know) is served before the next step of the program.             *)
pending == rbr # <<>> \/ (ier /\ thr = <<>>)
polls(label) == pc = label /\ isr = "off" /\ ~pending

(***************************************************************************)
(* The UART.                                                               *)
(***************************************************************************)
(* The program waits for a time, which goes on with every byte that is sent: *)
(* ten milliseconds are 115 bytes at 115200 baud, and the FIFO of zynq holds *)
(* 64.                                                                       *)
waiting == driver = "zynq" /\ pc = "syncline" /\ len > 0

(* A byte enters the shift register, and leaves it. *)
shift ==
  /\ thr # <<>> /\ tsr = None
  /\ tsr' = Head(thr) /\ thr' = Tail(thr)
  /\ threi' = (driver = "16550")
  /\ io' = NoIO
  /\ UNCHANGED <<driver, txRing, rxRing, ier, rbr, aux, history, pc, len>>

sent ==
  /\ tsr # None
  /\ line' = tsr /\ tsr' = None
  /\ len' = IF waiting THEN len - 1 ELSE len
  /\ io' = NoIO
  /\ UNCHANGED <<driver, txRing, rxRing, ier, thr, threi, rbr, aux, out, in, kept, cut, pc>>

(* A handler takes less time than a byte, unless it waits for the transmitter. *)
arrive ==
  /\ driver # "rtt" /\ Len(rbr) < RxFifo
  /\ isr = "off" \/ (isr = "tx" /\ driver = "imx6ull")
  /\ rbr' = Append(rbr, in)
  /\ in' = succ(in)
  /\ io' = NoIO
  /\ UNCHANGED <<driver, txRing, rxRing, ier, thr, tsr, threi, aux, out, line, kept, cut, pc, len>>

uartInit ==
  /\ tx = [i \in 0..SIZE_TX - 1 |-> 0] /\ th = 0 /\ tt = 0 /\ tf = FALSE
  /\ rx = [i \in 0..SIZE_RX - 1 |-> 0] /\ rh = 0 /\ rt = 0 /\ rf = FALSE
  /\ ier = FALSE
  /\ thr = <<>> /\ tsr = None /\ threi = FALSE
  /\ rbr = <<>>
  /\ isr = "off" /\ io = NoIO /\ lim = 0
  /\ pc = "idle" /\ len = 0
  /\ out = 0 /\ line = Bytes - 1
  /\ in = 0 /\ kept = <<>> /\ cut = FALSE
=============================================================================
