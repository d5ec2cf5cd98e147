------------------------------ MODULE UartCbuf ------------------------------
(***************************************************************************)
(* The drivers that keep their bytes in buffers of lib/cbuffer.c: both     *)
(* directions on imxrt106x, imx6ull and zynq, what is received on grlib    *)
(* and cmsdk-apb.  The program copies with the interrupt disabled; it      *)
(* polls with it enabled, and reads the indices of a buffer and its flag   *)
(* full one after the other.                                               *)
(***************************************************************************)
EXTENDS Uart

Buffered == {"imxrt106x", "imx6ull", "zynq"}
CbufDrivers == Buffered \cup {"grlib", "cmsdk"}
Lpuarts == {"imxrt106x", "mcxn94x"}    (* the same UART, and the same order in the handler *)

Longest == Max(ReadLens \cup WriteLens)
Numbers == 0..Bytes - 1
Tx == INSTANCE CBuffer WITH data <- tx, head <- th, tail <- tt, full <- tf,
                            Byte <- Numbers, Capacity <- SIZE_TX, MaxIO <- Longest
Rx == INSTANCE CBuffer WITH data <- rx, head <- rh, tail <- rt, full <- rf,
                            Byte <- Numbers, Capacity <- SIZE_RX, MaxIO <- Longest

quiet == io' = NoIO
restCbuf == UNCHANGED <<driver, threi, lim, cut>>

(***************************************************************************)
(* The interrupt handler, byte by byte.                                    *)
(***************************************************************************)
enter(stage) ==
  /\ isr' = stage
  /\ quiet
  /\ UNCHANGED <<txRing, rxRing, ier, thr, tsr, out, line, kept, pc, len>>
  /\ restCbuf

(* imx6ull looks at the status once, when it enters. *)
isrEnter ==
  /\ isr = "off" /\ pending
  /\ enter(CASE driver \in Lpuarts -> "both"
             [] driver = "imx6ull" -> IF thr = <<>> THEN "both" ELSE "rx"
             [] OTHER -> "rx")
  /\ UNCHANGED <<rbr, in>>

(* One byte more than the receiver holds: imxrt106x drops them all.  (Bytes *)
(* that are dropped give their numbers back.)                              *)
isrOverrun ==
  /\ isr = "off" /\ driver = "imxrt106x" /\ Len(rbr) = RxFifo
  /\ rbr' = <<>> /\ in' = Head(rbr)
  /\ enter("both")

(* The handler takes a byte, which is to be kept if there is room for it. *)
take ==
  LET room == Len(kept) < SIZE_RX
  IN /\ kept' = IF room THEN Append(kept, Head(rbr)) ELSE kept
     /\ rbr' = IF room THEN Tail(rbr) ELSE numbered(Head(rbr), Len(rbr) - 1)
     /\ in' = IF room THEN in ELSE (in - 1) % Bytes

(* A byte that finds the buffer full is lost. *)
uart_rxData ==
  /\ isr \in {"rx", "both"} /\ rbr # <<>>
  /\ IF driver \in {"imxrt106x", "grlib"} THEN Rx!lib_cbufWriteByte(Head(rbr)) ELSE Rx!lib_cbufWrite(<<Head(rbr)>>)
  /\ take
  /\ UNCHANGED <<txRing, ier, thr, tsr, isr, out, line, pc, len>>
  /\ restCbuf

isrReceived ==
  /\ isr \in {"rx", "both"} /\ rbr = <<>>
  /\ isr' = IF isr = "both" /\ (driver \in Lpuarts \/ ~Tx!lib_cbufEmpty) THEN "tx" ELSE "off"
  /\ quiet
  /\ UNCHANGED <<txRing, rxRing, ier, thr, tsr, rbr, out, line, in, kept, pc, len>>
  /\ restCbuf

(* The next byte of the buffer goes to the transmitter. *)
send ==
  /\ Len(thr) < TxFifo /\ ~Tx!lib_cbufEmpty
  /\ IF driver = "imxrt106x" THEN Tx!lib_cbufReadByte ELSE Tx!lib_cbufRead(1)
  /\ thr' = thr \o io'.bytes
  /\ UNCHANGED <<rxRing, ier, tsr, rbr, isr, out, line, in, kept, pc, len>>
  /\ restCbuf

uart_txData == isr = "tx" /\ send

(* imxrt106x leaves when the transmitter is full, imx6ull waits; nothing to  *)
(* send disables the interrupt.                                              *)
isrSent ==
  /\ isr = "tx"
  /\ \/ /\ driver = "imxrt106x" /\ Len(thr) = TxFifo
        /\ UNCHANGED ier
     \/ /\ driver = "imxrt106x" => Len(thr) < TxFifo
        /\ Tx!lib_cbufEmpty
        /\ ier' = FALSE
  /\ isr' = "off"
  /\ quiet
  /\ UNCHANGED <<txRing, rxRing, thr, tsr, rbr, out, line, in, kept, pc, len>>
  /\ restCbuf

handlerCbuf ==
  /\ driver \in CbufDrivers
  /\ isrEnter \/ isrOverrun \/ uart_rxData \/ isrReceived \/ uart_txData \/ isrSent

(***************************************************************************)
(* The program.  lib_cbufEmpty compares the indices, then looks at full.   *)
(***************************************************************************)
cbufReadIndices == polls("read") /\ goto(IF rh = rt THEN "readfull" ELSE "readcopy")
cbufReadFull == polls("readfull") /\ goto(IF rf THEN "readcopy" ELSE "read")
cbufReadTimeout == polls("readfull") /\ ~rf /\ leave

cbufReadCopy ==
  /\ pc = "readcopy" /\ isr = "off"
  /\ Rx!lib_cbufRead(len)
  /\ kept' = SubSeq(kept, Len(io'.bytes) + 1, Len(kept))
  /\ pc' = "idle" /\ len' = 0
  /\ UNCHANGED <<txRing, ier, thr, tsr, rbr, isr, out, line, in>>
  /\ restCbuf

cbufWriteReady == polls("write") /\ ~tf /\ goto("writecopy")

cbufWriteCopy ==
  /\ pc = "writecopy" /\ isr = "off"
  /\ Tx!lib_cbufWrite(numbered(out, len))
  /\ out' = (out + Len(io'.bytes)) % Bytes
  /\ len' = len - Len(io'.bytes)
  /\ ier' = (driver # "zynq")
  /\ pc' = CASE driver = "zynq" -> "drain"
             [] driver # "zynq" /\ len' = 0 -> "idle"
             [] OTHER -> "write"
  /\ UNCHANGED <<rxRing, thr, tsr, rbr, isr, line, in, kept>>
  /\ restCbuf

(* On zynq the program itself moves the bytes to the transmitter. *)
zynqDrain == driver = "zynq" /\ polls("drain") /\ send
zynqDrained == driver = "zynq" /\ polls("drain") /\ Tx!lib_cbufEmpty /\ goto(IF len = 0 THEN "idle" ELSE "write")

cbufSyncIndices == polls("sync") /\ th = tt /\ goto("syncfull")
cbufSyncFull == polls("syncfull") /\ goto(IF tf THEN "sync" ELSE "syncline")

(* imxrt106x: transmission complete; imx6ull: the FIFO is empty.             *)
cbufSyncLine ==
  /\ polls("syncline") /\ driver # "zynq"
  /\ thr = <<>> /\ (driver = "imx6ull" \/ tsr = None)
  /\ goto("synced")

(* zynq waits for ten milliseconds, whatever the transmitter does; they pass *)
(* on an idle line as well.                                                  *)
zynqWaited == polls("syncline") /\ driver = "zynq" /\ len = 0 /\ goto("synced")

zynqWait ==
  /\ polls("syncline") /\ waiting
  /\ thr = <<>> /\ tsr = None
  /\ len' = len - 1
  /\ quiet
  /\ UNCHANGED <<txRing, rxRing, ier, thr, tsr, rbr, isr, out, line, in, kept, pc>>
  /\ restCbuf
cbufSyncDone == polls("synced") /\ leave

programCbuf ==
  /\ driver \in CbufDrivers
  /\ \/ cbufReadIndices \/ cbufReadFull \/ cbufReadCopy
     \/ /\ driver \in Buffered
        /\ \/ cbufWriteReady \/ cbufWriteCopy \/ zynqDrain \/ zynqDrained
           \/ cbufSyncIndices \/ cbufSyncFull \/ cbufSyncLine \/ zynqWait \/ zynqWaited
     \/ cbufSyncDone

timeoutCbuf == driver \in CbufDrivers /\ cbufReadTimeout
=============================================================================
