----------------------------- MODULE UartLpuart -----------------------------
(***************************************************************************)
(* uart-mcxn94x: the rings of uart-16550 and the handler of                *)
(* uart-imxrt106x.  The handler sends what is behind the byte sent last,   *)
(* up to tt, so the ring is empty when th is just behind tt; equal indices *)
(* mean a full ring, or one that has never been written.                   *)
(* uart-imxrt117x has the same text, but for a uart_sync that is empty.    *)
(***************************************************************************)
EXTENDS Uart16550, UartCbuf

lpReceive == isr = "both" /\ isrReceive

(* A ring that has never been written is taken for a full one, and the       *)
(* handler sends bytes nobody has written.                                   *)
lpTransmit ==
  /\ isr = "tx" /\ Len(thr) < TxFifo /\ (th + 1) % SIZE_TX # tt
  /\ th' = (th + 1) % SIZE_TX
  /\ thr' = Append(thr, tx[th'])
  /\ tf' = FALSE
  /\ cut' = (cut \/ (th = tt /\ ~tf))
  /\ UNCHANGED <<driver, tx, tt, rxRing, ier, tsr, threi, rbr, aux, io, out, line, in, kept, pc, len>>

lpSent ==
  /\ isr = "tx"
  /\ \/ Len(thr) = TxFifo /\ UNCHANGED ier
     \/ Len(thr) < TxFifo /\ (th + 1) % SIZE_TX = tt /\ ier' = FALSE
  /\ isr' = "off"
  /\ UNCHANGED <<driver, txRing, rxRing, thr, tsr, threi, rbr, lim, io, history, pc, len>>

handlerLp == driver = "mcxn94x" /\ (isrEnter \/ lpReceive \/ isrReceived \/ lpTransmit \/ lpSent)

lpReadReady == polls("read") /\ readReady
lpReadTimeout == polls("read") /\ readTimeout
lpReadCopy == isr = "off" /\ readCopy

lpWriteReady == polls("write") /\ ~(th = tt /\ tf) /\ goto("writecopy")

lpWriteCopy ==
  /\ pc = "writecopy" /\ isr = "off"
  /\ copyWrite
  /\ thr' = IF tt = th THEN Append(thr, tx'[th]) ELSE thr
  /\ ier' = TRUE
  /\ UNCHANGED threi

(* Transmission is complete: the ring is not looked at. *)
lpSync == polls("sync") /\ thr = <<>> /\ tsr = None /\ goto("synced")

programLp ==
  /\ driver = "mcxn94x"
  /\ \/ lpReadReady \/ lpReadCopy \/ lpWriteReady \/ lpWriteCopy \/ lpSync \/ cbufSyncDone

timeoutLp == driver = "mcxn94x" /\ lpReadTimeout
=============================================================================
