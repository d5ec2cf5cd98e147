----------------------------- MODULE UartPolled -----------------------------
(***************************************************************************)
(* The drivers that send without an interrupt: uart-stm32, uart-grlib and  *)
(* uart-cmsdk-apb.  The last two receive as in UartCbuf; stm32 has a ring  *)
(* of its own and reads until it has all the bytes asked for.              *)
(***************************************************************************)
EXTENDS Uart

Polled == {"stm32", "grlib", "cmsdk"}

restPolled == UNCHANGED <<driver, txRing, ier, tsr, threi, aux, io, line, cut>>

polledWrite ==
  /\ polls("write") /\ Len(thr) < TxFifo
  /\ thr' = Append(thr, out)
  /\ out' = succ(out)
  /\ len' = len - 1
  /\ pc' = IF len = 1 THEN "idle" ELSE "write"
  /\ UNCHANGED <<rxRing, rbr, in, kept>>
  /\ restPolled

(* stm32 and grlib wait for the shift register ... *)
polledSync ==
  /\ polls("sync") /\ driver # "cmsdk"
  /\ thr = <<>> /\ tsr = None
  /\ goto("synced")

(* ... cmsdk-apb looks at TX_BUF_FULL, the buffer in front of it. *)
cmsdkSync ==
  /\ polls("sync") /\ driver = "cmsdk"
  /\ thr = <<>>
  /\ goto("synced")

(***************************************************************************)
(* uart_read of stm32.  The interrupt is disabled but while it waits.      *)
(***************************************************************************)
disabled == pc \in {"readcopy", "readtake"}

stmReceive ==
  /\ rbr # <<>> /\ ~disabled
  /\ rx' = [rx EXCEPT ![rh] = Head(rbr)]
  /\ rbr' = Tail(rbr)
  /\ rh' = (rh + 1) % SIZE_RX
  /\ rt' = IF rh' = rt THEN (rt + 1) % SIZE_RX ELSE rt
  /\ rf' = TRUE
  /\ kept' = Append(IF Len(kept) = SIZE_RX - 1 THEN Tail(kept) ELSE kept, Head(rbr))
  /\ UNCHANGED <<thr, out, in, pc, len>>
  /\ restPolled

stmRead == polls("read") /\ goto("readcopy")

(* Mutant: a receive interrupt from before the wait counts. *)
StmEmptyKeepsFlag ==
  /\ pc = "readcopy" /\ rh = rt
  /\ pc' = "readwait"
  /\ UNCHANGED <<rx, rh, rt, rf, thr, rbr, out, in, kept, len>>
  /\ restPolled

(* rxflag is cleared in front of every byte; after a wait the byte is taken  *)
(* without another look at the indices.                                      *)
stmEmpty ==
  /\ pc = "readcopy" /\ rh = rt
  /\ rf' = FALSE
  /\ pc' = "readwait"
  /\ UNCHANGED <<rx, rh, rt, thr, rbr, out, in, kept, len>>
  /\ restPolled

stmTake ==
  /\ pc = "readtake" \/ (pc = "readcopy" /\ rh # rt)
  /\ rf' = (rf /\ pc = "readtake")
  /\ rt' = (rt + 1) % SIZE_RX
  /\ kept' = SubSeq(kept, 2, Len(kept))
  /\ len' = len - 1
  /\ pc' = IF len = 1 THEN "idle" ELSE "readcopy"
  /\ UNCHANGED <<rx, rh, thr, rbr, out, in>>
  /\ restPolled

stmWaited == polls("readwait") /\ rf /\ goto("readtake")

(* -ETIME: the caller does not learn of the bytes taken so far. *)
stmTimeout == polls("readwait") /\ ~rf /\ leave

stmSyncDone == polls("synced") /\ leave

programPolled ==
  \/ driver \in Polled /\ (polledWrite \/ polledSync \/ cmsdkSync)
  \/ driver = "stm32" /\ (stmRead \/ stmEmpty \/ stmTake \/ stmWaited \/ stmSyncDone)

handlerStm == driver = "stm32" /\ stmReceive
timeoutStm == driver = "stm32" /\ stmTimeout
=============================================================================
