----------------------------- MODULE Uart16550 ------------------------------
(***************************************************************************)
(* devices/uart-16550.  The program copies with interrupts disabled, and   *)
(* polls the indices with interrupts enabled.  th is the byte in the UART. *)
(***************************************************************************)
EXTENDS Uart

rest16550 == UNCHANGED <<driver, rf, aux, io, cut>>

(***************************************************************************)
(* The rings.                                                              *)
(***************************************************************************)
(* memcpy of n elements of s, from index i of it on, to r at index at. *)
copyIn(r, at, s, i, n) == [k \in DOMAIN r |-> IF k \in at..at + n - 1 THEN s[i + k - at] ELSE r[k]]
copyOut(r, at, n) == [i \in 1..n |-> r[at + i - 1]]

(* What uart_read copies when asked for l bytes. *)
readRing(l) ==
  LET first == IF rh > rt THEN least(rh - rt, l) ELSE least(SIZE_RX - rt, l)
      second == IF first < l /\ rh < rt THEN least(l - first, rh) ELSE 0
  IN copyOut(rx, rt, first) \o copyOut(rx, 0, second)

(* How many of l bytes uart_write copies to the end of the ring, and to its start. *)
writeFirst(l) == IF th > tt THEN least(th - tt, l) ELSE least(SIZE_TX - tt, l)
writeSecond(l) ==
  IF writeFirst(l) < l /\ tt >= th THEN least(l - writeFirst(l), th) ELSE 0

(***************************************************************************)
(* The interrupt handler: one pass of its loop.  Reading iir takes back    *)
(* the transmit interrupt; the receive interrupt comes first.              *)
(***************************************************************************)
isrReceive ==
  /\ rbr # <<>>
  /\ rx' = [rx EXCEPT ![rh] = Head(rbr)]
  /\ rbr' = Tail(rbr)
  /\ rh' = (rh + 1) % SIZE_RX
  /\ rt' = IF rh' = rt THEN (rt + 1) % SIZE_RX ELSE rt
  /\ kept' = Append(IF Len(kept) = SIZE_RX - 1 THEN Tail(kept) ELSE kept, Head(rbr))
  /\ UNCHANGED <<txRing, ier, thr, tsr, threi, out, line, in, pc, len>>
  /\ rest16550

(* Mutant: a full ring stays marked as full. *)
IsrKeepsFull ==
  /\ rbr = <<>> /\ ier /\ threi
  /\ th' = (th + 1) % SIZE_TX
  /\ threi' = FALSE
  /\ IF th' # tt THEN thr' = <<tx[th']>> /\ UNCHANGED ier
     ELSE ier' = FALSE /\ UNCHANGED thr
  /\ UNCHANGED <<tx, tt, tf, rx, rh, rt, tsr, rbr, out, line, in, kept, pc, len>>
  /\ rest16550

isrTransmit ==
  /\ rbr = <<>> /\ ier /\ threi
  /\ th' = (th + 1) % SIZE_TX
  /\ threi' = FALSE
  /\ IF th' # tt THEN thr' = <<tx[th']>> /\ UNCHANGED ier
     ELSE ier' = FALSE /\ UNCHANGED thr
  /\ tf' = FALSE
  /\ UNCHANGED <<tx, tt, rx, rh, rt, tsr, rbr, out, line, in, kept, pc, len>>
  /\ rest16550

(***************************************************************************)
(* uart_read.                                                              *)
(***************************************************************************)
readTimeout == pc = "read" /\ rh = rt /\ leave
readReady == pc = "read" /\ rh # rt /\ goto("readcopy")

readCopy ==
  /\ pc = "readcopy"
  /\ LET n == Len(readRing(len)) IN
     /\ rt' = (rt + n) % SIZE_RX
     /\ kept' = SubSeq(kept, n + 1, Len(kept))
  /\ pc' = "idle" /\ len' = 0
  /\ UNCHANGED <<txRing, rx, rh, ier, thr, tsr, threi, rbr, out, line, in>>
  /\ rest16550

(***************************************************************************)
(* uart_write and uart_sync.                                               *)
(***************************************************************************)
writeReady == pc = "write" /\ ~tf /\ goto("writecopy")

(* The bytes go into the ring, to its end and then to its start. *)
copyWrite ==
  /\ LET n == writeFirst(len)
         m == writeSecond(len)
         data == numbered(out, len)
     IN /\ tx' = copyIn(copyIn(tx, tt, data, 1, n), 0, data, n + 1, m)
        /\ tt' = (tt + n + m) % SIZE_TX
        /\ out' = (out + n + m) % Bytes
        /\ len' = len - n - m
  /\ tf' = (tf \/ tt' = th)
  /\ pc' = IF len' = 0 THEN "idle" ELSE "write"
  /\ UNCHANGED <<th, rx, rh, rt, tsr, rbr, line, in, kept>>
  /\ rest16550

writeCopy ==
  /\ pc = "writecopy"
  /\ copyWrite
  /\ IF tt = th THEN thr' = <<tx'[th]>> /\ ier' = TRUE /\ threi' = FALSE
     ELSE UNCHANGED <<thr, ier, threi>>


syncFull == pc = "sync" /\ ~tf /\ goto("syncempty")
syncEmpty == pc = "syncempty" /\ tt = th /\ goto("syncline")

(* The transmitter is empty: bit 6 of lsr. *)
syncLine == pc = "syncline" /\ thr = <<>> /\ tsr = None /\ goto("synced")
syncDone == pc = "synced" /\ leave

program16550 ==
  /\ driver = "16550"
  /\ \/ readTimeout \/ readReady \/ readCopy \/ writeReady \/ writeCopy
     \/ syncFull \/ syncEmpty \/ syncLine \/ syncDone

receive16550 == driver = "16550" /\ isrReceive
transmit16550 == driver = "16550" /\ isrTransmit
=============================================================================
