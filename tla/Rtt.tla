-------------------------------- MODULE Rtt ---------------------------------
(***************************************************************************)
(* devices/pipe-rtt: the rings are shared with a debugger, which reads and *)
(* writes memory while the program runs.  Neither side takes a lock: each  *)
(* moves one index, after it has copied the bytes.                         *)
(*                                                                         *)
(* rtt_write and rtt_read load the index of the debugger, copy, and store  *)
(* their own: two steps, since nobody else looks at the bytes in between.  *)
(***************************************************************************)
EXTENDS Uart

restRtt == UNCHANGED <<driver, tf, rf, ier, thr, tsr, threi, rbr, isr, io>>

(* The bytes from index from of ring r to index to of it. *)
between(r, from, to, size) == [i \in 1..(to - from) % size |-> r[(from + i - 1) % size]]

(***************************************************************************)
(* rtt_write, for pipe_write ("pipe") and rtt_writeBlocking ("write").     *)
(***************************************************************************)
pipe_write(l) == driver = "rtt" /\ call("pipe", l)

(* Mutant: the slot in front of rd is used, too. *)
LoadRdWhole ==
  /\ pc \in {"pipe", "write"}
  /\ lim' = IF th = tt THEN (th + SIZE_TX - 1) % SIZE_TX ELSE th
  /\ pc' = IF pc = "pipe" THEN "pipecopy" ELSE "rttcopy"
  /\ UNCHANGED <<tx, th, tt, rx, rh, rt, len, history>>
  /\ restRtt

loadRd ==
  /\ pc \in {"pipe", "write"}
  /\ lim' = (th + SIZE_TX - 1) % SIZE_TX
  /\ pc' = IF pc = "pipe" THEN "pipecopy" ELSE "rttcopy"
  /\ UNCHANGED <<tx, th, tt, rx, rh, rt, len, history>>
  /\ restRtt

rtt_write ==
  /\ pc \in {"pipecopy", "rttcopy"}
  /\ LET n == least(len, (lim - tt) % SIZE_TX)
     IN /\ tx' = [i \in DOMAIN tx |-> IF (i - tt) % SIZE_TX < n THEN (out + ((i - tt) % SIZE_TX)) % Bytes
                                      ELSE tx[i]]
        /\ tt' = (tt + n) % SIZE_TX
        /\ out' = (out + n) % Bytes
        /\ len' = IF pc = "pipecopy" THEN 0 ELSE len - n
  /\ pc' = IF len' = 0 THEN "idle" ELSE "write"
  /\ lim' = 0
  /\ UNCHANGED <<th, rx, rh, rt, line, in, kept, cut>>
  /\ restRtt

(* After 100 ms rtt_writeBlocking drops what is in the ring: it loads rd,  *)
(* then stores it in wr.                                                   *)
giveUp ==
  /\ pc = "write"
  /\ lim' = th
  /\ pc' = "giveup"
  /\ UNCHANGED <<tx, th, tt, rx, rh, rt, len, history>>
  /\ restRtt

rtt_writeBlocking ==
  /\ pc = "giveup"
  /\ tt' = lim
  /\ cut' = TRUE
  /\ lim' = 0 /\ len' = 0 /\ pc' = "idle"
  /\ UNCHANGED <<tx, th, rx, rh, rt, out, line, in, kept>>
  /\ restRtt

(***************************************************************************)
(* pipe_read repeats rtt_read until it yields something.                   *)
(***************************************************************************)
loadWr ==
  /\ pc = "read"
  /\ lim' = rt
  /\ pc' = "readcopy"
  /\ UNCHANGED <<tx, th, tt, rx, rh, rt, len, history>>
  /\ restRtt

(* What rtt_read copies. *)
rttBytes == LET all == between(rx, rh, lim, SIZE_RX) IN SubSeq(all, 1, least(len, Len(all)))

rtt_read ==
  /\ pc = "readcopy"
  /\ rh' = (rh + Len(rttBytes)) % SIZE_RX
  /\ kept' = SubSeq(kept, Len(rttBytes) + 1, Len(kept))
  /\ pc' = IF rttBytes = <<>> THEN "read" ELSE "idle"
  /\ len' = IF rttBytes = <<>> THEN len ELSE 0
  /\ lim' = 0
  /\ UNCHANGED <<tx, th, tt, rx, rt, out, line, in, cut>>
  /\ restRtt

pipeTimeout == pc = "read" /\ leave

(***************************************************************************)
(* The debugger: it takes the next byte, and stores one where there is room. *)
(***************************************************************************)
debuggerTakes ==
  /\ th # tt
  /\ line' = tx[th]
  /\ th' = (th + 1) % SIZE_TX
  /\ UNCHANGED <<tx, tt, rx, rh, rt, lim, out, in, kept, cut, pc, len>>
  /\ restRtt

debuggerStores ==
  /\ (rt + 1) % SIZE_RX # rh
  /\ rx' = [rx EXCEPT ![rt] = in]
  /\ rt' = (rt + 1) % SIZE_RX
  /\ kept' = Append(kept, in)
  /\ in' = succ(in)
  /\ UNCHANGED <<tx, th, tt, rh, lim, out, line, cut, pc, len>>
  /\ restRtt

programRtt == driver = "rtt" /\ (loadRd \/ rtt_write \/ rtt_writeBlocking \/ loadWr \/ rtt_read)
timeoutRtt == driver = "rtt" /\ (giveUp \/ pipeTimeout)
debugger == driver = "rtt" /\ (debuggerTakes \/ debuggerStores)
=============================================================================
