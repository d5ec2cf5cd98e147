---------------------------- MODULE FlashImxrt ----------------------------
(***************************************************************************)
(* devices/flash-imxrt/flashdrv.c.  sectorPrevAddr is the address whose    *)
(* sector the buffer holds, sectorSyncAddr the value it had at the last    *)
(* synchronisation: the sector is taken to be synchronised when the two    *)
(* are equal.                                                              *)
(***************************************************************************)
EXTENDS NorFlash

imxrtFields == [prev |-> NoAddr, sync |-> NoAddr]

imxrtInit ==
  /\ norInit
  /\ buf = [i \in 0..SectorSz - 1 |-> Erased]
  /\ ctl = imxrtFields

get_sectorIdFromAddress(addr) == addr \div SectorSz

imxrtBlank == \A i \in DOMAIN buf : buf[i] = Erased

(* flashdrv_sync: erase and program the buffered sector, unless it is      *)
(* synchronised; a buffer of erased bytes is neither.                      *)
imxrtSync ==
  LET at == sectorStart(ctl.prev)
  IN IF ctl.prev = NoAddr \/ ctl.prev = ctl.sync \/ imxrtBlank
     THEN {[cells |-> cells, ok |-> TRUE]}
     ELSE rewriteOutcomes(cells, at, SectorSz, buf)

(* History: the sector to synchronise was to be overwritten with erased    *)
(* bytes and is left as it was.                                            *)
imxrtBlankLost ==
  /\ ctl.prev # NoAddr /\ ctl.prev # ctl.sync /\ imxrtBlank
  /\ \E a \in sectorCells(sectorStart(ctl.prev), SectorSz) : cells[a] # Erased

(* addr lies in another sector than the one in the buffer. *)
imxrtOther(addr) ==
  get_sectorIdFromAddress(addr) # get_sectorIdFromAddress(ctl.prev)

(* flashdrv_write, one turn of its loop: bufferSync changes the buffered   *)
(* sector if need be, then the bytes of this sector are copied.            *)
imxrtCopy(b) ==
  LET n == norLeast(Len(job.data), SectorSz - sectorOfs(job.offs))
  IN /\ buf' = stored(b, sectorOfs(job.offs), job.data, n)
     /\ want' = stored(want, job.offs, job.data, n)
     /\ advance(n)

imxrtWriteChange ==
  /\ job.op = "write" /\ job.data # <<>>
  /\ imxrtOther(job.offs)
  /\ \E o \in imxrtSync :
       /\ cells' = o.cells
       /\ lapse("blank", imxrtBlankLost)
       /\ \/ /\ ~o.ok
             /\ fails("write")
             /\ UNCHANGED <<want, buf, ctl>>
          \/ /\ o.ok
             /\ TotalSz < job.offs + SectorSz
             /\ ctl' = [ctl EXCEPT !.sync = ctl.prev]
             /\ fails("write")
             /\ UNCHANGED <<want, buf>>
          \/ /\ o.ok
             /\ TotalSz >= job.offs + SectorSz
             /\ LET loaded == nor_readData(o.cells, sectorStart(job.offs), SectorSz)
                IN \/ /\ ctl' = [prev |-> job.offs, sync |-> ctl.prev]
                      /\ imxrtCopy(loaded)
                      /\ UNCHANGED ret
                   \/ /\ buf' \in {buf, loaded}
                      /\ ctl' = [ctl EXCEPT !.sync = ctl.prev]
                      /\ fails("write")
                      /\ UNCHANGED want

imxrtWriteSame ==
  /\ job.op = "write" /\ job.data # <<>>
  /\ ~imxrtOther(job.offs)
  /\ imxrtCopy(buf)
  /\ lapse("rewrite", ctl.prev = ctl.sync)
  /\ UNCHANGED <<cells, ctl, ret>>

(* The end of the write: a transfer that ends with its sector is           *)
(* synchronised at once, and the end of the flash releases the buffer.     *)
imxrtWriteEnd ==
  /\ job.op = "write" /\ job.data = <<>>
  /\ \/ /\ ~imxrtOther(job.offs)
        /\ succeeds("write")
        /\ UNCHANGED <<cells, ctl, lapses>>
     \/ /\ imxrtOther(job.offs)
        /\ \E o \in imxrtSync :
             /\ cells' = o.cells
             /\ lapse("blank", imxrtBlankLost)
             /\ \/ ~o.ok /\ fails("write") /\ UNCHANGED ctl
                \/ /\ o.ok
                   /\ succeeds("write")
                   /\ ctl' = IF TotalSz <= job.offs THEN imxrtFields
                             ELSE [ctl EXCEPT !.sync = ctl.prev]
  /\ UNCHANGED <<want, buf>>

imxrtSyncCall ==
  /\ job = Idle
  /\ \E o \in imxrtSync :
       /\ cells' = o.cells
       /\ ctl' = IF o.ok THEN [ctl EXCEPT !.sync = ctl.prev] ELSE ctl
       /\ returns("sync", o.ok)
  /\ lapse("blank", imxrtBlankLost)
  /\ UNCHANGED <<want, buf, job>>

(* flashdrv_read goes to the array, past the buffer. *)
imxrtRead(offs, len) == nor_readData(cells, offs, len)

imxrtPending ==
  IF ctl.prev = NoAddr \/ ctl.prev = ctl.sync THEN {}
  ELSE sectorCells(sectorStart(ctl.prev), SectorSz)

(* flashdrv_erase: the buffer is dropped, whatever it holds; then the      *)
(* sectors the range touches are erased, or (len = -1) the whole chip.     *)
imxrtErase(offs, len, whole) ==
  /\ job = Idle
  /\ \E o \in IF whole THEN chipOutcomes(cells)
             ELSE LET range == sectorStart(offs)..sectorStart(offs + len + SectorSz - 1) - 1
                  IN eraseOutcomes(cells, range, uniform(range)) :
       /\ cells' = o.cells
       /\ want' = afterErase(o)
       /\ returns("erase", o.ok)
       /\ lapse("unsynced", ~(imxrtPending \subseteq o.area))
  /\ ctl' = imxrtFields
  /\ UNCHANGED <<buf, job>>

imxrtPowerLoss == powerLoss(imxrtPending, imxrtFields)

imxrtNext ==
  \/ startWrite \/ refuse
  \/ imxrtWriteChange \/ imxrtWriteSame \/ imxrtWriteEnd
  \/ imxrtSyncCall
  \/ \E r \in Ranges, whole \in BOOLEAN : imxrtErase(r[1], r[2], whole)
  \/ imxrtPowerLoss
=============================================================================
