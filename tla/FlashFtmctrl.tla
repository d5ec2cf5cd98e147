--------------------------- MODULE FlashFtmctrl ---------------------------
(***************************************************************************)
(* devices/flash-ftmctrl/flashdrv.c: the write-back buffer of the SPIMCTRL *)
(* driver over a CFI flash.  It differs in that sectorBufDirty is never    *)
(* lowered, that reading the array cannot fail, that a read starting in    *)
(* the buffered sector is served from the buffer alone, and that a chip    *)
(* without a chip erase command is erased sector by sector.                *)
(***************************************************************************)
EXTENDS FlashSpimctrl

ftmWriteChange ==
  /\ job.op = "write" /\ job.data # <<>>
  /\ ctl.addr # sectorStart(job.offs) /\ ~wholeSector
  /\ \E o \in spimSync :
       /\ cells' = o.cells
       /\ \/ ~o.ok /\ fails("write") /\ UNCHANGED <<want, buf, ctl>>
          \/ /\ o.ok
             /\ intoBuffer(nor_readData(o.cells, sectorStart(job.offs), SectorSz))
             /\ UNCHANGED ret
  /\ UNCHANGED lapses

ftmSyncCall ==
  /\ job = Idle
  /\ \E o \in spimSync : cells' = o.cells /\ returns("sync", o.ok)
  /\ UNCHANGED <<want, buf, ctl, job, lapses>>

(* The copy from the buffer is as long as the read: past its end come the  *)
(* bytes of whatever lies behind it in memory.                             *)
ftmRead(offs, len) ==
  IF sectorStart(offs) = ctl.addr
  THEN {d \in [0..len - 1 -> Bit] :
          \A i \in 0..len - 1 : offs - ctl.addr + i \in DOMAIN buf => d[i] = buf[offs - ctl.addr + i]}
  ELSE {nor_readData(cells, offs, len)}

ftmErase(offs, len, whole) ==
  /\ job = Idle
  /\ \/ ~whole /\ eraseRange(offs, len)
     \/ /\ whole /\ offs > 0
        /\ \E o \in chipOutcomes(cells)
                      \cup eraseOutcomes(cells, Cell, uniform(Cell)) :
             cells' = o.cells /\ want' = forgotten(Cell, o.cells) /\ returns("erase", o.ok)
        /\ ctl' = [ctl EXCEPT !.addr = NoAddr]
        /\ UNCHANGED <<buf, job, lapses>>

ftmNext ==
  \/ startWrite \/ refuse
  \/ spimWriteBuffered \/ directWrite \/ ftmWriteChange \/ writeEnd
  \/ ftmSyncCall
  \/ \E r \in Ranges, whole \in BOOLEAN : ftmErase(r[1], r[2], whole)
  \/ spimPowerLoss
=============================================================================
