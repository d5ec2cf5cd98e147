-------------------------- MODULE FlashSpimctrl --------------------------
(***************************************************************************)
(* devices/flash-spimctrl/flashdrv.c.  The buffer holds the sector at      *)
(* sectorBufAddr and is written back when sectorBufDirty; whole sectors    *)
(* are written past it.                                                    *)
(***************************************************************************)
EXTENDS NorFlash

spimFields == [addr |-> NoAddr, dirty |-> FALSE]

spimInit ==
  /\ norInit
  /\ buf = [i \in 0..SectorSz - 1 |-> Erased]
  /\ ctl = spimFields

spimPending == IF ctl.addr = NoAddr \/ ~ctl.dirty THEN {} ELSE sectorCells(ctl.addr, SectorSz)

(* Mutant: the sector is programmed without being erased. *)
spimSyncNoErase ==
  IF ctl.addr = NoAddr \/ ~ctl.dirty THEN {[cells |-> cells, ok |-> TRUE]}
  ELSE programOutcomes(cells, ctl.addr, SectorSz, buf)

(* flashdrv_sync: erase and program the buffered sector if it is dirty. *)
spimSync ==
  IF ctl.addr = NoAddr \/ ~ctl.dirty THEN {[cells |-> cells, ok |-> TRUE]}
  ELSE rewriteOutcomes(cells, ctl.addr, SectorSz, buf)

chunk == norLeast(SectorSz - sectorOfs(job.offs), Len(job.data))

wholeSector == sectorOfs(job.offs) = 0 /\ chunk = SectorSz

(* flashdrv_write, one turn of its loop: into the buffered sector ...      *)
intoBuffer(b) ==
  /\ buf' = stored(b, sectorOfs(job.offs), job.data, chunk)
  /\ want' = stored(want, job.offs, job.data, chunk)
  /\ ctl' = [addr |-> sectorStart(job.offs), dirty |-> TRUE]
  /\ advance(chunk)

spimWriteBuffered ==
  /\ job.op = "write" /\ job.data # <<>>
  /\ ctl.addr = sectorStart(job.offs)
  /\ intoBuffer(buf)
  /\ UNCHANGED <<cells, ret, lapses>>

(* ... or a whole sector past the buffer ...                               *)
directWrite ==
  /\ job.op = "write" /\ job.data # <<>>
  /\ ctl.addr # sectorStart(job.offs) /\ wholeSector
  /\ \E o \in rewriteOutcomes(cells, job.offs, SectorSz, [i \in DOMAIN buf |-> job.data[i + 1]]) :
       /\ cells' = o.cells
       /\ \/ /\ o.ok
             /\ want' = stored(want, job.offs, job.data, chunk)
             /\ advance(chunk)
             /\ UNCHANGED ret
          \/ /\ ~o.ok
             /\ want' = forgotten(sectorCells(job.offs, SectorSz), o.cells)
             /\ fails("write")
  /\ UNCHANGED <<buf, ctl, lapses>>

(* Mutant: the buffered sector is not written back before it is replaced. *)
spimWriteChangeDrops ==
  /\ job.op = "write" /\ job.data # <<>>
  /\ ctl.addr # sectorStart(job.offs) /\ ~wholeSector
  /\ intoBuffer(nor_readData(cells, sectorStart(job.offs), SectorSz))
  /\ UNCHANGED <<cells, ret, lapses>>

(* ... or another sector is read into the buffer first.                    *)
spimWriteChange ==
  /\ job.op = "write" /\ job.data # <<>>
  /\ ctl.addr # sectorStart(job.offs) /\ ~wholeSector
  /\ \E o \in spimSync :
       /\ cells' = o.cells
       /\ \/ /\ ~o.ok
             /\ fails("write")
             /\ UNCHANGED <<want, buf, ctl>>
          \/ /\ o.ok
             /\ intoBuffer(nor_readData(o.cells, sectorStart(job.offs), SectorSz))
             /\ UNCHANGED ret
          \/ /\ o.ok
             /\ buf' \in {buf, nor_readData(o.cells, sectorStart(job.offs), SectorSz)}
             /\ ctl' = [addr |-> NoAddr, dirty |-> ctl.addr = NoAddr /\ ctl.dirty]
             /\ fails("write")
             /\ UNCHANGED want
  /\ UNCHANGED lapses

writeEnd ==
  /\ job.op = "write" /\ job.data = <<>>
  /\ succeeds("write")
  /\ UNCHANGED <<cells, want, buf, ctl, lapses>>

spimSyncCall ==
  /\ job = Idle
  /\ \E o \in spimSync :
       /\ cells' = o.cells
       /\ ctl' = IF o.ok /\ ctl.addr # NoAddr THEN [ctl EXCEPT !.dirty = FALSE] ELSE ctl
       /\ returns("sync", o.ok)
  /\ UNCHANGED <<want, buf, job, lapses>>

(* flashdrv_read: the bytes of the buffered sector, if the range starts in *)
(* it, and the rest from the array.                                        *)
spimRead(offs, len) ==
  LET fromBuf == IF sectorStart(offs) = ctl.addr
                 THEN norLeast(ctl.addr + SectorSz - offs, len) ELSE 0
  IN [i \in 0..len - 1 |-> IF i < fromBuf THEN buf[offs - ctl.addr + i] ELSE cells[offs + i]]

(* The sectors flashdrv_erase goes over: the end of the range is taken     *)
(* from the aligned start.                                                 *)
erasedSectors(offs, len) ==
  sectorStart(offs)..sectorStart(sectorStart(offs) + len + SectorSz - 1) - 1

(* Mutant: the buffer survives the erasing of its sector. *)
keepBuffer(area) == ctl

(* The buffer is dropped when the sector it holds is reached. *)
dropBuffer(area) ==
  IF ctl.addr \in area THEN [ctl EXCEPT !.addr = NoAddr] ELSE ctl

eraseRange(offs, len) ==
  LET range == erasedSectors(offs, len)
  IN /\ \E o \in eraseOutcomes(cells, range, uniform(range)) :
          /\ cells' = o.cells
          /\ want' = afterErase(o)
          /\ ctl' = dropBuffer(o.area)
          /\ returns("erase", o.ok)
          /\ lapse("offgrid", o.ok /\ ~(sectorCells(offs, len) \subseteq range))
     /\ UNCHANGED <<buf, job>>

(* len = -1 erases the chip, except from offset 0: there the length is     *)
(* taken for one that does not fit, and the call is refused.               *)
spimErase(offs, len, whole) ==
  /\ job = Idle
  /\ \/ ~whole /\ eraseRange(offs, len)
     \/ /\ whole /\ offs > 0
        /\ \E o \in chipOutcomes(cells) :
             cells' = o.cells /\ want' = afterErase(o) /\ returns("erase", o.ok)
        /\ ctl' = [ctl EXCEPT !.addr = NoAddr]
        /\ UNCHANGED <<buf, job, lapses>>

spimPowerLoss == powerLoss(spimPending, spimFields)

spimNext ==
  \/ startWrite \/ refuse
  \/ spimWriteBuffered \/ directWrite \/ spimWriteChange \/ writeEnd
  \/ spimSyncCall
  \/ \E r \in Ranges, whole \in BOOLEAN : spimErase(r[1], r[2], whole)
  \/ spimPowerLoss
=============================================================================
