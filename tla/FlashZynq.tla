----------------------------- MODULE FlashZynq -----------------------------
(***************************************************************************)
(* devices/flash-zynq/flashdrv.c.  The flash is made of regions of sectors *)
(* of one size each.  A sector is read into the buffer and erased when the *)
(* first byte is written to it; buffPos is where the next byte goes, and   *)
(* the buffer is programmed when it is full or synchronised.               *)
(***************************************************************************)
EXTENDS NorFlash

CONSTANT Regs   (* cfi->regs: for each region the size and number of its sectors *)

ASSUME RegsAssumption == Regs \in Seq([size : Nat \ {0}, count : Nat \ {0}])

zynqFields == [reg |-> 0, sect |-> 0, pos |-> 0]

(* regID and sectID are -1. *)
zynqUnbuffered == ctl.reg = 0

zynqRegionSz(id) == Regs[id].size * Regs[id].count

flashdrv_regStart(id) ==
  LET start[i \in 1..Len(Regs)] == IF i = 1 THEN 0 ELSE start[i - 1] + zynqRegionSz(i - 1)
  IN start[id]

(* The first region in which offs lies; the start of the second and later  *)
(* ones is taken to be the size of the one before.                         *)
flashdrv_regionFind(offs) ==
  LET start(i) == IF i = 1 THEN 0 ELSE zynqRegionSz(i - 1)
      in(i) == offs \in start(i)..start(i) + zynqRegionSz(i) - 1
  IN CHOOSE i \in DOMAIN Regs : in(i) /\ \A j \in 1..i - 1 : ~in(j)

zynqSize(offs) == Regs[flashdrv_regionFind(offs)].size
zynqSectID(offs) == (offs - flashdrv_regStart(flashdrv_regionFind(offs))) \div zynqSize(offs)
zynqStart(reg, sect) == flashdrv_regStart(reg) + sect * Regs[reg].size
zynqSectStart(offs) == zynqStart(flashdrv_regionFind(offs), zynqSectID(offs))

zynqPending ==
  IF zynqUnbuffered THEN {}
  ELSE sectorCells(zynqStart(ctl.reg, ctl.sect), Regs[ctl.reg].size)

zynqInit ==
  /\ norInit
  /\ buf = [i \in 0..TotalSz - 1 |-> Erased]
  /\ ctl = zynqFields

(* flashdrv_sync: the sector is erased already, its pages are programmed.  *)
zynqSync ==
  IF ctl.pos = 0 THEN {[cells |-> cells, ok |-> TRUE]}
  ELSE programOutcomes(cells, zynqStart(ctl.reg, ctl.sect), Regs[ctl.reg].size, buf)

(* The bytes go to buffPos, wherever offs points in the sector. *)
zynqCopy(b, reg, sect, pos) ==
  LET n == norLeast(Len(job.data), Regs[reg].size - pos)
  IN /\ buf' = stored(b, pos, job.data, n)
     /\ want' = stored(want, job.offs, job.data, n)
     /\ ctl' = [reg |-> reg, sect |-> sect, pos |-> pos + n]
     /\ advance(n)

zynqFull == ~zynqUnbuffered /\ ctl.pos = Regs[ctl.reg].size

zynqOther(offs) == ctl.reg # flashdrv_regionFind(offs) \/ ctl.sect # zynqSectID(offs)

(* flashdrv_write, one turn of its loop: the buffer is changed to another  *)
(* sector ...                                                              *)
zynqWriteChange ==
  /\ job.op = "write" /\ job.data # <<>>
  /\ zynqOther(job.offs) /\ ~zynqFull
  /\ LET start  == zynqSectStart(job.offs)
         sectSz == zynqSize(job.offs)
         loaded(c) == [i \in DOMAIN buf |-> IF i < sectSz THEN c[start + i] ELSE buf[i]]
     IN \E o \in zynqSync :
          \/ /\ ~o.ok
             /\ cells' = o.cells
             /\ fails("write")
             /\ UNCHANGED <<want, buf, ctl>>
          \/ /\ o.ok
             /\ cells' = nor_eraseSector(o.cells, start, sectSz)
             /\ zynqCopy(loaded(o.cells), flashdrv_regionFind(job.offs), zynqSectID(job.offs),
                         job.offs - start)
             /\ UNCHANGED ret
          \/ /\ o.ok
             /\ cells' \in {o.cells, nor_eraseSector(o.cells, start, sectSz)}
             /\ buf' \in {buf, loaded(o.cells)}
             /\ want' = forgotten(sectorCells(start, sectSz), cells')
             /\ ctl' = zynqFields
             /\ fails("write")
  /\ UNCHANGED lapses

(* ... or bytes are added to the sector that is in it ...  Lapses: the     *)
(* bytes do not continue the last write; they need a bit that a sync which *)
(* failed half-way has cleared, and the sector is not erased again.        *)
zynqWriteSame ==
  /\ job.op = "write" /\ job.data # <<>>
  /\ ~zynqOther(job.offs) /\ ~zynqFull
  /\ zynqCopy(buf, ctl.reg, ctl.sect, ctl.pos)
  /\ lapses' = lapses
       \cup (IF job.offs # zynqStart(ctl.reg, ctl.sect) + ctl.pos THEN {"seek"} ELSE {})
       \cup (IF \E a \in zynqPending : cells[a] = 0 /\ buf'[a - zynqStart(ctl.reg, ctl.sect)] # 0
             THEN {"retry"} ELSE {})
  /\ UNCHANGED <<cells, ret>>

(* ... and a full buffer is programmed.                                    *)
zynqWriteFull ==
  /\ job.op = "write" /\ zynqFull
  /\ \E o \in zynqSync :
       /\ cells' = o.cells
       /\ \/ o.ok /\ ctl' = zynqFields /\ UNCHANGED <<job, ret>>
          \/ ~o.ok /\ fails("write") /\ UNCHANGED ctl
  /\ UNCHANGED <<want, buf, lapses>>

zynqWriteEnd ==
  /\ job.op = "write" /\ job.data = <<>> /\ ~zynqFull
  /\ succeeds("write")
  /\ UNCHANGED <<cells, want, buf, ctl, lapses>>

zynqSyncCall ==
  /\ job = Idle
  /\ \E o \in zynqSync :
       /\ cells' = o.cells
       /\ ctl' = IF o.ok THEN zynqFields ELSE ctl
       /\ returns("sync", o.ok)
  /\ UNCHANGED <<want, buf, job, lapses>>

(* flashdrv_read goes to the array, past the buffer. *)
zynqRead(offs, len) == nor_readData(cells, offs, len)

(* addr & ~(sectSz - 1) *)
aligned(addr, sz) == addr - (addr % sz)

(* flashdrv_erase: the buffer is dropped first, also by a call that is     *)
(* then refused for its range.                                             *)
zynqErase(offs, len, whole) ==
  /\ job = Idle
  /\ \E o \in
       IF whole THEN chipOutcomes(cells)
       ELSE IF offs + len > TotalSz THEN {[cells |-> cells, ok |-> FALSE, area |-> {}]}
       ELSE LET last  == offs + len - 1
                range == aligned(offs, zynqSize(offs))..aligned(last, zynqSize(last)) + zynqSize(last) - 1
                sects == {a \in Cell : a \in range /\ zynqSectStart(a) = a}
            IN eraseOutcomes(cells, range, [a \in sects |-> zynqSize(a)]) :
       /\ cells' = o.cells
       /\ want' = afterErase(o)
       /\ returns("erase", o.ok)
       /\ lapse("unsynced", ~(zynqPending \subseteq o.area))
  /\ ctl' = zynqFields
  /\ UNCHANGED <<buf, job>>

zynqPowerLoss == powerLoss(zynqPending, zynqFields)

zynqNext ==
  \/ startWrite \/ refuse
  \/ zynqWriteChange \/ zynqWriteSame \/ zynqWriteFull \/ zynqWriteEnd
  \/ zynqSyncCall
  \/ \E offs \in Cell, len \in 1..MaxLen, whole \in BOOLEAN : zynqErase(offs, len, whole)
  \/ zynqPowerLoss
=============================================================================
