------------------------------- MODULE Flash -------------------------------
(***************************************************************************)
(* The NOR flash drivers side by side: a board has one of them.            *)
(***************************************************************************)
EXTENDS FlashImxrt, FlashZynq, FlashFtmctrl

CONSTANT Drivers    (* the drivers to look at *)

VARIABLE driver    (* the one this board has *)

flashVars == <<driver, norVars>>

flashInit ==
  /\ driver \in Drivers
  /\ \/ driver = "imxrt" /\ imxrtInit
     \/ driver = "zynq" /\ zynqInit
     \/ driver \in {"spimctrl", "ftmctrl"} /\ spimInit

driverNext ==
  \/ driver = "imxrt" /\ imxrtNext
  \/ driver = "zynq" /\ zynqNext
  \/ driver = "spimctrl" /\ spimNext
  \/ driver = "ftmctrl" /\ ftmNext

(* Bound: after a lapse a driver starts anew. *)
flashNext ==
  /\ UNCHANGED driver
  /\ \/ lapses = {} /\ driverNext
     \/ /\ lapses # {}
        /\ norRefresh(CASE driver = "imxrt" -> imxrtFields
                        [] driver = "zynq" -> zynqFields
                        [] OTHER -> spimFields)

FlashSpec == flashInit /\ [][flashNext]_flashVars

(***************************************************************************)
(* Properties.                                                             *)
(***************************************************************************)
pending ==
  CASE driver = "imxrt" -> imxrtPending
    [] driver = "zynq" -> zynqPending
    [] OTHER -> spimPending

bufferStart ==
  CASE driver = "imxrt" -> sectorStart(ctl.prev)
    [] driver = "zynq" -> zynqStart(ctl.reg, ctl.sect)
    [] OTHER -> ctl.addr

(* Through partial writes, failing erase and program commands, errors in   *)
(* the middle of a transfer and power loss: every byte written is in the   *)
(* array or, if its sector is the pending one, in the buffer, and no byte  *)
(* of another sector has changed.  The lapses are what the drivers do not  *)
(* carry out: on imxrt a second write to a sector just synchronised        *)
(* ("rewrite") and a sector overwritten with erased bytes ("blank"); on    *)
(* zynq a write that does not continue the last one ("seek") and, after a  *)
(* sync that failed half-way, one that needs bits it has cleared           *)
(* ("retry"); on both erasing with a write pending elsewhere ("unsynced"); *)
(* on the others erasing a range that does not start on a sector           *)
(* ("offgrid").                                                            *)
WriteBack ==
  lapses = {} =>
    \A a \in Cell : want[a] = IF a \in pending THEN buf[a - bufferStart] ELSE cells[a]

(* A successful devs_sync leaves the array as the calls before it wrote    *)
(* it, nothing in RAM only, after any failed sync or write and with the    *)
(* lapses of WriteBack excepted.                                           *)
SyncStores == lapses = {} /\ ret = "sync" => cells = want

(* devs_read returns what was written, for any range and at any time       *)
(* between calls, but for a sector still pending: imxrt and zynq read past *)
(* the buffer, the other two find it only if the read starts in it (and    *)
(* ftmctrl then finds nothing else).                                       *)
ReadsWritten ==
  lapses = {} /\ job = Idle =>
    \A r \in Ranges :
      LET inside == sectorStart(r[1]) = ctl.addr
      IN CASE driver = "imxrt"    -> fresh(r[1], imxrtRead(r[1], r[2]), pending)
           [] driver = "zynq"     -> fresh(r[1], zynqRead(r[1], r[2]), pending)
           [] driver = "spimctrl" -> fresh(r[1], spimRead(r[1], r[2]), IF inside THEN {} ELSE pending)
           [] driver = "ftmctrl"  ->
                \A d \in ftmRead(r[1], r[2]) :
                  fresh(r[1], d, IF inside THEN Cell \ sectorCells(ctl.addr, SectorSz) ELSE pending)
=============================================================================
