----------------------------- MODULE NorFlash -----------------------------
(***************************************************************************)
(* What the NOR flash drivers of devices/flash-* have in common: the array *)
(* itself (erasing sets the bits of a sector, programming only clears      *)
(* them), the one-sector buffer the drivers write through, and the calls   *)
(* devs_read, devs_write, devs_sync and devs_erase make on them.           *)
(*                                                                         *)
(* A byte is one bit wide here: that is enough to tell an erased byte from *)
(* a programmed one and to see that programming cannot set a bit.          *)
(***************************************************************************)
EXTENDS Naturals, Sequences

CONSTANTS
  TotalSz,   (* the size of the flash *)
  SectorSz,  (* the size of its sectors, the unit of erasing *)
  PageSz,    (* the size of a page, the unit of programming *)
  MaxLen     (* bound: the longest transfer of a call *)

ASSUME NorAssumption ==
  /\ {TotalSz, SectorSz, PageSz, MaxLen} \subseteq Nat \ {0}
  /\ TotalSz % SectorSz = 0
  /\ SectorSz % PageSz = 0

VARIABLES
  cells,   (* the array *)
  want,    (* history: what the calls made so far should have stored *)
  buf,     (* the sector buffer in RAM *)
  ctl,     (* the driver's own fields beside the buffer *)
  job,     (* the call in progress *)
  ret,     (* the last call, or "error" if that is what it returned *)
  lapses   (* history: the uses of the driver that it does not carry out *)

norVars == <<cells, want, buf, ctl, job, ret, lapses>>

Cell   == 0..TotalSz - 1
Bit    == {0, 1}
Erased == 1

(* (addr_t)-1: in no sector, not even the one that would follow the flash. *)
NoAddr == 2 * TotalSz

norLeast(a, b) == IF a < b THEN a ELSE b

sectorOfs(addr) == addr % SectorSz
sectorStart(addr) == addr - sectorOfs(addr)
sectorCells(start, sz) == start..start + sz - 1

(* The commands of the array. *)
nor_eraseSector(c, start, sz) ==
  [a \in Cell |-> IF a \in sectorCells(start, sz) THEN Erased ELSE c[a]]

nor_pageProgram(c, start, src, n) ==
  [a \in Cell |-> IF a \in sectorCells(start, n) THEN c[a] * src[a - start] ELSE c[a]]

nor_readData(c, start, sz) == [i \in 0..sz - 1 |-> c[start + i]]

(* What programming a sector page by page leaves: the command for page n   *)
(* fails, or none does.                                                    *)
programOutcomes(c, start, sz, src) ==
  {[cells |-> nor_pageProgram(c, start, src, n * PageSz), ok |-> n = sz \div PageSz] :
     n \in 0..sz \div PageSz}

(* What erasing a sector and then programming it leaves. *)
rewriteOutcomes(c, start, sz, src) ==
  {[cells |-> c, ok |-> FALSE]}
    \cup programOutcomes(nor_eraseSector(c, start, sz), start, sz, src)

(* What erasing the sectors of range leaves, one after the other: area is  *)
(* what was reached, the sector whose erasing fails included.  sizes gives *)
(* the size of each sector by its start.                                   *)
eraseOutcomes(c, range, sizes) ==
  LET below(n) == {a \in range : a < n}
      wiped(n) == [a \in Cell |-> IF a \in below(n) THEN Erased ELSE c[a]]
      failing(n, upTo) == [cells |-> wiped(upTo), ok |-> FALSE, area |-> below(n + sizes[n])]
  IN {failing(n, n) : n \in DOMAIN sizes} \cup {failing(n, n + sizes[n]) : n \in DOMAIN sizes}
       \cup {[cells |-> wiped(TotalSz), ok |-> TRUE, area |-> range]}

(* The sectors of range where all have the same size. *)
uniform(range) == [a \in {a \in range : sectorOfs(a) = 0} |-> SectorSz]

(* The whole chip at once. *)
chipOutcomes(c) ==
  {[cells |-> c, ok |-> FALSE, area |-> Cell]}
    \cup {[cells |-> [a \in Cell |-> Erased], ok |-> b, area |-> Cell] : b \in BOOLEAN}

(* n bytes of a transfer stored in the buffer (or in want) from offset at. *)
stored(m, at, data, n) ==
  [a \in DOMAIN m |-> IF a \in at..at + n - 1 THEN data[a - at + 1] ELSE m[a]]

(* The caller can no longer tell what area holds: it holds what is there. *)
forgotten(area, c) == [a \in Cell |-> IF a \in area THEN c[a] ELSE want[a]]

(* What a caller may assume after erasing. *)
afterErase(o) ==
  [a \in Cell |-> IF a \notin o.area THEN want[a] ELSE IF o.ok THEN Erased ELSE o.cells[a]]

(***************************************************************************)
(* Calls.  A write is a loop of the driver over the sectors it touches:    *)
(* job is what is left of it.                                              *)
(***************************************************************************)
Idle == [op |-> "idle"]
Data == UNION {[1..n -> Bit] : n \in 1..MaxLen}

returns(op, ok) == ret' = IF ok THEN op ELSE "error"

norInit ==
  /\ cells = [a \in Cell |-> 0]
  /\ want = cells
  /\ job = Idle
  /\ ret = "init"
  /\ lapses = {}

(* devs_write with a range inside the flash: the loop starts. *)
startWrite ==
  \E offs \in Cell, data \in Data :
    /\ job = Idle
    /\ offs + Len(data) <= TotalSz
    /\ job' = [op |-> "write", offs |-> offs, data |-> data]
    /\ ret' = "busy"
    /\ UNCHANGED <<cells, want, buf, ctl, lapses>>

(* The part of the transfer left after n bytes. *)
advance(n) ==
  job' = [job EXCEPT !.offs = @ + n, !.data = SubSeq(@, n + 1, Len(@))]

(* A call outside the flash is refused and changes nothing. *)
refuse ==
  /\ job = Idle
  /\ ret' = "error"
  /\ UNCHANGED <<cells, want, buf, ctl, job, lapses>>

lapse(name, cond) == lapses' = lapses \cup (IF cond THEN {name} ELSE {})

fails(op) == job' = Idle /\ returns(op, FALSE)

succeeds(op) == job' = Idle /\ returns(op, TRUE)

(* Power is lost at any moment, in the middle of a call too: RAM is lost   *)
(* and with it the sector that was pending.                                *)
powerLoss(pending, fields) ==
  /\ job' = Idle
  /\ ret' = "init"
  /\ ctl' = fields
  /\ buf' = [i \in DOMAIN buf |-> Erased]
  /\ want' = forgotten(pending, cells)
  /\ UNCHANGED <<cells, lapses>>

(* Bound: what follows a lapse is not explored, the flash is made anew.    *)
norRefresh(fields) ==
  /\ lapses' = {}
  /\ cells' = [a \in Cell |-> Erased]
  /\ want' = cells'
  /\ buf' = [i \in DOMAIN buf |-> Erased]
  /\ job' = Idle
  /\ ret' = "init"
  /\ ctl' = fields

(* A read of any range returns what was written, but for the bytes exempt. *)
fresh(offs, data, exempt) ==
  \A i \in DOMAIN data : offs + i \in exempt \/ data[i] = want[offs + i]

Ranges == {r \in Cell \X (1..MaxLen) : r[1] + r[2] <= TotalSz}
=============================================================================
