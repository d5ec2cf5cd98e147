-------------------------------- MODULE Mpu ---------------------------------
(***************************************************************************)
(* The MPU regions that syspage_mapAdd asks for, as hal/armv7m/mpu.c (and  *)
(* armv7r, whose code is the same) and hal/armv8m/mpu.c lay them out.      *)
(*                                                                         *)
(* A region of the first kind is a power of two in size, with eight        *)
(* subregions that can be off; where regions overlap, the one with the     *)
(* highest number decides.  A map takes one or two, or a larger region     *)
(* with a hole cut out by others that grant nothing.                       *)
(***************************************************************************)
EXTENDS Integers, Sequences, FiniteSetsExt, TLC

CONSTANTS
  AddrBits,      (* width of an address, and number of sizes a region can have *)
  MinBits,       (* the smallest region has 2^MinBits bytes *)
  RegMax,        (* regions of the MPU *)
  TableSizes,    (* entries the syspage may have for regions, on armv8m *)
  Archs,         (* of "v7", "v8" and "none", an armv8m without an MPU *)
  Ranges,        (* <<start, end>> of the maps asked for *)
  MaxMaps        (* bound: maps *)

ASSUME MpuAssumption ==
  /\ AddrBits \in Nat /\ MinBits \in 3..AddrBits
  /\ RegMax \in Nat \ {0} /\ TableSizes \subseteq Nat
  /\ \A r \in Ranges : r \in (0..2^AddrBits - 1) \X (0..2^AddrBits - 1)

VARIABLES
  arch,
  region, regCnt,   (* the context of mpu.c; a region knows its map *)
  maps,             (* sequence of [start, end, mapped] *)
  hal               (* what the kernel is given, or <<>> *)

mpuVars == <<arch, region, regCnt, maps, hal>>

Space == 2^AddrBits
Numbers == 0..RegMax - 1
Invalid == [attr |-> "invalid"]

down(a, k) == a - (a % 2^k)
last(end) == (end - 1) % Space      (* end = 0 is the end of the address range *)

(* __builtin_ctz(start | end), and the bits in which the range differs. *)
trailingZeroes(start, end) == Max({k \in 0..AddrBits : start % 2^k = 0 /\ end % 2^k = 0})
commonMsb(start, end) == Min({k \in 0..AddrBits : start \div 2^k = last(end) \div 2^k})

(***************************************************************************)
(* armv7m and armv7r.  A plan has the regions to add, and a result.        *)
(***************************************************************************)
EmptyPlan == [res |-> "EOK", new |-> <<>>]
refused(plan, err) == [plan EXCEPT !.res = err]

(* RASR has room for AddrBits different sizes. *)
mpu_regionSet(plan, base, off, bits, attr) ==
  IF plan.res # "EOK" THEN plan
  ELSE IF bits < MinBits \/ regCnt + Len(plan.new) >= RegMax THEN refused(plan, "EPERM")
  ELSE [plan EXCEPT !.new = Append(@, [base |-> base, off |-> off, attr |-> attr,
                                       bits |-> ((bits - 1) % AddrBits) + 1])]

mpu_regionCalculateAndSet(plan, start, end, bits, attr) ==
  LET srStart == (start \div 2^(bits - 3)) % 8
      next == (end \div 2^(bits - 3)) % 8
      srEnd == IF next = 0 THEN 8 ELSE next
  IN mpu_regionSet(plan, down(start, bits), (0..7) \ (srStart..srEnd - 1), bits, attr)

(* The cases without a hole, one or two regions. *)
generateSolid(plan, start, end, attr) ==
  LET size == (end - start) % Space
      zeroes == trailingZeroes(start, end)
      sigBits == commonMsb(start, end) - zeroes
      reg1End == down(start, zeroes + 3) + 2^(zeroes + 3)
  IN CASE end # 0 /\ end <= start -> refused(plan, "EINVAL")
       [] size = 0 -> mpu_regionSet(plan, 0, {}, AddrBits, attr)
       [] size # 0 /\ \E k \in 0..AddrBits : size = 2^k /\ start % size = 0 ->
            mpu_regionSet(plan, start, {}, CHOOSE k \in 0..AddrBits : size = 2^k, attr)
       [] OTHER ->
            CASE zeroes < MinBits -> refused(plan, "EPERM")
              [] zeroes >= MinBits /\ sigBits <= 3 ->
                   mpu_regionCalculateAndSet(plan, start, end, zeroes + 3, attr)
              [] zeroes >= MinBits /\ sigBits = 4 ->
                   mpu_regionCalculateAndSet(
                     mpu_regionCalculateAndSet(plan, start, reg1End, zeroes + 3, attr),
                     reg1End, end, zeroes + 3, attr)
              [] OTHER -> refused(plan, "cut")

(* First and last byte of subregion j.  (Of a region whose size did not fit *)
(* into RASR, the shift that computes the size yields 0.)                   *)
subregion(r, j) ==
  LET size == IF r.bits < 3 THEN 0 ELSE 2^(r.bits - 3)
  IN <<r.base + j * size, (r.base + (j + 1) * size - 1) % Space>>

(* Mutant: a hole may lie over another map. *)
NoOverlap(start, end) == FALSE

mpu_checkOverlap(start, end) ==
  \E i \in 0..regCnt - 1, j \in 0..7 :
    LET sr == subregion(region[i], j)
    IN j \notin region[i].off /\ start <= sr[2] /\ sr[1] <= last(end)

(* A larger region with a hole, at one of its ends, that needs no hole itself. *)
generateHoled(start, end) ==
  LET msb == commonMsb(start, end)
      k == msb - 3
      fromEnd == start % 2^k = 0
      alignedStart == down(start, k)
      alignedEnd == IF fromEnd THEN (down(end, k) + 2^k) % Space ELSE end
      holeStart == IF fromEnd THEN end ELSE alignedStart
      holeEnd == IF fromEnd THEN alignedEnd ELSE start
      plan == generateSolid(mpu_regionCalculateAndSet(EmptyPlan, alignedStart, alignedEnd, msb, "map"),
                            holeStart, holeEnd, "hole")
  IN IF (~fromEnd /\ end % 2^k # 0) \/ mpu_checkOverlap(holeStart, holeEnd)
     THEN refused(EmptyPlan, "EPERM")
     ELSE IF plan.res = "cut" THEN refused(plan, "EPERM") ELSE plan

mpu_regionGenerate(start, end) ==
  LET solid == generateSolid(EmptyPlan, start, end, "map")
  IN IF solid.res = "cut" THEN generateHoled(start, end) ELSE solid

(***************************************************************************)
(* armv8m: a region has any start and limit.                               *)
(***************************************************************************)
mpu_regionSetV8(start, end) ==
  LET size == (end - start) % Space
  IN CASE regCnt >= RegMax -> refused(EmptyPlan, "EPERM")
       [] regCnt < RegMax /\ end # 0 /\ end <= start -> refused(EmptyPlan, "EINVAL")
       [] OTHER ->
            IF size # 0 /\ (size % 2^MinBits # 0 \/ start % 2^MinBits # 0)
            THEN refused(EmptyPlan, "EPERM")
            ELSE [EmptyPlan EXCEPT !.new =
                    <<[base |-> start, limit |-> down(last(end), MinBits), attr |-> "map"]>>]

(***************************************************************************)
(* Both.                                                                   *)
(***************************************************************************)
(* mpu_regionInvalidate(first, past) *)
invalidated(table, first, past) ==
  [i \in Numbers |-> IF i \in first..past - 1 THEN Invalid ELSE table[i]]

(* The table with the regions of the plan, which get the number of their map. *)
mpu_regionAssignMap(plan, id) ==
  [i \in Numbers |-> IF i \in regCnt..regCnt + Len(plan.new) - 1
                     THEN plan.new[i - regCnt + 1] @@ [map |-> id] ELSE region[i]]

(* Mutant: what was set before the failure stays. *)
AllocKeeps(plan, id) ==
  /\ region' = mpu_regionAssignMap(plan, id)
  /\ regCnt' = IF plan.res = "EOK" THEN regCnt + Len(plan.new) ELSE regCnt

(* A plan that has failed is taken back. *)
mpu_regionAlloc(plan, id) ==
  LET set == mpu_regionAssignMap(plan, id)
      past == regCnt + Len(plan.new)
  IN IF plan.res = "EOK" THEN region' = set /\ regCnt' = past
     ELSE region' = invalidated(set, regCnt, past) /\ UNCHANGED regCnt

overlaps(start, end) ==
  \E m \in DOMAIN maps : maps[m].start < end /\ maps[m].end > start

(* What mpu_regionAlloc works out; without an MPU it succeeds at once. *)
regions(start, end) ==
  CASE arch = "v7" -> mpu_regionGenerate(start, end)
    [] arch = "v8" -> mpu_regionSetV8(start, end)
    [] OTHER -> EmptyPlan

(* The end of syspage_mapAdd: a map that overlaps no other is linked, and  *)
(* stays so when there are no regions for it.                              *)
syspage_mapAdd(start, end) ==
  LET plan == regions(start, end)
  IN /\ hal = <<>> /\ Len(maps) < MaxMaps
     /\ ~overlaps(start, end)
     /\ mpu_regionAlloc(plan, Len(maps) + 1)
     /\ maps' = Append(maps, [start |-> start, end |-> end, mapped |-> plan.res = "EOK"])
     /\ UNCHANGED <<arch, hal>>

(* The kernel is launched.  On armv8m, regions beyond the table of the     *)
(* syspage are dropped without a word.                                     *)
mpu_getHalData(size) ==
  /\ hal = <<>>
  /\ region' = invalidated(region, regCnt, RegMax)
  /\ regCnt' = IF arch = "v8" /\ regCnt > size THEN size ELSE regCnt
  /\ hal' = <<[i \in Numbers |-> IF i < regCnt' THEN region'[i] ELSE Invalid]>>
  /\ UNCHANGED <<arch, maps>>

mpu_init ==
  /\ arch \in Archs
  /\ region = [i \in Numbers |-> Invalid] /\ regCnt = 0
  /\ maps = <<>> /\ hal = <<>>

Next ==
  \/ \E size \in TableSizes : mpu_getHalData(size)
  \/ \E r \in Ranges : syspage_mapAdd(r[1], r[2])
Spec == mpu_init /\ [][Next]_mpuVars

(***************************************************************************)
(* The MPU, when the kernel enables the regions of the maps in use: the    *)
(* maps that grant access to address a.                                    *)
(***************************************************************************)
covers(r, a) ==
  IF arch = "v8" THEN r.base <= a /\ a < r.limit + 2^MinBits
  ELSE /\ r.bits >= MinBits
       /\ a \div 2^r.bits = r.base \div 2^r.bits
       /\ (a \div 2^(r.bits - 3)) % 8 \notin r.off

access(use, a) ==
  LET table == hal[1]
      hits == {i \in Numbers : table[i] # Invalid /\ table[i].map \in use /\ covers(table[i], a)}
  IN IF arch = "v8" THEN {table[i].map : i \in hits}
     ELSE {table[i].map : i \in {i \in hits : i = Max(hits) /\ table[i].attr = "map"}}

(***************************************************************************)
(* Properties.                                                             *)
(***************************************************************************)
Granules == {a \in 0..Space - 1 : a % 2^MinBits = 0}
contains(m, a) == m.start <= a /\ (m.end = 0 \/ a < m.end)

(* Bounds on quarters of the address space, but no power of two: RASR has  *)
(* no size for the region.                                                 *)
oversized(m) ==
  /\ m.mapped /\ arch = "v7"
  /\ trailingZeroes(m.start, m.end) > AddrBits - 3
  /\ ~\E k \in 0..AddrBits : (m.end - m.start) % Space = 2^k % Space /\ m.start % 2^k = 0

(* The region of map m, its only one on armv8m, did not fit into the       *)
(* syspage's table: mpu_getHalData has cut regCnt.                         *)
dropped(m) ==
  arch = "v8" /\ Cardinality({i \in 1..m - 1 : maps[i].mapped}) >= regCnt

(* Whichever maps are in use, an address is granted by the map that        *)
(* contains it, if that is in use and has regions, and by no other: the    *)
(* regions of a map cover all of it and nothing else, and no hole hides a  *)
(* part of an earlier map.  When armv8m cuts the table, the maps in front  *)
(* keep all their addresses and the ones behind have none.  (Maps that end *)
(* at address 0 escape the check for overlaps; an address of two maps is   *)
(* not looked at.)                                                         *)
MapsProtected ==
  hal # <<>> /\ arch # "none" /\ (\A m \in DOMAIN maps : ~oversized(maps[m])) =>
    \A a \in Granules :
      LET owners == {m \in DOMAIN maps : contains(maps[m], a)}
      IN Cardinality(owners) <= 1 =>
           \A use \in SUBSET DOMAIN maps :
             access(use, a) = {m \in owners \cap use : maps[m].mapped /\ ~dropped(m)}

(* A map refused half way, with one of its regions already set, leaves the *)
(* regions of the others as they were.                                     *)
RefusedUnchanged == [][regCnt' = regCnt => region' = region]_mpuVars
=============================================================================
