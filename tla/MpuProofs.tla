----------------------------- MODULE MpuProofs ------------------------------
(***************************************************************************)
(* Proofs about Mpu, for every number of regions and every width of an     *)
(* address: however the regions of a map are worked out, they fit into the *)
(* MPU, and a map that is refused half way leaves no trace.  The invariant *)
(* is that, until the kernel is launched, the regions from regCnt on are   *)
(* invalid, which is what makes mpu_regionInvalidate restore the table.    *)
(***************************************************************************)
EXTENDS Mpu, TLAPS

(* A plan in the making: a sequence of regions for which the MPU has room. *)
Plan(p) ==
  /\ p = [res |-> p.res, new |-> p.new]
  /\ \E T : p.new \in Seq(T)
  /\ regCnt + Len(p.new) <= RegMax

MpuInv ==
  /\ regCnt \in 0..RegMax
  /\ region = [i \in Numbers |-> region[i]]
  /\ hal = <<>> => \A i \in Numbers : i >= regCnt => region[i] = Invalid

(* The start of mpu_regionAlloc.                                            *)
LEMMA EmptyIsPlan == MpuInv => Plan(EmptyPlan)
<1> SUFFICES ASSUME MpuInv PROVE Plan(EmptyPlan)
  OBVIOUS
<1>1. EmptyPlan.new = <<>> /\ EmptyPlan = [res |-> EmptyPlan.res, new |-> EmptyPlan.new]
  BY DEF EmptyPlan
<1>2. <<>> \in Seq({}) /\ Len(<<>>) = 0
  OBVIOUS
<1>3. regCnt + Len(EmptyPlan.new) <= RegMax
  BY <1>1, <1>2, MpuAssumption DEF MpuInv
<1>4. QED
  BY <1>1, <1>2, <1>3 DEF Plan

(* An error takes no region away.                                           *)
LEMMA RefusedPlan ==
  ASSUME NEW p, Plan(p), NEW err
  PROVE  Plan(refused(p, err)) /\ refused(p, err).res = err
<1>1. refused(p, err) = [res |-> err, new |-> p.new]
  BY DEF refused, Plan
<1>2. QED
  BY <1>1 DEF Plan

(* mpu_regionSet adds a region only where one is left.                      *)
LEMMA RegionSetPlan ==
  ASSUME MpuInv, NEW p, Plan(p), NEW base, NEW off, NEW bits, NEW attr
  PROVE  Plan(mpu_regionSet(p, base, off, bits, attr))
<1> DEFINE q == mpu_regionSet(p, base, off, bits, attr)
           r == [base |-> base, off |-> off, attr |-> attr, bits |-> ((bits - 1) % AddrBits) + 1]
<1>1. PICK T : p.new \in Seq(T)
  BY DEF Plan
<1>2. Len(p.new) \in Nat /\ regCnt \in Nat /\ RegMax \in Nat
  BY <1>1, MpuAssumption DEF MpuInv
<1>3. CASE p.res # "EOK"
  BY <1>3 DEF mpu_regionSet
<1>4. CASE p.res = "EOK" /\ (bits < MinBits \/ regCnt + Len(p.new) >= RegMax)
  BY <1>4, RefusedPlan DEF mpu_regionSet
<1>5. CASE p.res = "EOK" /\ ~(bits < MinBits \/ regCnt + Len(p.new) >= RegMax)
  <2>1. q = [p EXCEPT !.new = Append(@, r)]
    BY <1>5 DEF mpu_regionSet
  <2> HIDE DEF q, r
  <2>2. q = [res |-> p.res, new |-> Append(p.new, r)]
    BY <2>1 DEF Plan
  <2>3. p.new \in Seq(T \cup {r})
    BY <1>1
  <2>4. Append(p.new, r) \in Seq(T \cup {r}) /\ Len(Append(p.new, r)) = Len(p.new) + 1
    BY <2>3
  <2>5. regCnt + Len(q.new) <= RegMax
    BY <1>2, <1>5, <2>2, <2>4
  <2>6. q = [res |-> q.res, new |-> q.new] /\ q.new \in Seq(T \cup {r})
    BY <2>2, <2>4
  <2>7. Plan(q)
    BY <2>5, <2>6 DEF Plan
  <2>8. QED
    BY <2>7 DEF q
<1>6. QED
  BY <1>3, <1>4, <1>5

(* The plan of a region with subregions, and of one or two regions.         *)
LEMMA CalculatePlan ==
  ASSUME MpuInv, NEW p, Plan(p), NEW start, NEW end, NEW bits, NEW attr
  PROVE  Plan(mpu_regionCalculateAndSet(p, start, end, bits, attr))
BY RegionSetPlan DEF mpu_regionCalculateAndSet

(* The cases without a hole.                                                *)
LEMMA SolidPlan ==
  ASSUME MpuInv, NEW p, Plan(p), NEW start, NEW end, NEW attr
  PROVE  Plan(generateSolid(p, start, end, attr))
<1> DEFINE size == (end - start) % Space
           zeroes == trailingZeroes(start, end)
           sigBits == commonMsb(start, end) - zeroes
           reg1End == down(start, zeroes + 3) + 2^(zeroes + 3)
           power == size # 0 /\ \E k \in 0..AddrBits : size = 2^k /\ start % size = 0
           exponent == CHOOSE k \in 0..AddrBits : size = 2^k
           fine == CASE zeroes < MinBits -> refused(p, "EPERM")
                     [] zeroes >= MinBits /\ sigBits <= 3 ->
                          mpu_regionCalculateAndSet(p, start, end, zeroes + 3, attr)
                     [] zeroes >= MinBits /\ sigBits = 4 ->
                          mpu_regionCalculateAndSet(
                            mpu_regionCalculateAndSet(p, start, reg1End, zeroes + 3, attr),
                            reg1End, end, zeroes + 3, attr)
                     [] OTHER -> refused(p, "cut")
<1>1. generateSolid(p, start, end, attr) =
        CASE end # 0 /\ end <= start -> refused(p, "EINVAL")
          [] size = 0 -> mpu_regionSet(p, 0, {}, AddrBits, attr)
          [] power -> mpu_regionSet(p, start, {}, exponent, attr)
          [] OTHER -> fine
  BY Zenon DEF generateSolid
<1> HIDE DEF size, zeroes, sigBits, reg1End, power, exponent
<1>2. Plan(fine)
  BY RefusedPlan, CalculatePlan
<1> HIDE DEF fine
<1>3. QED
  BY <1>1, <1>2, RefusedPlan, RegionSetPlan

(* A region with a hole: the hole takes regions of the same plan.           *)
LEMMA HoledPlan ==
  ASSUME MpuInv, NEW start, NEW end
  PROVE  Plan(generateHoled(start, end))
<1> DEFINE msb == commonMsb(start, end)
           k == msb - 3
           fromEnd == start % 2^k = 0
           alignedStart == down(start, k)
           alignedEnd == IF fromEnd THEN (down(end, k) + 2^k) % Space ELSE end
           holeStart == IF fromEnd THEN end ELSE alignedStart
           holeEnd == IF fromEnd THEN alignedEnd ELSE start
           outer == mpu_regionCalculateAndSet(EmptyPlan, alignedStart, alignedEnd, msb, "map")
           plan == generateSolid(outer, holeStart, holeEnd, "hole")
           refuse == (~fromEnd /\ end % 2^k # 0) \/ mpu_checkOverlap(holeStart, holeEnd)
<1>1. generateHoled(start, end) =
        IF refuse THEN refused(EmptyPlan, "EPERM")
        ELSE IF plan.res = "cut" THEN refused(plan, "EPERM") ELSE plan
  BY Zenon DEF generateHoled
<1>2. Plan(EmptyPlan)
  BY EmptyIsPlan
<1> HIDE DEF msb, k, fromEnd, alignedStart, alignedEnd, holeStart, holeEnd, refuse
<1>3. Plan(outer)
  BY <1>2, CalculatePlan
<1> HIDE DEF outer
<1>4. Plan(plan)
  BY <1>3, SolidPlan
<1> HIDE DEF plan
<1>5. QED
  BY <1>1, <1>2, <1>4, RefusedPlan

(* What mpu_regionAlloc is given on armv7m and armv7r ...                   *)
LEMMA V7Plan ==
  ASSUME MpuInv, NEW start, NEW end
  PROVE  Plan(mpu_regionGenerate(start, end))
BY EmptyIsPlan, SolidPlan, HoledPlan DEF mpu_regionGenerate

(* ... and on armv8m.                                                       *)
LEMMA V8Plan ==
  ASSUME MpuInv, NEW start, NEW end
  PROVE  Plan(mpu_regionSetV8(start, end))
<1> DEFINE size == (end - start) % Space
           r == [base |-> start, limit |-> down(last(end), MinBits), attr |-> "map"]
           one == [EmptyPlan EXCEPT !.new = <<r>>]
           any == IF size # 0 /\ (size % 2^MinBits # 0 \/ start % 2^MinBits # 0)
                  THEN refused(EmptyPlan, "EPERM") ELSE one
<1>1. mpu_regionSetV8(start, end) =
        CASE regCnt >= RegMax -> refused(EmptyPlan, "EPERM")
          [] regCnt < RegMax /\ end # 0 /\ end <= start -> refused(EmptyPlan, "EINVAL")
          [] OTHER -> any
  BY Zenon DEF mpu_regionSetV8
<1>2. Plan(EmptyPlan)
  BY EmptyIsPlan
<1> HIDE DEF size, r
<1>3. ASSUME ~(regCnt >= RegMax) PROVE Plan(one)
  <2>1. one = [res |-> "EOK", new |-> <<r>>]
    BY DEF EmptyPlan
  <2> HIDE DEF one
  <2>2. <<r>> \in Seq({r}) /\ Len(<<r>>) = 1
    OBVIOUS
  <2>3. regCnt + Len(one.new) <= RegMax
    BY <1>3, <2>1, <2>2, MpuAssumption DEF MpuInv
  <2>4. QED
    BY <2>1, <2>2, <2>3 DEF Plan
<1> HIDE DEF one
<1>4. ASSUME ~(regCnt >= RegMax) PROVE Plan(any)
  BY <1>2, <1>3, <1>4, RefusedPlan
<1> HIDE DEF any
<1>5. QED
  BY <1>1, <1>2, <1>4, RefusedPlan

(* mpu_regionAlloc: the new regions follow the old ones, or nothing changes. *)
LEMMA AllocRestores ==
  ASSUME MpuInv, hal = <<>>, NEW p, Plan(p), NEW id, mpu_regionAlloc(p, id)
  PROVE  MpuInv' /\ (regCnt' = regCnt => region' = region)
<1> DEFINE set == mpu_regionAssignMap(p, id)
           n == Len(p.new)
<1>1. PICK T : p.new \in Seq(T)
  BY DEF Plan
<1>2. n \in Nat /\ regCnt \in Nat /\ RegMax \in Nat /\ regCnt + n <= RegMax /\ Numbers \subseteq Nat
  BY <1>1, MpuAssumption DEF MpuInv, Plan, Numbers
<1>3. /\ set = [i \in Numbers |-> set[i]]
      /\ \A i \in Numbers : i < regCnt \/ i >= regCnt + n => set[i] = region[i]
  BY <1>2 DEF mpu_regionAssignMap
<1>4. CASE p.res = "EOK"
  <2>1. region' = set /\ regCnt' = regCnt + n
    BY <1>4 DEF mpu_regionAlloc
  <2> HIDE DEF set, n
  <2>2. regCnt' \in 0..RegMax
    BY <1>2, <2>1
  <2>3. \A i \in Numbers : i >= regCnt' => region'[i] = Invalid
    BY <1>2, <1>3, <2>1 DEF MpuInv
  <2>4. region' = [i \in Numbers |-> region'[i]]
    BY <1>3, <2>1
  <2>5. regCnt' = regCnt => region' = region
    <3>1. SUFFICES ASSUME regCnt' = regCnt PROVE region' = region
      OBVIOUS
    <3>2. n = 0
      BY <1>2, <2>1, <3>1
    <3>3. \A i \in Numbers : set[i] = region[i]
      BY <1>2, <1>3, <3>2
    <3>4. QED
      BY <1>3, <2>1, <3>3 DEF MpuInv
  <2>6. QED
    BY <2>2, <2>3, <2>4, <2>5 DEF MpuInv
<1>5. CASE p.res # "EOK"
  <2>1. region' = invalidated(set, regCnt, regCnt + n) /\ regCnt' = regCnt
    BY <1>5 DEF mpu_regionAlloc
  <2> HIDE DEF set, n
  <2>2. ASSUME NEW i \in Numbers PROVE region'[i] = region[i]
    <3>1. i \in Nat
      BY <1>2
    <3>2. region'[i] = IF i \in regCnt..(regCnt + n) - 1 THEN Invalid ELSE set[i]
      BY <2>1 DEF invalidated
    <3>3. CASE i \in regCnt..(regCnt + n) - 1
      BY <1>2, <3>1, <3>2, <3>3 DEF MpuInv
    <3>4. CASE i \notin regCnt..(regCnt + n) - 1
      BY <1>2, <1>3, <3>1, <3>2, <3>4
    <3>5. QED
      BY <3>3, <3>4
  <2>3. region' = [i \in Numbers |-> region'[i]]
    BY <2>1 DEF invalidated
  <2>4. region' = region
    BY <2>2, <2>3 DEF MpuInv
  <2>5. QED
    BY <2>1, <2>4 DEF MpuInv
<1>6. QED
  BY <1>4, <1>5

(* Every step keeps the invariant, and RefusedUnchanged.                    *)
LEMMA MpuStep ==
  MpuInv /\ [Next]_mpuVars => MpuInv' /\ [regCnt' = regCnt => region' = region]_mpuVars
<1> SUFFICES ASSUME MpuInv, [Next]_mpuVars
             PROVE  MpuInv' /\ (regCnt' = regCnt => region' = region)
  OBVIOUS
<1>1. CASE UNCHANGED mpuVars
  BY <1>1 DEF mpuVars, MpuInv
<1>2. ASSUME NEW size \in TableSizes, mpu_getHalData(size)
      PROVE  MpuInv' /\ (regCnt' = regCnt => region' = region)
  <2>1. /\ hal = <<>> /\ hal' # <<>>
        /\ region' = invalidated(region, regCnt, RegMax)
        /\ regCnt' = IF arch = "v8" /\ regCnt > size THEN size ELSE regCnt
    BY <1>2 DEF mpu_getHalData
  <2>2. ASSUME NEW i \in Numbers PROVE region'[i] = region[i]
    <3>1. region'[i] = IF i \in regCnt..RegMax - 1 THEN Invalid ELSE region[i]
      BY <2>1 DEF invalidated
    <3>2. i \in regCnt..RegMax - 1 => i >= regCnt
      BY MpuAssumption DEF MpuInv
    <3>3. QED
      BY <2>1, <3>1, <3>2 DEF MpuInv
  <2>3. region' = [i \in Numbers |-> region'[i]]
    BY <2>1 DEF invalidated
  <2>4. region' = region
    BY <2>2, <2>3 DEF MpuInv
  <2>5. regCnt' \in 0..RegMax
    BY <2>1, MpuAssumption DEF MpuInv
  <2>6. QED
    BY <2>1, <2>4, <2>5 DEF MpuInv
<1>3. ASSUME NEW r \in Ranges, syspage_mapAdd(r[1], r[2])
      PROVE  MpuInv' /\ (regCnt' = regCnt => region' = region)
  <2> DEFINE plan == regions(r[1], r[2])
  <2>1. Plan(plan)
    BY V7Plan, V8Plan, EmptyIsPlan DEF regions
  <2>2. hal = <<>> /\ mpu_regionAlloc(plan, Len(maps) + 1)
    BY <1>3 DEF syspage_mapAdd
  <2> HIDE DEF plan
  <2>3. QED
    BY <2>1, <2>2, AllocRestores
<1>4. QED
  BY <1>1, <1>2, <1>3 DEF Next

(* The table is empty after mpu_init.                                       *)
LEMMA MpuInit == mpu_init => MpuInv
BY MpuAssumption DEF mpu_init, MpuInv

(* However many maps are added, their regions fit into the MPU, and the     *)
(* regions that no map has are invalid.                                     *)
THEOREM RegionsFit == Spec => []MpuInv
BY MpuInit, MpuStep, PTL DEF Spec

(* A map that is refused, at whatever step of working out its regions,      *)
(* leaves the regions of all others as they were, and so does handing the   *)
(* table to the kernel.                                                     *)
THEOREM RefusedLeavesNoTrace == Spec => RefusedUnchanged
BY MpuInit, MpuStep, PTL DEF Spec, RefusedUnchanged
=============================================================================
