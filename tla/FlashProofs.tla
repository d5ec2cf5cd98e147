---------------------------- MODULE FlashProofs -----------------------------
(***************************************************************************)
(* Proofs about the NOR flash drivers, for every geometry of the flash and *)
(* every length of a transfer.                                             *)
(*                                                                         *)
(* Each driver has an inductive invariant of its own, which says where the *)
(* bytes written so far are:                                               *)
(*   ImxrtInv  in the array, or in the buffer for the sector not yet       *)
(*             synchronised;                                               *)
(*   SpimInv   the same for the dirty sector, and the buffer also agrees   *)
(*             with what was written while it is clean, since a later      *)
(*             write marks it dirty without reading it again;              *)
(*   ZynqInv   the same, and the pending sector of the array can still be  *)
(*             programmed with the buffer: it was erased when the buffer   *)
(*             was loaded, and an interrupted flashdrv_sync has cleared    *)
(*             only bits that the next one clears.                         *)
(* A write in progress lies inside the flash (JobOK).  That the buffer is  *)
(* dropped exactly when its sector is erased rests on an erased range      *)
(* being made of whole sectors (ErasesSectors).                            *)
(***************************************************************************)
EXTENDS Flash, Integers, TLAPS

(* A product with a positive number keeps the order.                        *)
LEMMA Times ==
  ASSUME NEW x \in Nat, NEW y \in Nat, NEW n \in Nat, x <= y
  PROVE  x * n <= y * n
OBVIOUS

(* Division with remainder.                                                 *)
LEMMA Division ==
  ASSUME NEW a \in Nat, NEW n \in Nat \ {0}
  PROVE  /\ a \div n \in Nat /\ a % n \in 0..n - 1
         /\ a = (a \div n) * n + (a % n)
<1>1. a \div n \in Nat /\ a = n * (a \div n) + (a % n) /\ a % n \in 0..n - 1
  OBVIOUS
<1>2. n * (a \div n) = (a \div n) * n
  BY <1>1
<1>3. QED
  BY <1>1, <1>2

(* A number put together from a quotient and a remainder has them.          *)
LEMMA Quotient ==
  ASSUME NEW q \in Nat, NEW r \in Nat, NEW n \in Nat \ {0}, r < n
  PROVE  (q * n + r) \div n = q /\ (q * n + r) % n = r
OBVIOUS

(* sectorStart and sectorOfs split an address.                              *)
LEMMA Sector ==
  ASSUME NEW a \in Nat
  PROVE  /\ sectorOfs(a) \in 0..SectorSz - 1 /\ sectorStart(a) \in Nat
         /\ a = sectorStart(a) + sectorOfs(a)
         /\ sectorStart(a) = (a \div SectorSz) * SectorSz
<1>1. SectorSz \in Nat \ {0}
  BY NorAssumption
<1> DEFINE q == a \div SectorSz
           r == a % SectorSz
<1>2. q \in Nat /\ r \in 0..SectorSz - 1 /\ a = q * SectorSz + r
  BY <1>1, Division
<1>3. q * SectorSz \in Nat
  BY <1>1, <1>2
<1> HIDE DEF q, r
<1>4. sectorOfs(a) = r /\ sectorStart(a) = a - r
  BY DEF sectorOfs, sectorStart, r
<1> DEFINE m == q * SectorSz
<1>5. m \in Nat /\ a = m + r
  BY <1>2, <1>3
<1> HIDE DEF m
<1>6. sectorStart(a) = m
  BY <1>1, <1>2, <1>4, <1>5
<1>7. QED
  BY <1>2, <1>4, <1>5, <1>6 DEF m, q

(* An address lies in its sector.                                           *)
LEMMA SectorBounds ==
  ASSUME NEW a \in Nat
  PROVE  sectorStart(a) \in Nat /\ sectorStart(a) <= a /\ a < sectorStart(a) + SectorSz
<1>1. SectorSz \in Nat
  BY NorAssumption
<1>2. sectorOfs(a) \in 0..SectorSz - 1 /\ sectorStart(a) \in Nat /\ a = sectorStart(a) + sectorOfs(a)
  BY Sector
<1>3. QED
  BY <1>1, <1>2

(* All the addresses of a sector have the same start.                       *)
LEMMA SameSector ==
  ASSUME NEW a \in Nat, NEW x \in sectorCells(sectorStart(a), SectorSz)
  PROVE  x \in Nat /\ sectorStart(x) = sectorStart(a)
<1>1. SectorSz \in Nat \ {0}
  BY NorAssumption
<1> DEFINE q == a \div SectorSz
           m == q * SectorSz
           r == x - m
<1>2. sectorStart(a) = m /\ sectorStart(a) \in Nat /\ q \in Nat
  BY <1>1, Sector, Division
<1>3. x \in m..m + SectorSz - 1 /\ m \in Nat
  BY <1>2 DEF sectorCells
<1> HIDE DEF m
<1>4. r \in Nat /\ r < SectorSz /\ x = m + r /\ x \in Nat
  BY <1>1, <1>3
<1> HIDE DEF r
<1>5. (q * SectorSz + r) \div SectorSz = q
  BY <1>1, <1>2, <1>4, Quotient
<1>6. x \div SectorSz = q
  BY <1>4, <1>5 DEF m
<1>7. sectorStart(x) = (x \div SectorSz) * SectorSz
  BY <1>4, Sector
<1>8. QED
  BY <1>2, <1>4, <1>6, <1>7 DEF m

(* The sector of an address of the flash lies inside it.                    *)
LEMMA SectorInside ==
  ASSUME NEW a \in Cell
  PROVE  /\ sectorStart(a) \in Cell /\ sectorStart(a) + SectorSz <= TotalSz
         /\ sectorCells(sectorStart(a), SectorSz) \subseteq Cell
         /\ a \in sectorCells(sectorStart(a), SectorSz)
<1>1. SectorSz \in Nat \ {0} /\ TotalSz \in Nat \ {0} /\ TotalSz % SectorSz = 0 /\ a \in Nat /\ a < TotalSz
  BY NorAssumption DEF Cell
<1> DEFINE q == a \div SectorSz
           p == TotalSz \div SectorSz
           m == q * SectorSz
           t == p * SectorSz
           u == (q + 1) * SectorSz
<1>2. q \in Nat /\ p \in Nat /\ sectorStart(a) = m /\ TotalSz = t + 0
  <2>1. q \in Nat /\ sectorStart(a) = m
    BY <1>1, Division, Sector
  <2>2. p \in Nat /\ TotalSz = t + (TotalSz % SectorSz)
    BY <1>1, Division
  <2>3. QED
    BY <1>1, <2>1, <2>2
<1>3. m \in Nat /\ t \in Nat /\ u = m + SectorSz /\ m <= a
  BY <1>1, <1>2, Sector
<1>4. q < p
  <2>1. SUFFICES ASSUME p <= q PROVE FALSE
    BY <1>2
  <2>2. t <= m
    BY <1>1, <1>2, <2>1, Times
  <2> HIDE DEF t, m
  <2>3. QED
    BY <1>1, <1>2, <1>3, <2>2
<1>5. u <= t
  BY <1>1, <1>2, <1>4, Times
<1> HIDE DEF q, p, m, t, u
<1>6. m + SectorSz <= TotalSz
  BY <1>1, <1>2, <1>3, <1>5
<1>7. sectorOfs(a) \in 0..SectorSz - 1 /\ a = m + sectorOfs(a)
  BY <1>1, <1>2, Sector
<1>8. QED
  BY <1>1, <1>2, <1>3, <1>6, <1>7 DEF Cell, sectorCells

(***************************************************************************)
(* The commands of the array.                                              *)
(***************************************************************************)
(* Programming stays inside the sector, clears bits only, and is complete   *)
(* if it succeeds.                                                          *)
LEMMA ProgramOutcome ==
  ASSUME NEW c \in [Cell -> Bit], NEW start \in Nat, NEW sz \in Nat, NEW src,
         \A i \in 0..sz - 1 : src[i] \in Bit,
         sz % PageSz = 0, NEW o \in programOutcomes(c, start, sz, src)
  PROVE  /\ o.cells \in [Cell -> Bit]
         /\ \A a \in Cell : a \notin sectorCells(start, sz) => o.cells[a] = c[a]
         /\ \A a \in Cell : a \in sectorCells(start, sz) => o.cells[a] \in {c[a], c[a] * src[a - start]}
         /\ o.ok => \A a \in Cell : a \in sectorCells(start, sz) => o.cells[a] = c[a] * src[a - start]
<1>1. PageSz \in Nat \ {0} /\ Cell \subseteq Nat
  BY NorAssumption DEF Cell
<1> DEFINE pages == sz \div PageSz
<1>2. pages \in Nat /\ sz = pages * PageSz
  BY <1>1, Division
<1>3. PICK n \in 0..pages :
        o = [cells |-> nor_pageProgram(c, start, src, n * PageSz), ok |-> n = pages]
  BY DEF programOutcomes
<1> DEFINE m == n * PageSz
<1>4. m \in Nat /\ m <= sz /\ (n = pages => m = sz)
  BY <1>1, <1>2, <1>3, Times
<1>5. o.cells = nor_pageProgram(c, start, src, m)
  BY <1>3
<1>6. o.ok => n = pages
  BY <1>3, Zenon
<1> HIDE DEF m, pages
<1>7. ASSUME NEW a \in Cell
      PROVE  /\ o.cells[a] = IF a >= start /\ a < start + m THEN c[a] * src[a - start] ELSE c[a]
             /\ a \in sectorCells(start, sz) <=> a >= start /\ a < start + sz
  <2>1. a \in Nat
    BY <1>1
  <2>2. a \in sectorCells(start, m) <=> a >= start /\ a < start + m
    BY <1>4, <2>1 DEF sectorCells
  <2>3. a \in sectorCells(start, sz) <=> a >= start /\ a < start + sz
    BY <2>1 DEF sectorCells
  <2>4. QED
    BY <1>5, <2>2, <2>3 DEF nor_pageProgram
<1>8. ASSUME NEW a \in Cell, a >= start, a < start + sz
      PROVE  a - start \in 0..sz - 1 /\ src[a - start] \in Bit /\ c[a] * src[a - start] \in Bit
  <2>1. a \in Nat /\ c[a] \in Bit
    BY <1>1
  <2>2. a - start \in 0..sz - 1
    BY <1>8, <2>1
  <2>3. QED
    BY <2>1, <2>2 DEF Bit
<1>9. ASSUME NEW a \in Cell PROVE o.cells[a] \in Bit
  <2>1. a \in Nat
    BY <1>1
  <2>2. QED
    BY <1>4, <1>7, <1>8, <2>1
<1>10. o.cells \in [Cell -> Bit]
  BY <1>5, <1>9 DEF nor_pageProgram
<1>11. ASSUME NEW a \in Cell PROVE a \notin sectorCells(start, sz) => o.cells[a] = c[a]
  BY <1>1, <1>4, <1>7
<1>12. ASSUME NEW a \in Cell PROVE o.cells[a] \in {c[a], c[a] * src[a - start]}
  BY <1>7
<1>13. ASSUME o.ok, NEW a \in Cell, a \in sectorCells(start, sz) PROVE o.cells[a] = c[a] * src[a - start]
  BY <1>4, <1>6, <1>7, <1>13
<1>14. QED
  BY <1>10, <1>11, <1>12, <1>13

(* Erasing a sector and programming it leaves the rest alone, and what was  *)
(* programmed if it succeeds.                                               *)
LEMMA RewriteOutcome ==
  ASSUME NEW c \in [Cell -> Bit], NEW start \in Nat, NEW sz \in Nat, NEW src,
         \A i \in 0..sz - 1 : src[i] \in Bit,
         sz % PageSz = 0, NEW o \in rewriteOutcomes(c, start, sz, src)
  PROVE  /\ o.cells \in [Cell -> Bit]
         /\ \A a \in Cell : a \notin sectorCells(start, sz) => o.cells[a] = c[a]
         /\ o.ok => \A a \in Cell : a \in sectorCells(start, sz) => o.cells[a] = src[a - start]
<1>1. CASE o = [cells |-> c, ok |-> FALSE]
  BY <1>1
<1>2. CASE o \in programOutcomes(nor_eraseSector(c, start, sz), start, sz, src)
  <2> DEFINE e == nor_eraseSector(c, start, sz)
  <2>1. /\ e \in [Cell -> Bit]
        /\ \A a \in Cell : e[a] = IF a \in sectorCells(start, sz) THEN 1 ELSE c[a]
    BY DEF nor_eraseSector, Erased, Bit
  <2> HIDE DEF e
  <2>2. /\ o.cells \in [Cell -> Bit]
        /\ \A a \in Cell : a \notin sectorCells(start, sz) => o.cells[a] = e[a]
        /\ o.ok => \A a \in Cell : a \in sectorCells(start, sz) => o.cells[a] = e[a] * src[a - start]
    BY <1>2, <2>1, ProgramOutcome DEF e
  <2>3. ASSUME NEW a \in Cell, a \in sectorCells(start, sz) PROVE 1 * src[a - start] = src[a - start]
    <3>1. a \in Nat
      BY NorAssumption DEF Cell
    <3>2. a - start \in 0..sz - 1
      BY <2>3, <3>1 DEF sectorCells
    <3>3. QED
      BY <3>2 DEF Bit
  <2>4. QED
    BY <2>1, <2>2, <2>3
<1>3. QED
  BY <1>1, <1>2 DEF rewriteOutcomes

(* Erasing leaves what lies outside the area reached, and erases all of the *)
(* area if it succeeds.                                                     *)
ErasesArea(c, o) ==
  /\ o.cells \in [Cell -> Bit]
  /\ \A a \in Cell : a \notin o.area => o.cells[a] = c[a]
  /\ o.ok => \A a \in Cell : a \in o.area => o.cells[a] = Erased

(* Erasing the sectors of a range, one of which may fail.                   *)
LEMMA EraseOutcome ==
  ASSUME NEW c \in [Cell -> Bit], NEW range \in SUBSET Nat, NEW sizes,
         DOMAIN sizes \subseteq Nat, \A n \in DOMAIN sizes : sizes[n] \in Nat,
         NEW o \in eraseOutcomes(c, range, sizes)
  PROVE  ErasesArea(c, o)
<1> DEFINE below(n) == {a \in range : a < n}
           wiped(n) == [a \in Cell |-> IF a \in below(n) THEN Erased ELSE c[a]]
           failing(n, upTo) == [cells |-> wiped(upTo), ok |-> FALSE, area |-> below(n + sizes[n])]
<1>1. \A n : wiped(n) \in [Cell -> Bit]
  BY DEF Bit, Erased
<1>2. ASSUME NEW n \in DOMAIN sizes, NEW upTo \in {n, n + sizes[n]}, o = failing(n, upTo)
      PROVE  ErasesArea(c, o)
  <2>1. o.cells = wiped(upTo) /\ o.area = below(n + sizes[n]) /\ ~o.ok
    BY <1>2
  <2>2. n \in Nat /\ sizes[n] \in Nat
    OBVIOUS
  <2>3. below(upTo) \subseteq below(n + sizes[n])
    <3>1. upTo \in Nat /\ upTo <= n + sizes[n]
      BY <2>2
    <3>2. \A a \in range : a < upTo => a < n + sizes[n]
      BY <2>2, <3>1
    <3>3. QED
      BY <3>2
  <2>4. QED
    BY <1>1, <2>1, <2>3 DEF ErasesArea
<1>3. CASE o = [cells |-> wiped(TotalSz), ok |-> TRUE, area |-> range]
  <2>1. o.cells = wiped(TotalSz) /\ o.area = range
    BY <1>3
  <2>2. \A a \in Cell : a \in range => a \in below(TotalSz)
    BY NorAssumption DEF Cell
  <2>3. \A a \in below(TotalSz) : a \in range
    OBVIOUS
  <2>4. QED
    BY <1>1, <2>1, <2>2, <2>3 DEF ErasesArea
<1>4. \/ \E n \in DOMAIN sizes : o = failing(n, n) \/ o = failing(n, n + sizes[n])
      \/ o = [cells |-> wiped(TotalSz), ok |-> TRUE, area |-> range]
  BY DEF eraseOutcomes
<1>5. QED
  BY <1>2, <1>3, <1>4

(* Erasing the whole chip.                                                  *)
LEMMA ChipOutcome ==
  ASSUME NEW c \in [Cell -> Bit], NEW o \in chipOutcomes(c)
  PROVE  ErasesArea(c, o) /\ o.area = Cell
BY DEF chipOutcomes, ErasesArea, Erased, Bit

(***************************************************************************)
(* Sectors do not overlap.                                                 *)
(***************************************************************************)
(* A boundary between sectors has none of them on both of its sides.        *)
LEMMA Grid ==
  ASSUME NEW a \in Nat, NEW b \in Nat
  PROVE  /\ a < sectorStart(b) => sectorStart(a) + SectorSz <= sectorStart(b)
         /\ a >= sectorStart(b) => sectorStart(a) >= sectorStart(b)
<1>1. SectorSz \in Nat \ {0}
  BY NorAssumption
<1> DEFINE q == a \div SectorSz
           p == b \div SectorSz
           m == q * SectorSz
           t == p * SectorSz
           u == (q + 1) * SectorSz
<1>2. q \in Nat /\ p \in Nat /\ sectorStart(a) = m /\ sectorStart(b) = t
  BY <1>1, Division, Sector
<1>3. m \in Nat /\ t \in Nat /\ u = m + SectorSz
  BY <1>1, <1>2
<1>4. m <= a /\ a < u
  BY <1>1, <1>2, <1>3, Sector
<1>5. p <= q => t <= m
  BY <1>1, <1>2, Times
<1>6. q + 1 <= p => u <= t
  BY <1>1, <1>2, Times
<1>7. p <= q \/ q + 1 <= p
  BY <1>2
<1> HIDE DEF q, p, m, t, u
<1>8. QED
  BY <1>1, <1>2, <1>3, <1>4, <1>5, <1>6, <1>7

(* No address of the flash is in the sector NoAddr would be in.             *)
LEMMA NoSector ==
  ASSUME NEW a \in 0..TotalSz
  PROVE  /\ NoAddr \in Nat /\ a # NoAddr
         /\ get_sectorIdFromAddress(a) # get_sectorIdFromAddress(NoAddr)
<1>1. SectorSz \in Nat \ {0} /\ TotalSz \in Nat \ {0} /\ TotalSz % SectorSz = 0 /\ a \in Nat /\ a <= TotalSz
  BY NorAssumption
<1>2. NoAddr \in Nat /\ NoAddr = TotalSz + TotalSz
  BY <1>1 DEF NoAddr
<1>3. a # NoAddr
  BY <1>1, <1>2
<1> DEFINE q == a \div SectorSz
           p == TotalSz \div SectorSz
           m == q * SectorSz
           t == p * SectorSz
           v == (p + p) * SectorSz
<1>4. q \in Nat /\ p \in Nat /\ a = m + (a % SectorSz) /\ a % SectorSz \in Nat /\ TotalSz = t + (TotalSz % SectorSz)
  BY <1>1, Division
<1>5. m \in Nat /\ t \in Nat /\ v = t + t
  BY <1>1, <1>4
<1>6. p # 0
  <2>1. 0 * SectorSz = 0
    BY <1>1
  <2>2. QED
    BY <1>1, <1>4, <2>1
<1>7. v + 0 = NoAddr
  <2> HIDE DEF v, t
  <2>1. QED
    BY <1>1, <1>2, <1>4, <1>5
<1>8. NoAddr \div SectorSz = p + p
  <2>1. ((p + p) * SectorSz + 0) \div SectorSz = p + p
    BY <1>1, <1>4, Quotient
  <2>2. QED
    BY <1>7, <2>1
<1>9. q = p + p => m = v
  OBVIOUS
<1>10. m <= TotalSz
  <2> HIDE DEF m, t, v, p, q
  <2>1. QED
    BY <1>1, <1>4, <1>5
<1>11. q # p + p
  <2> HIDE DEF m, t, v, p, q
  <2>1. QED
    BY <1>1, <1>2, <1>5, <1>7, <1>9, <1>10
<1>12. QED
  BY <1>2, <1>3, <1>8, <1>11 DEF get_sectorIdFromAddress

(* Addresses have the same sector number if they have the same start.       *)
LEMMA SectorId ==
  ASSUME NEW a \in Nat, NEW b \in Nat
  PROVE  get_sectorIdFromAddress(a) = get_sectorIdFromAddress(b) => sectorStart(a) = sectorStart(b)
BY Sector DEF get_sectorIdFromAddress

(***************************************************************************)
(* The types, and a turn of the loop of a write.                           *)
(***************************************************************************)
(* A write in progress lies inside the flash and has returned nothing yet.  *)
JobOK ==
  \/ job = Idle
  \/ /\ job \in [op : {"write"}, offs : Nat, data : Seq(Bit)]
     /\ job.offs + Len(job.data) <= TotalSz
     /\ ret = "busy"

Types ==
  /\ cells \in [Cell -> Bit] /\ want \in [Cell -> Bit]
  /\ buf \in [0..SectorSz - 1 -> Bit]
  /\ JobOK

(* devs_write starts with a range inside the flash.                         *)
LEMMA Started == startWrite => JobOK'
<1> SUFFICES ASSUME startWrite PROVE JobOK'
  OBVIOUS
<1>1. PICK offs \in Cell, data \in Data :
        /\ offs + Len(data) <= TotalSz
        /\ job' = [op |-> "write", offs |-> offs, data |-> data]
        /\ ret' = "busy"
  BY DEF startWrite
<1>2. data \in Seq(Bit)
  <2>1. PICK n \in 1..MaxLen : data \in [1..n -> Bit]
    BY DEF Data
  <2>2. MaxLen \in Nat
    BY NorAssumption
  <2>3. QED
    BY <2>1, <2>2
<1>3. offs \in Nat
  BY NorAssumption DEF Cell
<1>4. job' \in [op : {"write"}, offs : Nat, data : Seq(Bit)] /\ job'.offs = offs /\ job'.data = data /\ job'.op = "write"
  BY <1>1, <1>2, <1>3
<1>5. QED
  BY <1>1, <1>4 DEF JobOK

(* The range of what is left of a write is inside the flash.                *)
LEMMA Writing ==
  ASSUME JobOK, job.op = "write"
  PROVE  /\ job.offs \in Nat /\ job.data \in Seq(Bit) /\ Len(job.data) \in Nat
         /\ job.offs + Len(job.data) <= TotalSz /\ ret = "busy" /\ job.offs \in 0..TotalSz
         /\ job.data # <<>> => job.offs \in Cell /\ Len(job.data) # 0
<1>1. job # Idle
  BY DEF Idle
<1>2. job.offs \in Nat /\ job.data \in Seq(Bit) /\ Len(job.data) \in Nat
         /\ job.offs + Len(job.data) <= TotalSz /\ ret = "busy"
  BY <1>1 DEF JobOK
<1>3. TotalSz \in Nat
  BY NorAssumption
<1>4. job.data # <<>> => Len(job.data) # 0
  BY <1>2
<1>5. QED
  BY <1>2, <1>3, <1>4 DEF Cell

(* What stored returns are bytes.                                           *)
LEMMA StoredBits ==
  ASSUME NEW D \in SUBSET Nat, NEW m \in [D -> Bit], NEW at \in Nat, NEW data \in Seq(Bit),
         NEW n \in Nat, n <= Len(data)
  PROVE  stored(m, at, data, n) \in [D -> Bit]
<1>1. ASSUME NEW a \in D, a \in at..at + n - 1 PROVE data[a - at + 1] \in Bit
  <2>1. a \in Nat /\ a - at + 1 \in 1..Len(data)
    BY <1>1
  <2>2. QED
    BY <2>1
<1>2. QED
  BY <1>1 DEF stored

(* n bytes copied to the buffer b of their sector, and to want.             *)
LEMMA CopyChunk ==
  ASSUME Types, job.op = "write", job.data # <<>>,
         NEW n \in Nat, n <= Len(job.data), n <= SectorSz - sectorOfs(job.offs),
         NEW b \in [0..SectorSz - 1 -> Bit]
  PROVE  LET start == sectorStart(job.offs)
             b2 == stored(b, sectorOfs(job.offs), job.data, n)
             w2 == stored(want, job.offs, job.data, n)
         IN /\ b2 \in [0..SectorSz - 1 -> Bit] /\ w2 \in [Cell -> Bit]
            /\ \A a \in Cell : a \notin sectorCells(start, SectorSz) => w2[a] = want[a]
            /\ \A a \in Cell : a \in sectorCells(start, SectorSz) /\ want[a] = b[a - start]
                               => w2[a] = b2[a - start]
<1> DEFINE start == sectorStart(job.offs)
           ofs == sectorOfs(job.offs)
           data == job.data
           b2 == stored(b, ofs, data, n)
           w2 == stored(want, job.offs, data, n)
<1>1. SectorSz \in Nat \ {0} /\ TotalSz \in Nat \ {0}
  BY NorAssumption
<1>2. job.offs \in Nat /\ data \in Seq(Bit) /\ job.offs \in Cell
  BY Writing DEF Types
<1>3. ofs \in Nat /\ ofs < SectorSz /\ start \in Nat /\ job.offs = start + ofs
  <2>1. ofs \in 0..SectorSz - 1 /\ start \in Nat /\ job.offs = start + ofs
    BY <1>2, Sector
  <2>2. QED
    BY <1>1, <2>1
<1>4. want \in [0..TotalSz - 1 -> Bit]
  BY DEF Types, Cell
<1>5. /\ b2 \in [0..SectorSz - 1 -> Bit]
      /\ \A i \in 0..SectorSz - 1 : b2[i] = IF i >= ofs /\ i < ofs + n THEN data[i - ofs + 1] ELSE b[i]
  <2> DEFINE D == 0..SectorSz - 1
  <2>1. D \in SUBSET Nat /\ ofs \in Nat /\ data \in Seq(Bit) /\ n \in Nat /\ n <= Len(data)
        /\ b \in [D -> Bit]
    BY <1>1, <1>2, <1>3
  <2> HIDE DEF ofs, data, D
  <2>2. b2 \in [D -> Bit]
    BY ONLY <2>1, StoredBits
  <2>3. DOMAIN b = D
    BY <2>1
  <2>4. ASSUME NEW i \in D PROVE b2[i] = IF i >= ofs /\ i < ofs + n THEN data[i - ofs + 1] ELSE b[i]
    BY ONLY <2>1, <2>3, i \in D DEF stored
  <2> HIDE DEF b2
  <2>5. QED
    BY <2>2, <2>4 DEF D
<1>6. /\ w2 \in [0..TotalSz - 1 -> Bit]
      /\ \A a \in 0..TotalSz - 1 : w2[a] = IF a >= job.offs /\ a < job.offs + n THEN data[a - job.offs + 1] ELSE want[a]
  <2> DEFINE D == 0..TotalSz - 1
  <2>1. D \in SUBSET Nat /\ job.offs \in Nat /\ data \in Seq(Bit) /\ n \in Nat /\ n <= Len(data)
        /\ want \in [D -> Bit]
    BY <1>1, <1>2, <1>4
  <2> HIDE DEF data, D
  <2>2. w2 \in [D -> Bit]
    BY ONLY <2>1, StoredBits
  <2>3. DOMAIN want = D
    BY <2>1
  <2>4. ASSUME NEW a \in D
        PROVE  w2[a] = IF a >= job.offs /\ a < job.offs + n THEN data[a - job.offs + 1] ELSE want[a]
    BY ONLY <2>1, <2>3, a \in D DEF stored
  <2> HIDE DEF w2
  <2>5. QED
    BY <2>2, <2>4 DEF D
<1> HIDE DEF start, ofs, b2, w2, data
<1>7. n <= SectorSz - ofs
  BY DEF ofs
<1>8. ASSUME NEW a \in Cell, a \notin sectorCells(start, SectorSz) PROVE w2[a] = want[a]
  <2>1. a \in 0..TotalSz - 1 /\ a \in Nat
    BY <1>1 DEF Cell
  <2>2. ~(a >= job.offs /\ a < job.offs + n)
    BY <1>1, <1>2, <1>3, <1>7, <1>8, <2>1 DEF sectorCells
  <2>3. QED
    BY <1>6, <2>1, <2>2
<1>9. ASSUME NEW a \in Cell, a \in sectorCells(start, SectorSz), want[a] = b[a - start]
      PROVE  w2[a] = b2[a - start]
  <2>1. a \in 0..TotalSz - 1 /\ a \in Nat
    BY <1>1 DEF Cell
  <2>2. a - start \in 0..SectorSz - 1
    BY <1>1, <1>3, <1>9, <2>1 DEF sectorCells
  <2>3. CASE a >= job.offs /\ a < job.offs + n
    <3>1. a - start >= ofs /\ a - start < ofs + n /\ a - start - ofs + 1 = a - job.offs + 1
      BY <1>2, <1>3, <2>1, <2>3
    <3>2. QED
      BY <1>5, <1>6, <2>1, <2>2, <2>3, <3>1
  <2>4. CASE ~(a >= job.offs /\ a < job.offs + n)
    <3>1. ~(a - start >= ofs /\ a - start < ofs + n)
      BY <1>2, <1>3, <2>1, <2>4
    <3>2. QED
      BY <1>5, <1>6, <1>9, <2>1, <2>2, <2>4, <3>1
  <2>5. QED
    BY <2>3, <2>4
<1>10. w2 \in [Cell -> Bit]
  BY <1>6 DEF Cell
<1>11. QED
  BY <1>5, <1>8, <1>9, <1>10 DEF b2, w2, start, ofs, data

(* The rest of a write is one.                                              *)
LEMMA Advanced ==
  ASSUME JobOK, job.op = "write", NEW n \in Nat, n <= Len(job.data), advance(n), ret' = ret
  PROVE  JobOK' /\ job' # Idle
<1>1. job \in [op : {"write"}, offs : Nat, data : Seq(Bit)]
  BY DEF JobOK, Idle
<1>2. job.offs \in Nat /\ job.data \in Seq(Bit) /\ Len(job.data) \in Nat
         /\ job.offs + Len(job.data) <= TotalSz /\ ret = "busy"
  BY Writing
<1> DEFINE d == SubSeq(job.data, n + 1, Len(job.data))
<1>3. d \in Seq(Bit) /\ Len(d) = Len(job.data) - n
  BY <1>2
<1>4. job' = [job EXCEPT !.offs = job.offs + n, !.data = d]
  BY DEF advance
<1> HIDE DEF d
<1>5. job' \in [op : {"write"}, offs : Nat, data : Seq(Bit)] /\ job'.offs = job.offs + n /\ job'.data = d /\ job'.op = "write"
  <2>1. job' = [op |-> "write", offs |-> job.offs + n, data |-> d]
    BY <1>1, <1>4
  <2>2. QED
    BY <1>2, <1>3, <2>1
<1>6. job'.offs + Len(job'.data) <= TotalSz
  BY <1>2, <1>3, <1>5, NorAssumption
<1>7. QED
  BY <1>2, <1>5, <1>6 DEF JobOK, Idle

(***************************************************************************)
(* The i.MX RT driver.                                                     *)
(***************************************************************************)
(* Every byte written is in the array, or in the buffer of pending p, the   *)
(* sector at start.                                                         *)
Backed(p, start) == \A a \in Cell : want[a] = IF a \in p THEN buf[a - start] ELSE cells[a]

Synced == ret = "sync" => cells = want

ImxrtCtl == ctl \in [prev : Cell \cup {NoAddr}, sync : Cell \cup {NoAddr}]

ImxrtInv ==
  /\ Types /\ ImxrtCtl
  /\ lapses = {} => Backed(imxrtPending, sectorStart(ctl.prev)) /\ Synced

(* What flashdrv_sync leaves: the array has all that was written, or, after *)
(* an error, all but the sector that is still pending.                      *)
LEMMA ImxrtSynced ==
  ASSUME ImxrtInv, lapses = {}, NEW o \in imxrtSync
  PROVE  /\ o.cells \in [Cell -> Bit]
         /\ o.ok /\ ~imxrtBlankLost => o.cells = want
         /\ \A a \in Cell : a \notin imxrtPending => o.cells[a] = want[a]
<1> DEFINE at == sectorStart(ctl.prev)
<1>1. cells \in [Cell -> Bit] /\ want \in [Cell -> Bit] /\ buf \in [0..SectorSz - 1 -> Bit]
  BY DEF ImxrtInv, Types
<1>2. \A a \in Cell : want[a] = IF a \in imxrtPending THEN buf[a - at] ELSE cells[a]
  BY DEF ImxrtInv, Backed
<1>3. CASE ctl.prev = NoAddr \/ ctl.prev = ctl.sync
  <2>1. o.cells = cells /\ imxrtPending = {}
    BY <1>3 DEF imxrtSync, imxrtPending
  <2>2. QED
    BY <1>1, <1>2, <2>1
<1>4. CASE ~(ctl.prev = NoAddr \/ ctl.prev = ctl.sync)
  <2>1. ctl.prev \in Cell /\ ctl.prev \in Nat
    BY <1>4, NorAssumption DEF ImxrtInv, ImxrtCtl, Cell
  <2>2. imxrtPending = sectorCells(at, SectorSz)
    BY <1>4 DEF imxrtPending
  <2>3. at \in Nat /\ SectorSz \in Nat /\ SectorSz % PageSz = 0
    BY <2>1, Sector, NorAssumption
  <2>4. ASSUME NEW a \in Cell, a \in sectorCells(at, SectorSz) PROVE a - at \in DOMAIN buf
    BY <1>1, <2>3, <2>4, NorAssumption DEF sectorCells, Cell
  <2> HIDE DEF at
  <2>5. CASE imxrtBlank
    <3>1. o.cells = cells
      BY <2>5 DEF imxrtSync
    <3>2. ASSUME ~imxrtBlankLost, NEW a \in Cell PROVE cells[a] = want[a]
      <4>1. CASE a \in sectorCells(at, SectorSz)
        <5>1. cells[a] = Erased
          BY <1>4, <2>5, <3>2, <4>1 DEF imxrtBlankLost, at
        <5>2. buf[a - at] = Erased
          BY <2>4, <2>5, <4>1 DEF imxrtBlank
        <5>3. QED
          BY <1>2, <2>2, <4>1, <5>1, <5>2
      <4>2. QED
        BY <1>2, <2>2, <4>1
    <3>3. QED
      BY <1>1, <1>2, <3>1, <3>2
  <2>6. CASE ~imxrtBlank
    <3>1. o \in rewriteOutcomes(cells, at, SectorSz, buf)
      BY <1>4, <2>6 DEF imxrtSync, at
    <3>2. \A i \in 0..SectorSz - 1 : buf[i] \in Bit
      BY <1>1
    <3>3. /\ o.cells \in [Cell -> Bit]
          /\ \A a \in Cell : a \notin sectorCells(at, SectorSz) => o.cells[a] = cells[a]
          /\ o.ok => \A a \in Cell : a \in sectorCells(at, SectorSz) => o.cells[a] = buf[a - at]
      BY ONLY <1>1, <2>3, <3>1, <3>2, RewriteOutcome
    <3>4. ASSUME o.ok, NEW a \in Cell PROVE o.cells[a] = want[a]
      BY <1>2, <2>2, <3>3, <3>4
    <3>5. o.ok => o.cells = want
      BY <1>1, <3>3, <3>4
    <3>6. QED
      BY <1>2, <2>2, <3>3, <3>5
  <2>7. QED
    BY <2>5, <2>6
<1>5. QED
  BY <1>3, <1>4

(* The end of a call that leaves nothing pending and all of it stored.      *)
LEMMA ImxrtSettled ==
  ImxrtInv /\ JobOK' /\ cells' \in [Cell -> Bit] /\ want' \in [Cell -> Bit]
    /\ buf' \in [0..SectorSz - 1 -> Bit] /\ ImxrtCtl'
    /\ (lapses' = {} => cells' = want') /\ (ctl'.prev = NoAddr \/ ctl'.prev = ctl'.sync)
    => ImxrtInv'
BY DEF ImxrtInv, Types, Backed, Synced, imxrtPending

(* A call that fails with the sector still pending.                         *)
LEMMA ImxrtFailed ==
  ASSUME ImxrtInv, lapses = {}, NEW o \in imxrtSync, ~o.ok, cells' = o.cells,
         ret' = "error", job' = Idle, UNCHANGED <<want, buf, ctl>>
  PROVE  ImxrtInv'
<1>1. /\ o.cells \in [Cell -> Bit]
      /\ \A a \in Cell : a \notin imxrtPending => o.cells[a] = want[a]
  BY ImxrtSynced
<1>2. Types' /\ ImxrtCtl'
  BY <1>1 DEF ImxrtInv, Types, JobOK, ImxrtCtl
<1>3. imxrtPending' = imxrtPending
  BY DEF imxrtPending
<1>4. \A a \in Cell : want[a] = IF a \in imxrtPending THEN buf[a - sectorStart(ctl.prev)] ELSE o.cells[a]
  BY <1>1 DEF ImxrtInv, Backed
<1>5. Backed(imxrtPending, sectorStart(ctl.prev))'
  BY <1>3, <1>4 DEF Backed
<1>6. QED
  BY <1>2, <1>5 DEF ImxrtInv, Synced

(* Bytes copied to a sector that the buffer b holds as it should be.        *)
LEMMA ImxrtCopied ==
  ASSUME ImxrtInv, job.op = "write", job.data # <<>>,
         NEW b \in [0..SectorSz - 1 -> Bit], imxrtCopy(b), ret' = ret,
         cells' \in [Cell -> Bit], ImxrtCtl',
         ctl'.prev \in Cell, sectorStart(ctl'.prev) = sectorStart(job.offs), ctl'.sync # ctl'.prev,
         lapses' = {} =>
           \A a \in Cell : want[a] = IF a \in sectorCells(sectorStart(job.offs), SectorSz)
                                     THEN b[a - sectorStart(job.offs)] ELSE cells'[a]
  PROVE  ImxrtInv'
<1> DEFINE n == norLeast(Len(job.data), SectorSz - sectorOfs(job.offs))
           at == sectorStart(job.offs)
<1>1. job.offs \in Nat /\ Len(job.data) \in Nat /\ job.offs \in Cell /\ ret = "busy"
  BY Writing DEF ImxrtInv, Types
<1>2. sectorOfs(job.offs) \in 0..SectorSz - 1 /\ SectorSz \in Nat
  BY <1>1, Sector, NorAssumption
<1>3. n \in Nat /\ n <= Len(job.data) /\ n <= SectorSz - sectorOfs(job.offs)
  BY <1>1, <1>2 DEF norLeast
<1>4. /\ buf' = stored(b, sectorOfs(job.offs), job.data, n)
      /\ want' = stored(want, job.offs, job.data, n)
      /\ advance(n)
  BY DEF imxrtCopy
<1> HIDE DEF n
<1>5. Types
  BY DEF ImxrtInv
<1>6. /\ buf' \in [0..SectorSz - 1 -> Bit] /\ want' \in [Cell -> Bit]
      /\ \A a \in Cell : a \notin sectorCells(at, SectorSz) => want'[a] = want[a]
      /\ \A a \in Cell : a \in sectorCells(at, SectorSz) /\ want[a] = b[a - at] => want'[a] = buf'[a - at]
  BY <1>3, <1>4, <1>5, CopyChunk
<1>7. JobOK'
  BY <1>3, <1>4, <1>5, Advanced DEF Types
<1>8. Types'
  BY <1>6, <1>7 DEF Types
<1>9. ctl'.prev # NoAddr
  BY <1>1, NoSector, NorAssumption DEF Cell
<1>10. imxrtPending' = sectorCells(at, SectorSz)
  BY <1>9 DEF imxrtPending
<1>11. ASSUME lapses' = {}, NEW a \in Cell
       PROVE  want'[a] = IF a \in sectorCells(at, SectorSz) THEN buf'[a - at] ELSE cells'[a]
  BY <1>6, <1>11
<1>12. lapses' = {} => Backed(imxrtPending, sectorStart(ctl.prev))'
  BY <1>10, <1>11 DEF Backed
<1>13. Synced'
  BY <1>1 DEF Synced
<1>14. QED
  BY <1>8, <1>12, <1>13 DEF ImxrtInv

(* flashdrv_write, another sector: bufferSync stores the buffered one first.*)
LEMMA ImxrtChange == ImxrtInv /\ lapses = {} /\ imxrtWriteChange => ImxrtInv'
<1> SUFFICES ASSUME ImxrtInv, lapses = {}, imxrtWriteChange PROVE ImxrtInv'
  OBVIOUS
<1>1. job.op = "write" /\ job.data # <<>> /\ imxrtOther(job.offs)
  BY DEF imxrtWriteChange
<1>2. /\ job.offs \in Cell /\ job.offs \in Nat /\ buf \in [0..SectorSz - 1 -> Bit] /\ want \in [Cell -> Bit]
      /\ ctl.prev \in Cell \cup {NoAddr} /\ ctl.sync \in Cell \cup {NoAddr}
  BY <1>1, Writing DEF ImxrtInv, Types, ImxrtCtl
<1>3. PICK o \in imxrtSync :
       /\ cells' = o.cells
       /\ lapse("blank", imxrtBlankLost)
       /\ \/ /\ ~o.ok
             /\ fails("write")
             /\ UNCHANGED <<want, buf, ctl>>
          \/ /\ o.ok
             /\ TotalSz < job.offs + SectorSz
             /\ ctl' = [ctl EXCEPT !.sync = ctl.prev]
             /\ fails("write")
             /\ UNCHANGED <<want, buf>>
          \/ /\ o.ok
             /\ TotalSz >= job.offs + SectorSz
             /\ LET loaded == nor_readData(o.cells, sectorStart(job.offs), SectorSz)
                IN \/ /\ ctl' = [prev |-> job.offs, sync |-> ctl.prev]
                      /\ imxrtCopy(loaded)
                      /\ UNCHANGED ret
                   \/ /\ buf' \in {buf, loaded}
                      /\ ctl' = [ctl EXCEPT !.sync = ctl.prev]
                      /\ fails("write")
                      /\ UNCHANGED want
  BY DEF imxrtWriteChange
<1> DEFINE at == sectorStart(job.offs)
           loaded == nor_readData(o.cells, at, SectorSz)
<1>4. /\ o.cells \in [Cell -> Bit]
      /\ o.ok /\ ~imxrtBlankLost => o.cells = want
  BY ImxrtSynced
<1>5. lapses' = {} => ~imxrtBlankLost
  BY <1>3 DEF lapse
<1>6. sectorCells(at, SectorSz) \subseteq Cell /\ at \in Nat /\ SectorSz \in Nat
  BY <1>2, SectorInside, Sector, NorAssumption
<1>7. loaded \in [0..SectorSz - 1 -> Bit] /\ \A i \in 0..SectorSz - 1 : loaded[i] = o.cells[at + i]
  <2>1. \A i \in 0..SectorSz - 1 : at + i \in Cell
    BY <1>6 DEF sectorCells
  <2>2. QED
    BY <1>4, <2>1 DEF nor_readData
<1>8. CASE ~o.ok
  <2>1. cells' = o.cells /\ ret' = "error" /\ job' = Idle /\ UNCHANGED <<want, buf, ctl>>
    BY <1>3, <1>8 DEF fails, returns
  <2>2. QED
    BY <1>8, <2>1, ImxrtFailed
<1>9. ASSUME o.ok, fails("write"), ctl' = [ctl EXCEPT !.sync = ctl.prev], want' = want,
             buf' \in [0..SectorSz - 1 -> Bit]
      PROVE  ImxrtInv'
  <2>1. JobOK'
    BY <1>9 DEF fails, JobOK
  <2>2. ImxrtCtl' /\ ctl'.prev = ctl'.sync
    BY <1>9 DEF ImxrtInv, ImxrtCtl
  <2>3. QED
    BY <1>2, <1>3, <1>4, <1>5, <1>9, <2>1, <2>2, ImxrtSettled
<1>10. ASSUME o.ok, ctl' = [prev |-> job.offs, sync |-> ctl.prev], imxrtCopy(loaded), ret' = ret
       PROVE  ImxrtInv'
  <2>1. ImxrtCtl' /\ ctl'.prev = job.offs /\ ctl'.sync = ctl.prev
    BY <1>2, <1>10 DEF ImxrtCtl
  <2>2. job.offs # ctl.prev
    BY <1>1 DEF imxrtOther
  <2>3. ASSUME lapses' = {}, NEW a \in Cell
        PROVE  want[a] = IF a \in sectorCells(at, SectorSz) THEN loaded[a - at] ELSE cells'[a]
    <3>1. want = o.cells
      BY <1>4, <1>5, <1>10, <2>3
    <3>2. CASE a \in sectorCells(at, SectorSz)
      <4>1. a \in Nat
        BY NorAssumption DEF Cell
      <4>2. a - at \in 0..SectorSz - 1 /\ at + (a - at) = a
        BY <1>6, <3>2, <4>1 DEF sectorCells
      <4>3. loaded[a - at] = o.cells[at + (a - at)]
        BY <1>7, <4>2
      <4>4. QED
        BY <3>1, <3>2, <4>2, <4>3
    <3>3. QED
      BY <1>3, <3>1, <3>2
  <2> HIDE DEF loaded
  <2>4. QED
    BY <1>1, <1>2, <1>3, <1>4, <1>7, <1>10, <2>1, <2>2, <2>3, ImxrtCopied
<1>11. QED
  BY <1>2, <1>3, <1>7, <1>8, <1>9, <1>10

(* flashdrv_write, the buffered sector.                                     *)
LEMMA ImxrtSame == ImxrtInv /\ lapses = {} /\ imxrtWriteSame => ImxrtInv'
<1> SUFFICES ASSUME ImxrtInv, lapses = {}, imxrtWriteSame PROVE ImxrtInv'
  OBVIOUS
<1>1. job.op = "write" /\ job.data # <<>> /\ ~imxrtOther(job.offs) /\ imxrtCopy(buf)
      /\ lapse("rewrite", ctl.prev = ctl.sync) /\ UNCHANGED <<cells, ctl, ret>>
  BY DEF imxrtWriteSame
<1>2. /\ job.offs \in Cell /\ job.offs \in Nat /\ job.offs \in 0..TotalSz
      /\ buf \in [0..SectorSz - 1 -> Bit] /\ cells \in [Cell -> Bit]
      /\ ctl.prev \in Cell \cup {NoAddr} /\ ctl.sync \in Cell \cup {NoAddr} /\ ImxrtCtl
  BY <1>1, Writing DEF ImxrtInv, Types, ImxrtCtl
<1>3. ctl.prev # NoAddr /\ ctl.prev \in Cell /\ ctl.prev \in Nat
  BY <1>1, <1>2, NoSector, NorAssumption DEF imxrtOther, Cell
<1>4. sectorStart(ctl.prev) = sectorStart(job.offs)
  BY <1>1, <1>2, <1>3, SectorId DEF imxrtOther
<1>5. CASE ctl.prev = ctl.sync
  <2>1. lapses' # {}
    BY <1>1, <1>5 DEF lapse
  <2> DEFINE n == norLeast(Len(job.data), SectorSz - sectorOfs(job.offs))
  <2>2. Len(job.data) \in Nat /\ sectorOfs(job.offs) \in 0..SectorSz - 1 /\ SectorSz \in Nat
    BY <1>1, <1>2, Writing, Sector, NorAssumption DEF ImxrtInv, Types
  <2>3. n \in Nat /\ n <= Len(job.data) /\ n <= SectorSz - sectorOfs(job.offs)
    BY <2>2 DEF norLeast
  <2>4. /\ buf' = stored(buf, sectorOfs(job.offs), job.data, n)
        /\ want' = stored(want, job.offs, job.data, n)
        /\ advance(n)
    BY <1>1 DEF imxrtCopy
  <2> HIDE DEF n
  <2>5. Types
    BY DEF ImxrtInv
  <2>6. buf' \in [0..SectorSz - 1 -> Bit] /\ want' \in [Cell -> Bit]
    BY <1>1, <1>2, <2>3, <2>4, <2>5, CopyChunk
  <2>7. JobOK'
    BY <1>1, <2>3, <2>4, <2>5, Advanced DEF Types
  <2>8. QED
    BY <1>1, <1>2, <2>1, <2>6, <2>7 DEF ImxrtInv, Types, ImxrtCtl
<1>6. CASE ctl.prev # ctl.sync
  <2>1. imxrtPending = sectorCells(sectorStart(job.offs), SectorSz)
    BY <1>3, <1>4, <1>6 DEF imxrtPending
  <2>2. \A a \in Cell : want[a] = IF a \in sectorCells(sectorStart(job.offs), SectorSz)
                                  THEN buf[a - sectorStart(job.offs)] ELSE cells'[a]
    BY <1>1, <1>4, <2>1 DEF ImxrtInv, Backed
  <2>3. ctl' = ctl /\ ImxrtCtl' /\ cells' \in [Cell -> Bit]
    BY <1>1, <1>2 DEF ImxrtCtl
  <2>4. QED
    BY <1>1, <1>2, <1>3, <1>4, <1>6, <2>2, <2>3, ImxrtCopied
<1>7. QED
  BY <1>5, <1>6

(* flashdrv_write, the end of the loop.                                     *)
LEMMA ImxrtEnd == ImxrtInv /\ lapses = {} /\ imxrtWriteEnd => ImxrtInv'
<1> SUFFICES ASSUME ImxrtInv, lapses = {}, imxrtWriteEnd PROVE ImxrtInv'
  OBVIOUS
<1>1. UNCHANGED <<want, buf>> /\ job.op = "write"
  BY DEF imxrtWriteEnd
<1>2. CASE succeeds("write") /\ UNCHANGED <<cells, ctl, lapses>>
  BY <1>1, <1>2 DEF succeeds, returns, ImxrtInv, ImxrtCtl, Types, JobOK, Backed, Synced, imxrtPending
<1>3. ASSUME NEW o \in imxrtSync, cells' = o.cells, lapse("blank", imxrtBlankLost),
             ~o.ok, fails("write"), UNCHANGED ctl
      PROVE  ImxrtInv'
  <2>1. ret' = "error" /\ job' = Idle
    BY <1>3 DEF fails, returns
  <2>2. QED
    BY <1>1, <1>3, <2>1, ImxrtFailed
<1>4. ASSUME NEW o \in imxrtSync, cells' = o.cells, lapse("blank", imxrtBlankLost),
             o.ok, succeeds("write"),
             ctl' = IF TotalSz <= job.offs THEN imxrtFields ELSE [ctl EXCEPT !.sync = ctl.prev]
      PROVE  ImxrtInv'
  <2>1. JobOK'
    BY <1>4 DEF succeeds, JobOK
  <2>2. ImxrtCtl' /\ (ctl'.prev = NoAddr \/ ctl'.prev = ctl'.sync)
    BY <1>4 DEF ImxrtInv, ImxrtCtl, imxrtFields
  <2>3. o.cells \in [Cell -> Bit] /\ (lapses' = {} => o.cells = want)
    BY <1>4, ImxrtSynced DEF lapse
  <2>4. want \in [Cell -> Bit] /\ buf \in [0..SectorSz - 1 -> Bit]
    BY DEF ImxrtInv, Types
  <2>5. QED
    BY <1>1, <1>4, <2>1, <2>2, <2>3, <2>4, ImxrtSettled
<1>5. QED
  BY <1>2, <1>3, <1>4 DEF imxrtWriteEnd

(* devs_sync.                                                               *)
LEMMA ImxrtSyncs == ImxrtInv /\ lapses = {} /\ imxrtSyncCall => ImxrtInv'
<1> SUFFICES ASSUME ImxrtInv, lapses = {}, imxrtSyncCall PROVE ImxrtInv'
  OBVIOUS
<1>1. job = Idle /\ lapse("blank", imxrtBlankLost) /\ UNCHANGED <<want, buf, job>>
  BY DEF imxrtSyncCall
<1>2. PICK o \in imxrtSync :
       /\ cells' = o.cells
       /\ ctl' = IF o.ok THEN [ctl EXCEPT !.sync = ctl.prev] ELSE ctl
       /\ returns("sync", o.ok)
  BY DEF imxrtSyncCall
<1>3. CASE ~o.ok
  <2>1. ret' = "error" /\ ctl' = ctl /\ job' = Idle
    BY <1>1, <1>2, <1>3 DEF returns
  <2>2. QED
    BY <1>1, <1>2, <1>3, <2>1, ImxrtFailed
<1>4. CASE o.ok
  <2>1. JobOK'
    BY <1>1 DEF JobOK
  <2>2. ImxrtCtl' /\ ctl'.prev = ctl'.sync
    BY <1>2, <1>4 DEF ImxrtInv, ImxrtCtl
  <2>3. o.cells \in [Cell -> Bit] /\ (lapses' = {} => o.cells = want)
    BY <1>1, <1>4, ImxrtSynced DEF lapse
  <2>4. want \in [Cell -> Bit] /\ buf \in [0..SectorSz - 1 -> Bit]
    BY DEF ImxrtInv, Types
  <2>5. QED
    BY <1>1, <1>2, <2>1, <2>2, <2>3, <2>4, ImxrtSettled
<1>5. QED
  BY <1>3, <1>4

(* The sectors of a range that starts and ends with one, and what of them   *)
(* an erasing may reach: whole sectors.                                     *)
LEMMA ErasesSectors ==
  ASSUME NEW c \in [Cell -> Bit], NEW lo \in Nat, NEW hi \in Nat,
         NEW o \in eraseOutcomes(c, sectorStart(lo)..sectorStart(hi) - 1,
                                 uniform(sectorStart(lo)..sectorStart(hi) - 1))
  PROVE  /\ ErasesArea(c, o)
         /\ \A a \in Cell : a \in o.area <=> sectorStart(a) \in o.area
<1> DEFINE range == sectorStart(lo)..sectorStart(hi) - 1
           below(n) == {a \in range : a < n}
           sizes == uniform(range)
<1>1. SectorSz \in Nat \ {0} /\ Cell \subseteq Nat
  BY NorAssumption DEF Cell
<1>2. sectorStart(lo) \in Nat /\ sectorStart(hi) \in Nat
  BY Sector
<1>3. range \in SUBSET Nat
  BY <1>2
<1>4. DOMAIN sizes \subseteq range /\ \A n \in DOMAIN sizes : sizes[n] = SectorSz /\ sectorOfs(n) = 0
  BY DEF uniform
<1>5. ErasesArea(c, o)
  <2>1. DOMAIN sizes \subseteq Nat /\ \A n \in DOMAIN sizes : sizes[n] \in Nat
    BY <1>1, <1>3, <1>4
  <2> HIDE DEF range, sizes
  <2>2. QED
    BY <1>3, <2>1, EraseOutcome DEF range, sizes
<1>6. ASSUME NEW a \in Cell PROVE a \in range <=> sectorStart(a) \in range
  <2>1. a \in Nat /\ sectorStart(a) \in Nat /\ sectorStart(a) <= a /\ a < sectorStart(a) + SectorSz
    BY <1>1, SectorBounds
  <2>2. /\ a < sectorStart(hi) => sectorStart(a) + SectorSz <= sectorStart(hi)
        /\ a >= sectorStart(hi) => sectorStart(a) >= sectorStart(hi)
        /\ a >= sectorStart(lo) => sectorStart(a) >= sectorStart(lo)
    BY <2>1, Grid
  <2>3. a \in range <=> sectorStart(lo) <= a /\ a < sectorStart(hi)
    BY <1>2, <2>1
  <2>4. sectorStart(a) \in range <=> sectorStart(lo) <= sectorStart(a) /\ sectorStart(a) < sectorStart(hi)
    BY <1>2, <2>1
  <2> HIDE DEF range
  <2>5. QED
    BY ONLY <1>1, <1>2, <2>1, <2>2, <2>3, <2>4
<1>7. ASSUME NEW n \in DOMAIN sizes, NEW a \in Cell
      PROVE  a \in below(n + sizes[n]) <=> sectorStart(a) \in below(n + sizes[n])
  <2>1. a \in Nat /\ sectorStart(a) \in Nat /\ sectorStart(a) <= a /\ a < sectorStart(a) + SectorSz
    BY <1>1, SectorBounds
  <2>2. n \in Nat /\ sizes[n] = SectorSz /\ sectorStart(n) = n
    <3> HIDE DEF range, sizes
    <3>1. n \in Nat /\ sizes[n] = SectorSz /\ sectorOfs(n) = 0
      BY <1>3, <1>4
    <3>2. sectorStart(n) \in Nat /\ n = sectorStart(n) + sectorOfs(n)
      BY ONLY <3>1, Sector
    <3>3. QED
      BY ONLY <3>1, <3>2
  <2>3. a >= n => sectorStart(a) >= n
    BY <2>1, <2>2, Grid
  <2>4. a < n => sectorStart(a) < n
    BY <2>1, <2>2
  <2>5. sectorStart(a) < n + SectorSz => a < n + SectorSz
    <3>1. SUFFICES ASSUME sectorStart(a) < n + SectorSz, a >= n + SectorSz PROVE FALSE
      BY <1>1, <2>1, <2>2
    <3>2. n + SectorSz \in Nat
      BY <1>1, <2>2
    <3>3. sectorStart(n + SectorSz) = n + SectorSz
      <4> DEFINE q == n \div SectorSz
                 m == q * SectorSz
                 u == (q + 1) * SectorSz
      <4>1. q \in Nat /\ n = m
        BY <1>1, <2>2, Sector, Division
      <4>2. u = n + SectorSz
        BY <1>1, <4>1
      <4>3. (u + 0) % SectorSz = 0
        <5>1. q + 1 \in Nat /\ 0 < SectorSz
          BY <1>1, <4>1
        <5>2. QED
          BY <1>1, <5>1, Quotient
      <4> HIDE DEF u
      <4>4. (n + SectorSz) % SectorSz = 0
        BY <1>1, <2>2, <4>2, <4>3
      <4>5. QED
        BY <3>2, <4>4 DEF sectorStart, sectorOfs
    <3>4. sectorStart(a) >= n + SectorSz
      BY <2>1, <3>1, <3>2, <3>3, Grid
    <3>5. QED
      BY <1>1, <2>1, <2>2, <3>1, <3>4
  <2>6. sectorStart(a) < n + SectorSz <=> a < n + SectorSz
    BY <1>1, <2>1, <2>2, <2>5
  <2>7. QED
    BY <1>6, <2>2, <2>6
<1>8. o.area = range \/ \E n \in DOMAIN sizes : o.area = below(n + sizes[n])
  BY DEF eraseOutcomes
<1>9. QED
  BY <1>5, <1>6, <1>7, <1>8

(* A range devs_read and devs_erase are called with.                        *)
LEMMA RangeInside ==
  ASSUME NEW r \in Ranges
  PROVE  /\ r[1] \in Cell /\ r[1] \in Nat /\ r[2] \in Nat \ {0} /\ r[1] + r[2] <= TotalSz
         /\ r[1] + r[2] + SectorSz - 1 \in Nat
         /\ sectorStart(r[1]) + r[2] + SectorSz - 1 \in Nat
<1>1. r \in Cell \X (1..MaxLen) /\ r[1] + r[2] <= TotalSz
  BY DEF Ranges
<1>2. r[1] \in Cell /\ r[1] \in Nat /\ r[2] \in Nat \ {0} /\ SectorSz \in Nat \ {0}
  BY <1>1, NorAssumption DEF Cell
<1>3. sectorStart(r[1]) \in Nat
  BY <1>2, Sector
<1>4. QED
  BY <1>1, <1>2, <1>3

(* After an erasing the caller knows what the array holds, if it knew it of *)
(* the bytes outside the area.                                              *)
LEMMA KnownAfterErase ==
  ASSUME want \in [Cell -> Bit], cells \in [Cell -> Bit], NEW o, ErasesArea(cells, o)
  PROVE  /\ afterErase(o) \in [Cell -> Bit]
         /\ \A a \in Cell : a \in o.area => afterErase(o)[a] = o.cells[a]
         /\ \A a \in Cell : a \notin o.area => afterErase(o)[a] = want[a]
BY DEF ErasesArea, afterErase, Erased, Bit

(* flashdrv_erase drops the buffer: a lapse, unless its sector is erased.   *)
LEMMA ImxrtErases ==
  ASSUME NEW r \in Ranges, NEW whole \in BOOLEAN
  PROVE  ImxrtInv /\ lapses = {} /\ imxrtErase(r[1], r[2], whole) => ImxrtInv'
<1> SUFFICES ASSUME ImxrtInv, lapses = {}, imxrtErase(r[1], r[2], whole) PROVE ImxrtInv'
  OBVIOUS
<1> DEFINE lo == r[1]
           hi == r[1] + r[2] + SectorSz - 1
           range == sectorStart(lo)..sectorStart(hi) - 1
<1>1. cells \in [Cell -> Bit] /\ want \in [Cell -> Bit] /\ buf \in [0..SectorSz - 1 -> Bit]
  BY DEF ImxrtInv, Types
<1>2. PICK o \in IF whole THEN chipOutcomes(cells) ELSE eraseOutcomes(cells, range, uniform(range)) :
       /\ cells' = o.cells
       /\ want' = afterErase(o)
       /\ returns("erase", o.ok)
       /\ lapse("unsynced", ~(imxrtPending \subseteq o.area))
  BY DEF imxrtErase
<1>3. job' = Idle /\ ctl' = imxrtFields /\ buf' = buf
  BY DEF imxrtErase
<1>4. ErasesArea(cells, o)
  <2>1. lo \in Nat /\ hi \in Nat
    BY RangeInside
  <2> HIDE DEF lo, hi
  <2>2. CASE whole
    BY <1>1, <1>2, <2>2, ChipOutcome
  <2>3. CASE ~whole
    <3>1. o \in eraseOutcomes(cells, sectorStart(lo)..sectorStart(hi) - 1,
                              uniform(sectorStart(lo)..sectorStart(hi) - 1))
      BY <1>2, <2>3
    <3>2. QED
      BY <1>1, <2>1, <3>1, ErasesSectors
  <2>4. QED
    BY <2>2, <2>3
<1>5. /\ want' \in [Cell -> Bit] /\ cells' \in [Cell -> Bit]
      /\ \A a \in Cell : a \in o.area => want'[a] = cells'[a]
      /\ \A a \in Cell : a \notin o.area => want'[a] = want[a] /\ cells'[a] = cells[a]
  BY <1>1, <1>2, <1>4, KnownAfterErase DEF ErasesArea
<1>6. ASSUME lapses' = {} PROVE cells' = want'
  <2>1. imxrtPending \subseteq o.area
    BY <1>2, <1>6 DEF lapse
  <2>2. \A a \in Cell : a \notin o.area => want[a] = cells[a]
    BY <2>1 DEF ImxrtInv, Backed
  <2>3. \A a \in Cell : want'[a] = cells'[a]
    BY <1>5, <2>2
  <2>4. QED
    BY <1>5, <2>3
<1>7. ImxrtCtl' /\ ctl'.prev = NoAddr
  BY <1>3 DEF ImxrtCtl, imxrtFields
<1>8. JobOK'
  BY <1>3 DEF JobOK
<1>9. QED
  BY <1>1, <1>3, <1>5, <1>6, <1>7, <1>8, ImxrtSettled

(* The bytes lost with power are no longer expected.                        *)
LEMMA Forgotten ==
  ASSUME cells \in [Cell -> Bit], want \in [Cell -> Bit], NEW area
  PROVE  /\ forgotten(area, cells) \in [Cell -> Bit]
         /\ \A a \in Cell : forgotten(area, cells)[a] = IF a \in area THEN cells[a] ELSE want[a]
BY DEF forgotten

(* The buffer after a reset.                                                *)
LEMMA Blanked ==
  ASSUME buf \in [0..SectorSz - 1 -> Bit]
  PROVE  [i \in DOMAIN buf |-> Erased] \in [0..SectorSz - 1 -> Bit]
<1>1. DOMAIN buf = 0..SectorSz - 1
  OBVIOUS
<1>2. Erased \in Bit
  BY DEF Erased, Bit
<1>3. QED
  BY <1>1, <1>2

(* Power loss.                                                              *)
LEMMA ImxrtLoses == ImxrtInv /\ lapses = {} /\ imxrtPowerLoss => ImxrtInv'
<1> SUFFICES ASSUME ImxrtInv, lapses = {}, imxrtPowerLoss PROVE ImxrtInv'
  OBVIOUS
<1>1. cells \in [Cell -> Bit] /\ want \in [Cell -> Bit] /\ buf \in [0..SectorSz - 1 -> Bit]
  BY DEF ImxrtInv, Types
<1>2. /\ job' = Idle /\ ret' = "init" /\ ctl' = imxrtFields /\ cells' = cells
      /\ buf' = [i \in DOMAIN buf |-> Erased] /\ want' = forgotten(imxrtPending, cells)
  BY DEF imxrtPowerLoss, powerLoss
<1>3. buf' \in [0..SectorSz - 1 -> Bit]
  BY <1>1, <1>2, Blanked
<1>4. /\ want' \in [Cell -> Bit]
      /\ \A a \in Cell : want'[a] = IF a \in imxrtPending THEN cells[a] ELSE want[a]
  BY <1>1, <1>2, Forgotten
<1>5. \A a \in Cell : want'[a] = cells[a]
  BY <1>4 DEF ImxrtInv, Backed
<1>6. cells' = want'
  BY <1>1, <1>2, <1>4, <1>5
<1>7. ImxrtCtl' /\ ctl'.prev = NoAddr
  BY <1>2 DEF ImxrtCtl, imxrtFields
<1>8. QED
  <2>1. JobOK'
    BY ONLY <1>2 DEF JobOK
  <2>2. cells' \in [Cell -> Bit]
    BY ONLY <1>1, <1>2
  <2>3. QED
    BY <1>3, <1>4, <1>6, <1>7, <2>1, <2>2, ImxrtSettled

(* Every step of the i.MX RT driver keeps its invariant.                    *)
LEMMA ImxrtStep == ImxrtInv /\ lapses = {} /\ imxrtNext => ImxrtInv'
<1> SUFFICES ASSUME ImxrtInv, lapses = {}, imxrtNext PROVE ImxrtInv'
  OBVIOUS
<1>1. CASE startWrite
  <2>1. Types' /\ ret' = "busy" /\ UNCHANGED <<cells, want, buf, ctl, lapses>>
    BY <1>1, Started DEF ImxrtInv, Types, startWrite
  <2>2. QED
    BY <2>1 DEF ImxrtInv, ImxrtCtl, Backed, Synced, imxrtPending
<1>2. CASE refuse
  BY <1>2 DEF refuse, ImxrtInv, Types, JobOK, ImxrtCtl, Backed, Synced, imxrtPending
<1>3. QED
  BY <1>1, <1>2, ImxrtChange, ImxrtSame, ImxrtEnd, ImxrtSyncs, ImxrtErases, ImxrtLoses DEF imxrtNext

(***************************************************************************)
(* The SPIMCTRL driver and the FTMCTRL driver.                             *)
(***************************************************************************)
SpimCtl == ctl \in [addr : {a \in Cell : sectorStart(a) = a} \cup {NoAddr}, dirty : BOOLEAN]

(* The array has every byte written outside the pending sector.             *)
StoredElsewhere == \A a \in Cell : a \notin spimPending => cells[a] = want[a]

(* The buffer has every byte written to its sector, pending or not.         *)
Held ==
  ctl.addr # NoAddr =>
    \A a \in Cell : a \in sectorCells(ctl.addr, SectorSz) => buf[a - ctl.addr] = want[a]

SpimInv == Types /\ SpimCtl /\ StoredElsewhere /\ Held /\ Synced

(* The sector that the buffer holds.                                        *)
LEMMA SpimSector ==
  ASSUME SpimInv, ctl.addr # NoAddr
  PROVE  /\ ctl.addr \in Cell /\ ctl.addr \in Nat /\ sectorStart(ctl.addr) = ctl.addr
         /\ sectorCells(ctl.addr, SectorSz) \subseteq Cell
<1>1. ctl.addr \in Cell /\ sectorStart(ctl.addr) = ctl.addr
  BY DEF SpimInv, SpimCtl
<1>2. ctl.addr \in Nat
  BY <1>1, NorAssumption DEF Cell
<1>3. QED
  BY <1>1, <1>2, SectorInside

(* What flashdrv_sync leaves.                                               *)
LEMMA SpimSynced ==
  ASSUME SpimInv, NEW o \in spimSync
  PROVE  /\ o.cells \in [Cell -> Bit]
         /\ o.ok => o.cells = want
         /\ \A a \in Cell : a \notin spimPending => o.cells[a] = want[a]
<1>1. cells \in [Cell -> Bit] /\ want \in [Cell -> Bit] /\ buf \in [0..SectorSz - 1 -> Bit]
  BY DEF SpimInv, Types
<1>2. \A a \in Cell : a \notin spimPending => cells[a] = want[a]
  BY DEF SpimInv, StoredElsewhere
<1>3. CASE ctl.addr = NoAddr \/ ~ctl.dirty
  <2>1. o.cells = cells /\ spimPending = {}
    BY <1>3 DEF spimSync, spimPending
  <2>2. QED
    BY <1>1, <1>2, <2>1
<1>4. CASE ~(ctl.addr = NoAddr \/ ~ctl.dirty)
  <2> DEFINE at == ctl.addr
  <2>1. spimPending = sectorCells(at, SectorSz)
    BY <1>4 DEF spimPending
  <2>2. at \in Nat /\ SectorSz \in Nat /\ SectorSz % PageSz = 0
    BY <1>4, SpimSector, NorAssumption
  <2>3. o \in rewriteOutcomes(cells, at, SectorSz, buf)
    BY <1>4 DEF spimSync
  <2>4. \A i \in 0..SectorSz - 1 : buf[i] \in Bit
    BY <1>1
  <2>5. \A a \in Cell : a \in sectorCells(at, SectorSz) => buf[a - at] = want[a]
    BY <1>4 DEF SpimInv, Held
  <2> HIDE DEF at
  <2>6. /\ o.cells \in [Cell -> Bit]
        /\ \A a \in Cell : a \notin sectorCells(at, SectorSz) => o.cells[a] = cells[a]
        /\ o.ok => \A a \in Cell : a \in sectorCells(at, SectorSz) => o.cells[a] = buf[a - at]
    BY ONLY <1>1, <2>2, <2>3, <2>4, RewriteOutcome
  <2>7. ASSUME o.ok, NEW a \in Cell PROVE o.cells[a] = want[a]
    BY <1>2, <2>1, <2>5, <2>6, <2>7
  <2>8. o.ok => o.cells = want
    BY <1>1, <2>6, <2>7
  <2>9. QED
    BY <1>2, <2>1, <2>6, <2>8
<1>5. QED
  BY <1>3, <1>4

(* A call that fails or ends with the driver as it was.                     *)
LEMMA SpimKept ==
  ASSUME SpimInv, JobOK', cells' \in [Cell -> Bit], UNCHANGED <<want, buf, ctl>>,
         \A a \in Cell : a \notin spimPending => cells'[a] = want[a],
         ret' = "sync" => cells' = want
  PROVE  SpimInv'
<1>1. Types' /\ SpimCtl'
  BY DEF SpimInv, Types, SpimCtl
<1>2. StoredElsewhere'
  BY DEF StoredElsewhere, spimPending
<1>3. Held'
  BY DEF SpimInv, Held
<1>4. QED
  BY <1>1, <1>2, <1>3 DEF SpimInv, Synced

(* A call that ends with the array up to date and no sector in the buffer.  *)
LEMMA SpimDropped ==
  ASSUME JobOK', cells' \in [Cell -> Bit], cells' = want', buf' \in [0..SectorSz - 1 -> Bit],
         SpimCtl', ctl'.addr = NoAddr
  PROVE  SpimInv'
BY DEF SpimInv, Types, StoredElsewhere, Held, Synced

(* Bytes copied to a sector that the buffer b holds as it should be.        *)
LEMMA SpimCopied ==
  ASSUME SpimInv, job.op = "write", job.data # <<>>,
         NEW b \in [0..SectorSz - 1 -> Bit], intoBuffer(b), ret' = ret, cells' \in [Cell -> Bit],
         \A a \in Cell : want[a] = IF a \in sectorCells(sectorStart(job.offs), SectorSz)
                                   THEN b[a - sectorStart(job.offs)] ELSE cells'[a]
  PROVE  SpimInv'
<1> DEFINE n == chunk
           at == sectorStart(job.offs)
<1>1. job.offs \in Nat /\ Len(job.data) \in Nat /\ job.offs \in Cell /\ ret = "busy"
  BY Writing DEF SpimInv, Types
<1>2. sectorOfs(job.offs) \in 0..SectorSz - 1 /\ SectorSz \in Nat \ {0}
  BY <1>1, Sector, NorAssumption
<1>3. n \in Nat /\ n <= Len(job.data) /\ n <= SectorSz - sectorOfs(job.offs)
  BY <1>1, <1>2 DEF norLeast, chunk
<1>4. /\ buf' = stored(b, sectorOfs(job.offs), job.data, n)
      /\ want' = stored(want, job.offs, job.data, n)
      /\ ctl' = [addr |-> at, dirty |-> TRUE]
      /\ advance(n)
  BY DEF intoBuffer
<1> HIDE DEF n
<1>5. Types
  BY DEF SpimInv
<1>6. /\ buf' \in [0..SectorSz - 1 -> Bit] /\ want' \in [Cell -> Bit]
      /\ \A a \in Cell : a \notin sectorCells(at, SectorSz) => want'[a] = want[a]
      /\ \A a \in Cell : a \in sectorCells(at, SectorSz) /\ want[a] = b[a - at] => want'[a] = buf'[a - at]
  BY <1>3, <1>4, <1>5, CopyChunk
<1>7. JobOK'
  BY <1>3, <1>4, <1>5, Advanced DEF Types
<1>8. at \in Cell /\ at \in Nat /\ at \in sectorCells(at, SectorSz)
  BY <1>1, <1>2, SectorInside, Sector DEF sectorCells
<1>9. sectorStart(at) = at
  BY <1>1, <1>8, SameSector
<1>10. at # NoAddr
  BY <1>8, NoSector, NorAssumption DEF Cell
<1>11. SpimCtl' /\ ctl'.addr = at /\ ctl'.dirty
  BY <1>4, <1>8, <1>9 DEF SpimCtl
<1>12. spimPending' = sectorCells(at, SectorSz)
  BY <1>10, <1>11 DEF spimPending
<1>13. StoredElsewhere'
  BY <1>6, <1>12 DEF StoredElsewhere
<1>14. Held'
  BY <1>6, <1>11 DEF Held
<1>15. QED
  BY <1>1, <1>6, <1>7, <1>11, <1>13, <1>14 DEF SpimInv, Types, Synced

(* flashdrv_write, the buffered sector.                                     *)
LEMMA SpimBuffered == SpimInv /\ spimWriteBuffered => SpimInv'
<1> SUFFICES ASSUME SpimInv, spimWriteBuffered PROVE SpimInv'
  OBVIOUS
<1>1. /\ job.op = "write" /\ job.data # <<>> /\ ctl.addr = sectorStart(job.offs)
      /\ intoBuffer(buf) /\ UNCHANGED <<cells, ret, lapses>>
  BY DEF spimWriteBuffered
<1>2. job.offs \in Cell /\ buf \in [0..SectorSz - 1 -> Bit] /\ cells' \in [Cell -> Bit]
  BY <1>1, Writing DEF SpimInv, Types
<1>3. ctl.addr \in Cell
  BY <1>1, <1>2, SectorInside
<1>4. ctl.addr # NoAddr
  BY <1>3, NoSector, NorAssumption DEF Cell
<1>5. \A a \in Cell : want[a] = IF a \in sectorCells(ctl.addr, SectorSz) THEN buf[a - ctl.addr] ELSE cells'[a]
  BY <1>1, <1>4 DEF SpimInv, Held, StoredElsewhere, spimPending
<1>6. QED
  BY <1>1, <1>2, <1>5, SpimCopied

(* A whole sector written past the buffer is not the one in the buffer.     *)
LEMMA SpimDirect == SpimInv /\ directWrite => SpimInv'
<1> SUFFICES ASSUME SpimInv, directWrite PROVE SpimInv'
  OBVIOUS
<1> DEFINE at == job.offs
           src == [i \in DOMAIN buf |-> job.data[i + 1]]
           sector == sectorCells(at, SectorSz)
<1>1. /\ job.op = "write" /\ job.data # <<>> /\ ctl.addr # sectorStart(at) /\ wholeSector
      /\ UNCHANGED <<buf, ctl, lapses>>
  BY DEF directWrite
<1>2. PICK o \in rewriteOutcomes(cells, at, SectorSz, src) :
        /\ cells' = o.cells
        /\ \/ /\ o.ok
              /\ want' = stored(want, at, job.data, chunk)
              /\ advance(chunk)
              /\ UNCHANGED ret
           \/ /\ ~o.ok
              /\ want' = forgotten(sector, o.cells)
              /\ fails("write")
  BY DEF directWrite
<1>3. /\ at \in Nat /\ at \in Cell /\ job.data \in Seq(Bit) /\ Len(job.data) \in Nat /\ ret = "busy"
      /\ cells \in [Cell -> Bit] /\ want \in [Cell -> Bit] /\ buf \in [0..SectorSz - 1 -> Bit]
  BY <1>1, Writing DEF SpimInv, Types
<1>4. SectorSz \in Nat \ {0} /\ TotalSz \in Nat \ {0} /\ SectorSz % PageSz = 0
  BY NorAssumption
<1>5. chunk = SectorSz /\ SectorSz <= Len(job.data) /\ sectorOfs(at) = 0 /\ sectorStart(at) = at
  <2>1. chunk = SectorSz /\ sectorOfs(at) = 0
    BY <1>1 DEF wholeSector
  <2>2. SectorSz <= Len(job.data)
    BY <1>3, <1>4, <2>1 DEF chunk, norLeast
  <2>3. QED
    BY <1>3, <2>1, <2>2, Sector
<1>6. \A i \in 0..SectorSz - 1 : src[i] = job.data[i + 1] /\ src[i] \in Bit
  BY <1>3, <1>4, <1>5
<1> HIDE DEF src
<1>7. /\ o.cells \in [Cell -> Bit]
      /\ \A a \in Cell : a \notin sector => o.cells[a] = cells[a]
      /\ o.ok => \A a \in Cell : a \in sector => o.cells[a] = src[a - at]
  <2>1. o \in rewriteOutcomes(cells, at, SectorSz, src) /\ SectorSz \in Nat
    BY <1>2, <1>4 DEF src
  <2>2. \A i \in 0..SectorSz - 1 : src[i] \in Bit
    BY <1>6
  <2>3. cells \in [Cell -> Bit] /\ at \in Nat /\ SectorSz % PageSz = 0
    BY <1>3, <1>4
  <2> HIDE DEF at
  <2>4. ASSUME NEW s, s = src
        PROVE  /\ o.cells \in [Cell -> Bit]
               /\ \A a \in Cell : a \notin sectorCells(at, SectorSz) => o.cells[a] = cells[a]
               /\ o.ok => \A a \in Cell : a \in sectorCells(at, SectorSz) => o.cells[a] = s[a - at]
    <3>1. o \in rewriteOutcomes(cells, at, SectorSz, s) /\ \A i \in 0..SectorSz - 1 : s[i] \in Bit
      BY <2>1, <2>2, <2>4
    <3>2. SectorSz \in Nat
      BY <2>1
    <3>3. QED
      BY ONLY <2>3, <3>1, <3>2, RewriteOutcome
  <2>5. QED
    BY <2>4 DEF sector
<1>8. /\ want' \in [Cell -> Bit] /\ JobOK' /\ ret' # "sync"
      /\ \A a \in Cell : want'[a] = IF a \in sector THEN o.cells[a] ELSE want[a]
  <2>1. CASE o.ok
    <3>1. want' = stored(want, at, job.data, SectorSz) /\ advance(SectorSz) /\ ret' = ret
      BY <1>2, <1>5, <2>1
    <3>2. want \in [0..TotalSz - 1 -> Bit]
      BY <1>3 DEF Cell
    <3>3. /\ want' \in [0..TotalSz - 1 -> Bit]
          /\ \A a \in 0..TotalSz - 1 : want'[a] =
                IF a >= at /\ a < at + SectorSz THEN job.data[a - at + 1] ELSE want[a]
      <4> HIDE DEF at
      <4> DEFINE data == job.data
                 D == 0..TotalSz - 1
      <4>1. /\ D \in SUBSET Nat /\ SectorSz \in Nat /\ data \in Seq(Bit) /\ SectorSz <= Len(data)
            /\ at \in Nat /\ want \in [D -> Bit]
        BY <1>3, <1>4, <1>5, <3>2
      <4>2. want' = stored(want, at, data, SectorSz)
        BY <3>1
      <4> HIDE DEF data, D
      <4>3. want' \in [D -> Bit]
        BY ONLY <4>1, <4>2, StoredBits
      <4>4. DOMAIN want = D
        BY <4>1
      <4>5. ASSUME NEW a \in D
            PROVE  want'[a] = IF a >= at /\ a < at + SectorSz THEN data[a - at + 1] ELSE want[a]
        BY ONLY <4>1, <4>2, <4>4, a \in D DEF stored
      <4>6. QED
        BY <4>3, <4>5 DEF data, D
    <3>4. ASSUME NEW a \in Cell PROVE want'[a] = IF a \in sector THEN o.cells[a] ELSE want[a]
      <4>1. a \in Nat /\ a \in 0..TotalSz - 1 /\ (a \in sector <=> a >= at /\ a < at + SectorSz)
        BY <1>3, <1>4 DEF Cell, sectorCells
      <4>2. CASE a \in sector
        <5>1. a - at \in 0..SectorSz - 1
          BY <1>3, <1>4, <4>1, <4>2
        <5>2. o.cells[a] = job.data[a - at + 1]
          BY <1>6, <1>7, <2>1, <4>2, <5>1
        <5>3. QED
          BY <3>3, <4>1, <4>2, <5>2
      <4>3. QED
        BY <3>3, <4>1, <4>2
    <3>5. JobOK'
      BY <1>1, <1>4, <1>5, <3>1, Advanced DEF SpimInv, Types
    <3>6. QED
      BY <1>3, <3>1, <3>3, <3>4, <3>5 DEF Cell
  <2>2. CASE ~o.ok
    <3>1. want' = forgotten(sector, o.cells) /\ job' = Idle /\ ret' = "error"
      BY <1>2, <2>2 DEF fails, returns
    <3>2. QED
      BY <1>3, <1>7, <3>1 DEF forgotten, JobOK
  <2>3. QED
    BY <2>1, <2>2
<1>9. SpimCtl' /\ spimPending' = spimPending
  BY <1>1 DEF SpimInv, SpimCtl, spimPending
<1>10. StoredElsewhere'
  BY <1>2, <1>7, <1>8, <1>9 DEF SpimInv, StoredElsewhere
<1>11. Held'
  <2>1. SUFFICES ASSUME ctl.addr # NoAddr, NEW a \in Cell, a \in sectorCells(ctl.addr, SectorSz)
                 PROVE  a \notin sector
    BY <1>1, <1>8 DEF SpimInv, Held
  <2>2. sectorStart(ctl.addr) = ctl.addr /\ ctl.addr \in Nat
    BY <2>1, SpimSector
  <2>3. sectorStart(a) = ctl.addr
    BY <2>1, <2>2, SameSector
  <2>4. a \in sector => sectorStart(a) = at
    BY <1>3, <1>5, SameSector
  <2>5. QED
    BY <1>1, <1>5, <2>3, <2>4
<1>12. QED
  BY <1>1, <1>2, <1>3, <1>7, <1>8, <1>9, <1>10, <1>11 DEF SpimInv, Types, Synced

(* The sector of the write is read into the buffer after the one that was   *)
(* there has been written back.                                             *)
LEMMA SpimLoaded ==
  ASSUME SpimInv, job.op = "write", job.data # <<>>, NEW o \in spimSync, o.ok
  PROVE  LET at == sectorStart(job.offs)
             loaded == nor_readData(o.cells, at, SectorSz)
         IN /\ loaded \in [0..SectorSz - 1 -> Bit]
            /\ \A a \in Cell : want[a] = IF a \in sectorCells(at, SectorSz) THEN loaded[a - at] ELSE o.cells[a]
<1> DEFINE at == sectorStart(job.offs)
           loaded == nor_readData(o.cells, at, SectorSz)
<1>1. job.offs \in Cell /\ job.offs \in Nat
  BY Writing DEF SpimInv, Types
<1>2. o.cells \in [Cell -> Bit] /\ o.cells = want
  BY SpimSynced
<1>3. sectorCells(at, SectorSz) \subseteq Cell /\ at \in Nat /\ SectorSz \in Nat
  BY <1>1, SectorInside, Sector, NorAssumption
<1> HIDE DEF at
<1>4. loaded \in [0..SectorSz - 1 -> Bit] /\ \A i \in 0..SectorSz - 1 : loaded[i] = o.cells[at + i]
  <2>1. \A i \in 0..SectorSz - 1 : at + i \in Cell
    BY <1>3 DEF sectorCells
  <2>2. QED
    BY <1>2, <2>1 DEF nor_readData
<1> HIDE DEF loaded
<1>5. ASSUME NEW a \in Cell, a \in sectorCells(at, SectorSz) PROVE loaded[a - at] = o.cells[a]
  <2>1. a \in Nat
    BY NorAssumption DEF Cell
  <2>2. a - at \in 0..SectorSz - 1 /\ at + (a - at) = a
    BY <1>3, <1>5, <2>1 DEF sectorCells
  <2>3. loaded[a - at] = o.cells[at + (a - at)]
    BY <1>4, <2>2
  <2>4. QED
    BY <2>2, <2>3
<1>6. QED
  BY <1>2, <1>4, <1>5 DEF loaded, at

(* flashdrv_write, another sector: the buffered one is written back first.  *)
LEMMA SpimChange == SpimInv /\ (spimWriteChange \/ ftmWriteChange) => SpimInv'
<1> SUFFICES ASSUME SpimInv, spimWriteChange \/ ftmWriteChange PROVE SpimInv'
  OBVIOUS
<1>1. job.op = "write" /\ job.data # <<>>
  BY DEF spimWriteChange, ftmWriteChange
<1> DEFINE loaded(o) == nor_readData(o.cells, sectorStart(job.offs), SectorSz)
<1>2. PICK o \in spimSync :
       /\ cells' = o.cells
       /\ \/ /\ ~o.ok
             /\ fails("write")
             /\ UNCHANGED <<want, buf, ctl>>
          \/ /\ o.ok
             /\ intoBuffer(loaded(o))
             /\ UNCHANGED ret
          \/ /\ o.ok
             /\ buf' \in {buf, loaded(o)}
             /\ ctl' = [addr |-> NoAddr, dirty |-> ctl.addr = NoAddr /\ ctl.dirty]
             /\ fails("write")
             /\ UNCHANGED want
  BY DEF spimWriteChange, ftmWriteChange
<1>3. /\ o.cells \in [Cell -> Bit]
      /\ o.ok => o.cells = want
      /\ \A a \in Cell : a \notin spimPending => o.cells[a] = want[a]
  BY SpimSynced
<1>4. CASE ~o.ok
  <2>1. ret' = "error" /\ JobOK' /\ UNCHANGED <<want, buf, ctl>>
    BY <1>2, <1>4 DEF fails, returns, JobOK
  <2>2. QED
    BY <1>2, <1>3, <2>1, SpimKept
<1>5. ASSUME o.ok
      PROVE  /\ loaded(o) \in [0..SectorSz - 1 -> Bit]
             /\ \A a \in Cell : want[a] = IF a \in sectorCells(sectorStart(job.offs), SectorSz)
                                        THEN loaded(o)[a - sectorStart(job.offs)] ELSE cells'[a]
  BY <1>1, <1>2, <1>5, SpimLoaded
<1>6. CASE o.ok /\ intoBuffer(loaded(o)) /\ UNCHANGED ret
  <2>1. cells' \in [Cell -> Bit]
    BY <1>2, <1>3
  <2> HIDE DEF loaded
  <2>2. QED
    BY <1>1, <1>5, <1>6, <2>1, SpimCopied
<1>7. CASE /\ o.ok /\ buf' \in {buf, loaded(o)}
           /\ ctl' = [addr |-> NoAddr, dirty |-> ctl.addr = NoAddr /\ ctl.dirty]
           /\ fails("write") /\ UNCHANGED want
  <2>1. JobOK' /\ cells' \in [Cell -> Bit] /\ cells' = want'
    BY <1>2, <1>3, <1>7 DEF fails, JobOK
  <2>2. buf' \in [0..SectorSz - 1 -> Bit]
    BY <1>5, <1>7 DEF SpimInv, Types
  <2>3. SpimCtl' /\ ctl'.addr = NoAddr
    <3>1. (ctl.addr = NoAddr /\ ctl.dirty) \in BOOLEAN
      OBVIOUS
    <3>2. QED
      BY <1>7, <3>1 DEF SpimCtl
  <2>4. QED
    BY <2>1, <2>2, <2>3, SpimDropped
<1>8. QED
  BY <1>2, <1>4, <1>6, <1>7

(* devs_sync: the SPIMCTRL driver lowers the dirty flag, FTMCTRL does not.  *)
LEMMA SpimSyncs == SpimInv /\ (spimSyncCall \/ ftmSyncCall) => SpimInv'
<1> SUFFICES ASSUME SpimInv, spimSyncCall \/ ftmSyncCall PROVE SpimInv'
  OBVIOUS
<1>1. job' = Idle /\ JobOK' /\ UNCHANGED <<want, buf>>
  BY DEF spimSyncCall, ftmSyncCall, JobOK
<1>2. PICK o \in spimSync :
        /\ cells' = o.cells /\ returns("sync", o.ok)
        /\ \/ ctl' = ctl
           \/ o.ok /\ ctl.addr # NoAddr /\ ctl' = [ctl EXCEPT !.dirty = FALSE]
  BY DEF spimSyncCall, ftmSyncCall
<1>3. /\ o.cells \in [Cell -> Bit]
      /\ o.ok => o.cells = want
      /\ \A a \in Cell : a \notin spimPending => o.cells[a] = want[a]
  BY SpimSynced
<1>4. ret' = "sync" => cells' = want
  BY <1>2, <1>3 DEF returns
<1>5. CASE ctl' = ctl
  BY <1>1, <1>2, <1>3, <1>4, <1>5, SpimKept
<1>6. CASE o.ok /\ ctl.addr # NoAddr /\ ctl' = [ctl EXCEPT !.dirty = FALSE]
  <2>1. SpimCtl' /\ ctl'.addr = ctl.addr
    BY <1>6 DEF SpimInv, SpimCtl
  <2>2. cells' = want'
    BY <1>1, <1>2, <1>3, <1>6
  <2>3. StoredElsewhere' /\ Synced'
    BY <2>2 DEF StoredElsewhere, Synced
  <2>4. Held'
    BY <1>1, <2>1 DEF SpimInv, Held
  <2>5. Types'
    BY <1>1, <1>2, <1>3 DEF SpimInv, Types
  <2>6. QED
    BY <2>1, <2>3, <2>4, <2>5 DEF SpimInv
<1>7. QED
  BY <1>2, <1>5, <1>6

(* The buffer is dropped exactly if erasing reaches its sector: then the    *)
(* area has all of the sector, and otherwise none of it.                    *)
LEMMA SpimErasesRange ==
  ASSUME NEW r \in Ranges
  PROVE  SpimInv /\ job = Idle /\ eraseRange(r[1], r[2]) => SpimInv'
<1> SUFFICES ASSUME SpimInv, job = Idle, eraseRange(r[1], r[2]) PROVE SpimInv'
  OBVIOUS
<1> DEFINE lo == r[1]
           hi == sectorStart(lo) + r[2] + SectorSz - 1
           range == sectorStart(lo)..sectorStart(hi) - 1
<1>1. cells \in [Cell -> Bit] /\ want \in [Cell -> Bit] /\ buf \in [0..SectorSz - 1 -> Bit]
  BY DEF SpimInv, Types
<1>2. PICK o \in eraseOutcomes(cells, range, uniform(range)) :
       cells' = o.cells /\ want' = afterErase(o) /\ ctl' = dropBuffer(o.area) /\ returns("erase", o.ok)
  BY DEF eraseRange, erasedSectors
<1>3. job' = Idle /\ buf' = buf /\ JobOK'
  BY DEF eraseRange, JobOK
<1>4. lo \in Nat /\ hi \in Nat
  BY RangeInside
<1> HIDE DEF lo, hi
<1>5. /\ ErasesArea(cells, o)
      /\ \A a \in Cell : a \in o.area <=> sectorStart(a) \in o.area
  BY <1>1, <1>2, <1>4, ErasesSectors
<1>6. /\ want' \in [Cell -> Bit] /\ cells' \in [Cell -> Bit]
      /\ \A a \in Cell : a \in o.area => want'[a] = cells'[a]
      /\ \A a \in Cell : a \notin o.area => want'[a] = want[a] /\ cells'[a] = cells[a]
  BY <1>1, <1>2, <1>5, KnownAfterErase DEF ErasesArea
<1>7. ret' # "sync"
  BY <1>2 DEF returns
<1>8. ASSUME ctl.addr # NoAddr, NEW a \in Cell, a \in sectorCells(ctl.addr, SectorSz)
      PROVE  a \in o.area <=> ctl.addr \in o.area
  <2>1. sectorStart(ctl.addr) = ctl.addr /\ ctl.addr \in Nat
    BY <1>8, SpimSector
  <2>2. sectorStart(a) = ctl.addr
    BY <1>8, <2>1, SameSector
  <2>3. QED
    BY <1>5, <2>2
<1>9. CASE ctl.addr \in o.area
  <2>1. SpimCtl' /\ ctl'.addr = NoAddr
    BY <1>2, <1>9 DEF dropBuffer, SpimInv, SpimCtl
  <2>2. ASSUME NEW a \in Cell PROVE cells'[a] = want'[a]
    <3>1. CASE a \notin o.area
      <4>1. a \notin spimPending
        BY <1>8, <1>9, <3>1 DEF spimPending
      <4>2. QED
        BY <1>6, <3>1, <4>1 DEF SpimInv, StoredElsewhere
    <3>2. QED
      BY <1>6, <3>1
  <2>3. cells' = want'
    BY <1>6, <2>2
  <2>4. QED
    BY <1>1, <1>3, <1>6, <2>1, <2>3, SpimDropped
<1>10. CASE ctl.addr \notin o.area
  <2>1. ctl' = ctl
    BY <1>2, <1>10 DEF dropBuffer
  <2>2. SpimCtl' /\ spimPending' = spimPending
    BY <2>1 DEF SpimInv, SpimCtl, spimPending
  <2>3. StoredElsewhere'
    BY <1>6, <2>2 DEF SpimInv, StoredElsewhere
  <2>4. Held'
    BY <1>3, <1>6, <1>8, <1>10, <2>1 DEF SpimInv, Held
  <2>5. QED
    BY <1>1, <1>3, <1>6, <1>7, <2>2, <2>3, <2>4 DEF SpimInv, Types, Synced
<1>11. QED
  BY <1>9, <1>10

(* flashdrv_erase, a range or the whole chip.                               *)
LEMMA SpimErases ==
  ASSUME NEW r \in Ranges, NEW whole \in BOOLEAN
  PROVE  SpimInv /\ (spimErase(r[1], r[2], whole) \/ ftmErase(r[1], r[2], whole)) => SpimInv'
<1> SUFFICES ASSUME SpimInv, spimErase(r[1], r[2], whole) \/ ftmErase(r[1], r[2], whole) PROVE SpimInv'
  OBVIOUS
<1>1. job = Idle
  BY DEF spimErase, ftmErase
<1>2. CASE eraseRange(r[1], r[2])
  BY <1>1, <1>2, SpimErasesRange
<1>3. ASSUME NEW o \in chipOutcomes(cells) \cup eraseOutcomes(cells, Cell, uniform(Cell)),
             cells' = o.cells,
             \/ o \in chipOutcomes(cells) /\ want' = afterErase(o)
             \/ want' = forgotten(Cell, o.cells),
             ctl' = [ctl EXCEPT !.addr = NoAddr], UNCHANGED <<buf, job>>
      PROVE  SpimInv'
  <2>1. cells \in [Cell -> Bit] /\ want \in [Cell -> Bit] /\ buf \in [0..SectorSz - 1 -> Bit]
    BY DEF SpimInv, Types
  <2>2. ErasesArea(cells, o) /\ (o \in chipOutcomes(cells) => o.area = Cell)
    <3>1. CASE o \in chipOutcomes(cells)
      BY <2>1, <3>1, ChipOutcome
    <3>2. CASE o \in eraseOutcomes(cells, Cell, uniform(Cell)) /\ o \notin chipOutcomes(cells)
      <4>1. /\ Cell \in SUBSET Nat /\ DOMAIN uniform(Cell) \subseteq Nat
            /\ \A n \in DOMAIN uniform(Cell) : uniform(Cell)[n] \in Nat
        BY NorAssumption DEF Cell, uniform
      <4>2. QED
        BY <2>1, <3>2, <4>1, EraseOutcome
    <3>3. QED
      BY <1>3, <3>1, <3>2
  <2>3. cells' \in [Cell -> Bit]
    BY <1>3, <2>2 DEF ErasesArea
  <2>4. cells' = want'
    <3>1. CASE o \in chipOutcomes(cells) /\ want' = afterErase(o)
      <4>1. want' \in [Cell -> Bit] /\ \A a \in Cell : want'[a] = cells'[a]
        BY <1>3, <2>1, <2>2, <3>1, KnownAfterErase
      <4>2. QED
        BY <2>3, <4>1
    <3>2. CASE want' = forgotten(Cell, o.cells)
      BY <1>3, <2>3, <3>2 DEF forgotten
    <3>3. QED
      BY <1>3, <3>1, <3>2
  <2>5. SpimCtl' /\ ctl'.addr = NoAddr
    BY <1>3 DEF SpimInv, SpimCtl
  <2>6. buf' \in [0..SectorSz - 1 -> Bit]
    BY ONLY <1>3, <2>1
  <2>7. job' = Idle
    BY ONLY <1>1, <1>3
  <2>8. JobOK'
    BY ONLY <2>7 DEF JobOK
  <2>9. QED
    BY ONLY <2>3, <2>4, <2>5, <2>6, <2>8, SpimDropped
<1>4. QED
  BY <1>2, <1>3 DEF spimErase, ftmErase

(* Power loss.                                                              *)
LEMMA SpimLoses == SpimInv /\ spimPowerLoss => SpimInv'
<1> SUFFICES ASSUME SpimInv, spimPowerLoss PROVE SpimInv'
  OBVIOUS
<1>1. cells \in [Cell -> Bit] /\ want \in [Cell -> Bit] /\ buf \in [0..SectorSz - 1 -> Bit]
  BY DEF SpimInv, Types
<1>2. /\ job' = Idle /\ ctl' = spimFields /\ cells' = cells
      /\ buf' = [i \in DOMAIN buf |-> Erased] /\ want' = forgotten(spimPending, cells)
  BY DEF spimPowerLoss, powerLoss
<1>3. buf' \in [0..SectorSz - 1 -> Bit]
  BY <1>1, <1>2, Blanked
<1>4. /\ want' \in [Cell -> Bit]
      /\ \A a \in Cell : want'[a] = IF a \in spimPending THEN cells[a] ELSE want[a]
  BY <1>1, <1>2, Forgotten
<1>5. \A a \in Cell : want'[a] = cells[a]
  BY <1>4 DEF SpimInv, StoredElsewhere
<1>6. cells' = want'
  BY <1>1, <1>2, <1>4, <1>5
<1>7. SpimCtl' /\ ctl'.addr = NoAddr
  BY <1>2 DEF SpimCtl, spimFields
<1>8. QED
  <2>1. JobOK'
    BY ONLY <1>2 DEF JobOK
  <2>2. cells' \in [Cell -> Bit]
    BY ONLY <1>1, <1>2
  <2>3. QED
    BY ONLY <1>3, <1>6, <1>7, <2>1, <2>2, SpimDropped

(* Every step of the two drivers keeps their invariant.                     *)
LEMMA SpimStep == SpimInv /\ (spimNext \/ ftmNext) => SpimInv'
<1> SUFFICES ASSUME SpimInv, spimNext \/ ftmNext PROVE SpimInv'
  OBVIOUS
<1>1. CASE startWrite
  <2>1. Types' /\ ret' = "busy" /\ UNCHANGED <<cells, want, buf, ctl, lapses>>
    BY <1>1, Started DEF SpimInv, Types, startWrite
  <2>2. QED
    BY <2>1 DEF SpimInv, SpimCtl, StoredElsewhere, Held, Synced, spimPending
<1>2. CASE refuse
  BY <1>2 DEF refuse, SpimInv, Types, JobOK, SpimCtl, StoredElsewhere, Held, Synced, spimPending
<1>3. CASE writeEnd
  BY <1>3 DEF writeEnd, succeeds, returns, SpimInv, Types, JobOK, SpimCtl, StoredElsewhere, Held,
              Synced, spimPending
<1>4. QED
  BY <1>1, <1>2, <1>3, SpimBuffered, SpimDirect, SpimChange, SpimSyncs, SpimErases, SpimLoses
     DEF spimNext, ftmNext

(***************************************************************************)
(* The Zynq driver.                                                        *)
(***************************************************************************)
(* One or two regions that make up the flash, of sectors made of pages:     *)
(* with a third one flashdrv_regionFind looks for it in the wrong place.    *)
TwoRegions ==
  /\ Len(Regs) \in 1..2
  /\ TotalSz = zynqRegionSz(1) + (IF Len(Regs) = 1 THEN 0 ELSE zynqRegionSz(2))
  /\ \A i \in 1..Len(Regs) : Regs[i].size % PageSz = 0

(* A sector of a region of k sectors of z bytes.                            *)
LEMMA InRegion ==
  ASSUME NEW base \in Nat, NEW z \in Nat \ {0}, NEW k \in Nat \ {0}, NEW offs \in Nat,
         base <= offs, offs < base + z * k
  PROVE  LET s == base + ((offs - base) \div z) * z
         IN s \in Nat /\ s <= offs /\ offs < s + z /\ s + z <= base + z * k
<1> DEFINE d == offs - base
           q == d \div z
           m == q * z
           u == (q + 1) * z
           t == k * z
<1>1. d \in Nat /\ offs = base + d
  OBVIOUS
<1> HIDE DEF d
<1>2. q \in Nat /\ d % z \in 0..z - 1 /\ d = m + (d % z)
  BY <1>1, Division
<1>3. m \in Nat /\ t \in Nat /\ u = m + z /\ z * k = t
  <2>1. m \in Nat /\ u = m + z
    BY ONLY <1>2, z \in Nat
  <2>2. t \in Nat /\ z * k = t
    BY ONLY z \in Nat, k \in Nat
  <2>3. QED
    BY <2>1, <2>2
<1>4. q + 1 <= k
  <2>1. SUFFICES ASSUME k <= q PROVE FALSE
    BY <1>2
  <2>2. t <= m
    BY <1>2, <2>1, Times
  <2> HIDE DEF t, m
  <2>3. QED
    BY <1>1, <1>2, <1>3, <2>2
<1>5. u <= t
  BY <1>2, <1>4, Times
<1>6. base + ((offs - base) \div z) * z = base + m
  BY DEF d
<1> DEFINE e == d % z
<1>7. e \in 0..z - 1 /\ d = m + e
  BY <1>2
<1> HIDE DEF m, u, t, e, q
<1>8. base + m \in Nat /\ base + m <= offs /\ offs < base + m + z /\ base + m + z <= base + z * k
  BY <1>1, <1>3, <1>5, <1>7
<1>9. QED
  BY <1>6, <1>8

(* The size of a region.                                                    *)
LEMMA RegionSizes ==
  ASSUME NEW i \in 1..Len(Regs)
  PROVE  /\ Regs[i].size \in Nat \ {0} /\ Regs[i].count \in Nat \ {0}
         /\ zynqRegionSz(i) \in Nat /\ zynqRegionSz(i) = Regs[i].size * Regs[i].count
<1>1. Regs[i] \in [size : Nat \ {0}, count : Nat \ {0}]
  <2> DEFINE S == [size : Nat \ {0}, count : Nat \ {0}]
  <2>1. Regs \in Seq(S)
    BY RegsAssumption
  <2> HIDE DEF S
  <2>2. Regs[i] \in S
    BY <2>1
  <2>3. QED
    BY <2>2 DEF S
<1> DEFINE z == Regs[i].size
           k == Regs[i].count
<1>2. z \in Nat \ {0} /\ k \in Nat \ {0}
  BY <1>1
<1> HIDE DEF z, k
<1>3. z * k \in Nat
  BY <1>2
<1>4. QED
  BY <1>2, <1>3 DEF z, k, zynqRegionSz

(* Where the regions start.                                                 *)
LEMMA RegStarts ==
  ASSUME TwoRegions
  PROVE  flashdrv_regStart(1) = 0 /\ (Len(Regs) = 2 => flashdrv_regStart(2) = zynqRegionSz(1))
<1> DEFINE body(f) == [i \in 1..Len(Regs) |-> IF i = 1 THEN 0 ELSE f[i - 1] + zynqRegionSz(i - 1)]
           g == [i \in 1..Len(Regs) |-> IF i = 1 THEN 0 ELSE 0 + zynqRegionSz(1)]
           start == CHOOSE f : f = body(f)
<1>1. Len(Regs) \in 1..2
  BY DEF TwoRegions
<1>2. g = body(g)
  <2>1. ASSUME NEW i \in 1..Len(Regs) PROVE g[i] = body(g)[i]
    <3> DEFINE len == Len(Regs)
    <3>1. len \in 1..2 /\ i \in 1..len
      BY <1>1
    <3> HIDE DEF len
    <3>2. i \in 1..2 /\ 1 \in 1..len
      BY <3>1
    <3>3. CASE i = 1
      BY <3>3
    <3>4. CASE i = 2
      <4>1. g[1] = 0 /\ i - 1 = 1
        BY <3>2, <3>4 DEF len
      <4>2. body(g)[i] = g[i - 1] + zynqRegionSz(i - 1)
        BY <3>4
      <4>3. g[i] = 0 + zynqRegionSz(1)
        BY <3>4
      <4>4. QED
        BY <4>1, <4>2, <4>3
    <3>5. QED
      BY <3>2, <3>3, <3>4
  <2>2. QED
    BY <2>1
<1>3. start = body(start)
  BY <1>2
<1> HIDE DEF start
<1>4. start[1] = 0
  BY <1>1, <1>3
<1>5. Len(Regs) = 2 => start[2] = start[1] + zynqRegionSz(1)
  BY <1>1, <1>3
<1>6. Len(Regs) = 2 => zynqRegionSz(1) \in Nat
  BY RegionSizes
<1>7. \A i : flashdrv_regStart(i) = start[i]
  BY DEF flashdrv_regStart, start
<1>8. QED
  BY <1>4, <1>5, <1>6, <1>7

(* flashdrv_regionFind finds the region an address is in.                   *)
LEMMA RegionFound ==
  ASSUME TwoRegions, NEW offs \in Cell
  PROVE  LET id == flashdrv_regionFind(offs)
         IN /\ id \in 1..Len(Regs) /\ id # 0 /\ flashdrv_regStart(id) \in Nat
            /\ flashdrv_regStart(id) <= offs
            /\ offs < flashdrv_regStart(id) + zynqRegionSz(id)
            /\ flashdrv_regStart(id) + zynqRegionSz(id) <= TotalSz
<1> DEFINE id == flashdrv_regionFind(offs)
           len == Len(Regs)
           begin(i) == IF i = 1 THEN 0 ELSE zynqRegionSz(i - 1)
           in(i) == offs \in begin(i)..begin(i) + zynqRegionSz(i) - 1
           R == zynqRegionSz(1)
<1>1. len \in 1..2 /\ offs \in Nat /\ offs < TotalSz /\ DOMAIN Regs = 1..len
  BY RegsAssumption, NorAssumption DEF TwoRegions, Cell
<1>2. \A i \in 1..len : zynqRegionSz(i) \in Nat
  BY RegionSizes
<1>3. 1 \in 1..len /\ R \in Nat
  BY <1>1, <1>2
<1>4. id = CHOOSE i \in 1..len : in(i) /\ \A j \in 1..i - 1 : ~in(j)
  BY <1>1 DEF flashdrv_regionFind
<1> HIDE DEF id
<1>5. CASE offs < R
  <2>1. in(1)
    BY <1>1, <1>3, <1>5
  <2>2. \A i \in 1..len : i = 1 <=> in(i) /\ \A j \in 1..i - 1 : ~in(j)
    <3> HIDE DEF in
    <3>1. 1..1 - 1 = {} /\ 1 \in 1..2 - 1
      OBVIOUS
    <3>2. \A i \in 1..len : i = 1 \/ i = 2
      BY <1>1
    <3>3. QED
      BY <2>1, <3>1, <3>2
  <2>3. id = 1
    <3> HIDE DEF in
    <3>1. QED
      BY <1>3, <1>4, <2>2
  <2>4. flashdrv_regStart(1) = 0
    BY RegStarts
  <2>5. R <= TotalSz
    <3>1. len = 1 => TotalSz = R + 0
      BY DEF TwoRegions
    <3>2. len = 2 => TotalSz = R + zynqRegionSz(2)
      BY DEF TwoRegions
    <3>3. QED
      BY <1>1, <1>2, <1>3, <3>1, <3>2
  <2>6. QED
    BY <1>1, <1>3, <1>5, <2>3, <2>4, <2>5 DEF id
<1>6. CASE R <= offs
  <2>1. len = 2 /\ TotalSz = R + zynqRegionSz(2) /\ zynqRegionSz(2) \in Nat
    <3>1. len = 1 => TotalSz = R + 0
      BY DEF TwoRegions
    <3>2. len = 2 => TotalSz = R + zynqRegionSz(2)
      BY DEF TwoRegions
    <3>3. QED
      BY <1>1, <1>2, <1>3, <1>6, <3>1, <3>2
  <2>2. ~in(1)
    BY <1>1, <1>3, <1>6
  <2>3. begin(2) = R
    OBVIOUS
  <2>4. in(2)
    <3> HIDE DEF begin
    <3>1. QED
      BY <1>1, <1>3, <1>6, <2>1, <2>3
  <2>5. \A i \in 1..len : i = 2 <=> in(i) /\ \A j \in 1..i - 1 : ~in(j)
    <3> HIDE DEF in
    <3>1. 1..2 - 1 = {1}
      OBVIOUS
    <3>2. \A i \in 1..len : i = 1 \/ i = 2
      BY <1>1
    <3>3. QED
      BY <2>2, <2>4, <3>1, <3>2
  <2>6. id = 2
    <3> HIDE DEF in
    <3>1. QED
      BY <1>4, <2>1, <2>5
  <2>7. flashdrv_regStart(2) = R
    BY <2>1, RegStarts
  <2>8. QED
    BY <1>1, <1>3, <1>6, <2>1, <2>6, <2>7 DEF id
<1>7. QED
  BY <1>1, <1>3, <1>5, <1>6

(* The sector of an address lies in the flash around the address.           *)
LEMMA ZynqSector ==
  ASSUME TwoRegions, NEW offs \in Cell
  PROVE  /\ flashdrv_regionFind(offs) \in 1..Len(Regs) /\ flashdrv_regionFind(offs) # 0
         /\ zynqSize(offs) \in Nat \ {0} /\ zynqSize(offs) % PageSz = 0
         /\ zynqSectStart(offs) \in Nat /\ zynqSectStart(offs) <= offs
         /\ offs < zynqSectStart(offs) + zynqSize(offs)
         /\ zynqSectStart(offs) + zynqSize(offs) <= TotalSz
<1> DEFINE id == flashdrv_regionFind(offs)
           base == flashdrv_regStart(id)
           z == Regs[id].size
           k == Regs[id].count
<1>1. /\ id \in 1..Len(Regs) /\ id # 0 /\ base \in Nat /\ base <= offs
      /\ offs < base + zynqRegionSz(id) /\ base + zynqRegionSz(id) <= TotalSz
  BY RegionFound
<1>2. z \in Nat \ {0} /\ k \in Nat \ {0} /\ zynqRegionSz(id) = z * k /\ zynqRegionSz(id) \in Nat
  BY <1>1, RegionSizes
<1>3. z % PageSz = 0
  BY <1>1 DEF TwoRegions
<1>4. offs \in Nat /\ TotalSz \in Nat
  BY NorAssumption DEF Cell
<1>5. zynqSize(offs) = z /\ zynqSectStart(offs) = base + ((offs - base) \div z) * z
  BY DEF zynqSize, zynqSectStart, zynqStart, zynqSectID
<1> HIDE DEF id, base, z, k
<1> DEFINE s == base + ((offs - base) \div z) * z
<1>6. s \in Nat /\ s <= offs /\ offs < s + z /\ s + z <= base + z * k
  BY <1>1, <1>2, <1>4, InRegion
<1> HIDE DEF s
<1>7. s + z <= TotalSz
  BY <1>1, <1>2, <1>4, <1>6
<1>8. QED
  BY <1>1, <1>2, <1>3, <1>5, <1>6, <1>7 DEF s, id

ZynqTypes ==
  /\ cells \in [Cell -> Bit] /\ want \in [Cell -> Bit] /\ buf \in [Cell -> Bit]
  /\ JobOK

(* The buffer is empty, or has bytes up to pos of the sector of x.          *)
ZynqCtl ==
  \/ ctl = zynqFields
  \/ \E x \in Cell : \E p \in 1..zynqSize(x) :
       ctl = [reg |-> flashdrv_regionFind(x), sect |-> zynqSectID(x), pos |-> p]

zynqAt == zynqStart(ctl.reg, ctl.sect)

(* The pending sector, erased when the buffer was loaded and perhaps partly *)
(* programmed since, can still be programmed with what the buffer holds.    *)
Programmable == \A a \in Cell : a \in zynqPending => cells[a] * buf[a - zynqAt] = buf[a - zynqAt]

ZynqInv ==
  /\ ZynqTypes /\ ZynqCtl
  /\ lapses = {} => Backed(zynqPending, zynqAt) /\ Programmable /\ Synced

(* The sector that the buffer holds.                                        *)
LEMMA ZynqPending ==
  ASSUME TwoRegions, ZynqCtl, ctl # zynqFields
  PROVE  /\ ctl.reg # 0 /\ ctl.pos # 0 /\ ctl.pos \in Nat /\ ctl.pos <= Regs[ctl.reg].size
         /\ Regs[ctl.reg].size \in Nat \ {0} /\ Regs[ctl.reg].size % PageSz = 0
         /\ zynqAt \in Nat /\ zynqAt + Regs[ctl.reg].size <= TotalSz
         /\ zynqPending = sectorCells(zynqAt, Regs[ctl.reg].size)
         /\ \A a \in Cell : a \in zynqPending => a - zynqAt \in 0..Regs[ctl.reg].size - 1
<1>1. PICK x \in Cell : \E p \in 1..zynqSize(x) :
        ctl = [reg |-> flashdrv_regionFind(x), sect |-> zynqSectID(x), pos |-> p]
  BY DEF ZynqCtl
<1>2. PICK p \in 1..zynqSize(x) :
        ctl = [reg |-> flashdrv_regionFind(x), sect |-> zynqSectID(x), pos |-> p]
  BY <1>1
<1>3. ctl.reg = flashdrv_regionFind(x) /\ ctl.sect = zynqSectID(x) /\ ctl.pos = p
  BY <1>2
<1>4. Regs[ctl.reg].size = zynqSize(x) /\ zynqAt = zynqSectStart(x)
  BY <1>3 DEF zynqSize, zynqAt, zynqSectStart
<1> DEFINE z == zynqSize(x)
           s == zynqSectStart(x)
<1>5. /\ flashdrv_regionFind(x) # 0
      /\ z \in Nat \ {0} /\ z % PageSz = 0 /\ s \in Nat /\ s + z <= TotalSz
  BY ZynqSector
<1>6. zynqPending = sectorCells(zynqAt, Regs[ctl.reg].size)
  BY <1>3, <1>5 DEF zynqPending, zynqUnbuffered, zynqAt
<1>7. ASSUME NEW a \in Cell, a \in sectorCells(s, z) PROVE a - s \in 0..z - 1
  <2>1. a \in Nat
    BY NorAssumption DEF Cell
  <2> HIDE DEF s, z
  <2>2. QED
    BY <1>5, <1>7, <2>1 DEF sectorCells
<1>8. p \in Nat /\ p # 0 /\ p <= z
  <2> HIDE DEF z
  <2>1. p \in 1..z
    BY <1>2 DEF z
  <2>2. QED
    BY <1>5, <2>1
<1>9. QED
  BY <1>3, <1>4, <1>5, <1>6, <1>7, <1>8

(* No sector is in the buffer.                                              *)
LEMMA ZynqEmpty ==
  ASSUME ctl = zynqFields
  PROVE  zynqPending = {} /\ ctl.reg = 0 /\ ctl.pos = 0
BY DEF zynqFields, zynqPending, zynqUnbuffered

(* What flashdrv_sync leaves.                                               *)
LEMMA ZynqSynced ==
  ASSUME TwoRegions, ZynqInv, lapses = {}, NEW o \in zynqSync
  PROVE  /\ o.cells \in [Cell -> Bit]
         /\ o.ok => o.cells = want
         /\ \A a \in Cell : a \notin zynqPending => o.cells[a] = want[a]
         /\ \A a \in Cell : a \in zynqPending => o.cells[a] * buf[a - zynqAt] = buf[a - zynqAt]
<1>1. cells \in [Cell -> Bit] /\ want \in [Cell -> Bit] /\ buf \in [Cell -> Bit]
  BY DEF ZynqInv, ZynqTypes
<1>2. \A a \in Cell : want[a] = IF a \in zynqPending THEN buf[a - zynqAt] ELSE cells[a]
  BY DEF ZynqInv, Backed
<1>3. \A a \in Cell : a \in zynqPending => cells[a] * buf[a - zynqAt] = buf[a - zynqAt]
  BY DEF ZynqInv, Programmable
<1>4. CASE ctl = zynqFields
  <2>1. o.cells = cells /\ zynqPending = {}
    BY <1>4, ZynqEmpty DEF zynqSync
  <2>2. QED
    BY <1>1, <1>2, <2>1
<1>5. CASE ctl # zynqFields
  <2> DEFINE at == zynqAt
             z == Regs[ctl.reg].size
  <2>1. /\ ctl.pos # 0 /\ z \in Nat \ {0} /\ z % PageSz = 0 /\ at \in Nat /\ at + z <= TotalSz
        /\ zynqPending = sectorCells(at, z)
        /\ \A a \in Cell : a \in zynqPending => a - at \in 0..z - 1
    BY <1>5, ZynqPending DEF ZynqInv
  <2>2. o \in programOutcomes(cells, at, z, buf)
    BY <2>1 DEF zynqSync, zynqAt
  <2> HIDE DEF at, z
  <2>3. \A i \in 0..z - 1 : i \in Cell /\ buf[i] \in Bit
    <3>1. \A i \in 0..z - 1 : i \in Cell
      BY <2>1, NorAssumption DEF Cell
    <3>2. QED
      BY <1>1, <3>1
  <2>4. \A i \in 0..z - 1 : buf[i] \in Bit
    BY <2>3
  <2>5. z \in Nat
    BY <2>1
  <2>6. /\ o.cells \in [Cell -> Bit]
        /\ \A a \in Cell : a \notin sectorCells(at, z) => o.cells[a] = cells[a]
        /\ \A a \in Cell : a \in sectorCells(at, z) => o.cells[a] \in {cells[a], cells[a] * buf[a - at]}
        /\ o.ok => \A a \in Cell : a \in sectorCells(at, z) => o.cells[a] = cells[a] * buf[a - at]
    BY ONLY <1>1, <2>1, <2>2, <2>4, <2>5, ProgramOutcome
  <2>7. ASSUME NEW a \in Cell, a \in zynqPending PROVE o.cells[a] * buf[a - at] = buf[a - at]
    <3>1. buf[a - at] \in Bit /\ cells[a] * buf[a - at] = buf[a - at]
      BY <1>3, <2>1, <2>4, <2>7 DEF at
    <3>2. o.cells[a] = cells[a] \/ o.cells[a] = buf[a - at]
      BY <2>1, <2>6, <2>7, <3>1
    <3>3. 0 * 0 = 0 /\ 1 * 1 = 1
      OBVIOUS
    <3>4. QED
      BY <3>1, <3>2, <3>3 DEF Bit
  <2>8. ASSUME o.ok, NEW a \in Cell PROVE o.cells[a] = want[a]
    BY <1>2, <1>3, <2>1, <2>6, <2>8 DEF at
  <2>9. o.ok => o.cells = want
    BY <1>1, <2>6, <2>8
  <2>10. QED
    BY <1>2, <2>1, <2>6, <2>7, <2>9 DEF at
<1>6. QED
  BY <1>4, <1>5

(* The end of a call that leaves no sector in the buffer.                   *)
LEMMA ZynqSettled ==
  ASSUME JobOK', cells' \in [Cell -> Bit], want' \in [Cell -> Bit], buf' \in [Cell -> Bit],
         lapses' = {} => cells' = want', ctl' = zynqFields
  PROVE  ZynqInv'
<1>1. zynqPending' = {}
  BY DEF zynqPending, zynqUnbuffered, zynqFields
<1>2. QED
  BY <1>1 DEF ZynqInv, ZynqTypes, ZynqCtl, Backed, Programmable, Synced

(* A call that fails with the sector still pending.                         *)
LEMMA ZynqFailed ==
  ASSUME TwoRegions, ZynqInv, lapses = {}, NEW o \in zynqSync, cells' = o.cells,
         ret' = "error", job' = Idle, UNCHANGED <<want, buf, ctl>>
  PROVE  ZynqInv'
<1>1. /\ o.cells \in [Cell -> Bit]
      /\ \A a \in Cell : a \notin zynqPending => o.cells[a] = want[a]
      /\ \A a \in Cell : a \in zynqPending => o.cells[a] * buf[a - zynqAt] = buf[a - zynqAt]
  BY ZynqSynced
<1>2. ZynqTypes' /\ ZynqCtl'
  BY <1>1 DEF ZynqInv, ZynqTypes, JobOK, ZynqCtl
<1>3. zynqPending' = zynqPending /\ zynqAt' = zynqAt
  BY DEF zynqPending, zynqUnbuffered, zynqAt
<1>4. \A a \in Cell : want[a] = IF a \in zynqPending THEN buf[a - zynqAt] ELSE o.cells[a]
  BY <1>1 DEF ZynqInv, Backed
<1>5. Backed(zynqPending, zynqAt)' /\ Programmable'
  BY <1>1, <1>3, <1>4 DEF Backed, Programmable
<1>6. QED
  BY <1>2, <1>5 DEF ZynqInv, Synced

(* Bytes copied to the sector of job.offs, whose cells can still take them  *)
(* and which the buffer b holds as it should be.                            *)
LEMMA ZynqCopied ==
  ASSUME TwoRegions, ZynqInv, job.op = "write", job.data # <<>>, job.offs \in Cell,
         NEW reg, NEW sect, NEW pos \in Nat,
         reg = flashdrv_regionFind(job.offs), sect = zynqSectID(job.offs), pos < zynqSize(job.offs),
         NEW b \in [Cell -> Bit], zynqCopy(b, reg, sect, pos), ret' = ret, cells' \in [Cell -> Bit],
         lapses' = {} =>
           /\ job.offs = zynqSectStart(job.offs) + pos
           /\ \A a \in Cell :
                IF a \in sectorCells(zynqSectStart(job.offs), zynqSize(job.offs))
                THEN /\ cells'[a] # 0 \/ buf'[a - zynqSectStart(job.offs)] = 0
                     /\ want[a] = b[a - zynqSectStart(job.offs)]
                ELSE cells'[a] = want[a]
  PROVE  ZynqInv'
<1> DEFINE at == zynqSectStart(job.offs)
           z == zynqSize(job.offs)
           offs == job.offs
           data == job.data
           n == norLeast(Len(data), z - pos)
<1>1. /\ offs \in Nat /\ data \in Seq(Bit) /\ Len(data) \in Nat /\ Len(data) # 0 /\ ret = "busy"
      /\ offs + Len(data) <= TotalSz
  BY Writing DEF ZynqInv, ZynqTypes
<1>2. /\ reg # 0 /\ z \in Nat \ {0} /\ at \in Nat /\ at + z <= TotalSz
  BY ZynqSector
<1>3. Regs[reg].size = z /\ zynqStart(reg, sect) = at
  BY DEF zynqSize, zynqSectStart
<1>4. /\ buf' = stored(b, pos, data, n) /\ want' = stored(want, offs, data, n)
      /\ ctl' = [reg |-> reg, sect |-> sect, pos |-> pos + n] /\ advance(n)
  BY <1>3 DEF zynqCopy
<1>5. pos < z
  OBVIOUS
<1> HIDE DEF at, z
<1>6. n \in Nat /\ n # 0 /\ n <= Len(data) /\ n <= z - pos
  BY <1>1, <1>2, <1>5 DEF norLeast
<1> HIDE DEF n
<1>7. pos + n \in 1..z
  BY <1>2, <1>6
<1>8. TotalSz \in Nat /\ Cell = 0..TotalSz - 1 /\ want \in [0..TotalSz - 1 -> Bit] /\ b \in [0..TotalSz - 1 -> Bit]
  BY NorAssumption DEF Cell, ZynqInv, ZynqTypes
<1>9. JobOK'
  BY <1>4, <1>6, Advanced DEF ZynqInv, ZynqTypes
<1> HIDE DEF offs, data
<1>10. /\ buf' \in [0..TotalSz - 1 -> Bit]
       /\ \A i \in 0..TotalSz - 1 : buf'[i] = IF i >= pos /\ i < pos + n THEN data[i - pos + 1] ELSE b[i]
  <2> DEFINE D == 0..TotalSz - 1
  <2>1. /\ D \in SUBSET Nat /\ pos \in Nat /\ data \in Seq(Bit) /\ n \in Nat /\ n <= Len(data)
        /\ b \in [D -> Bit] /\ buf' = stored(b, pos, data, n)
    BY <1>1, <1>4, <1>6, <1>8
  <2> HIDE DEF D
  <2>2. buf' \in [D -> Bit]
    BY ONLY <2>1, StoredBits
  <2>3. DOMAIN b = D
    BY <2>1
  <2>4. ASSUME NEW i \in D
        PROVE  buf'[i] = IF i >= pos /\ i < pos + n THEN data[i - pos + 1] ELSE b[i]
    BY ONLY <2>1, <2>3, i \in D DEF stored
  <2>5. QED
    BY <2>2, <2>4 DEF D
<1>11. /\ want' \in [0..TotalSz - 1 -> Bit]
       /\ \A a \in 0..TotalSz - 1 : want'[a] = IF a >= offs /\ a < offs + n THEN data[a - offs + 1] ELSE want[a]
  <2> DEFINE D == 0..TotalSz - 1
  <2>1. /\ D \in SUBSET Nat /\ offs \in Nat /\ data \in Seq(Bit) /\ n \in Nat /\ n <= Len(data)
        /\ want \in [D -> Bit] /\ want' = stored(want, offs, data, n)
    BY <1>1, <1>4, <1>6, <1>8
  <2> HIDE DEF D
  <2>2. want' \in [D -> Bit]
    BY ONLY <2>1, StoredBits
  <2>3. DOMAIN want = D
    BY <2>1
  <2>4. ASSUME NEW a \in D
        PROVE  want'[a] = IF a >= offs /\ a < offs + n THEN data[a - offs + 1] ELSE want[a]
    BY ONLY <2>1, <2>3, a \in D DEF stored
  <2>5. QED
    BY <2>2, <2>4 DEF D
<1>12. ZynqTypes'
  BY <1>8, <1>9, <1>10, <1>11 DEF ZynqTypes
<1>13. ZynqCtl'
  BY <1>4, <1>7 DEF ZynqCtl, z
<1>14. ctl'.reg = reg /\ ctl'.sect = sect
  BY <1>4
<1>15. zynqPending' = sectorCells(at, z) /\ zynqAt' = at
  BY <1>2, <1>3, <1>14 DEF zynqPending, zynqUnbuffered, zynqAt
<1>16. ASSUME lapses' = {}, NEW a \in Cell
       PROVE  IF a \in sectorCells(at, z)
              THEN want'[a] = buf'[a - at] /\ cells'[a] * buf'[a - at] = buf'[a - at]
              ELSE want'[a] = cells'[a]
  <2>1. offs = at + pos
    BY <1>16 DEF offs, at
  <2>2. IF a \in sectorCells(at, z)
        THEN (cells'[a] # 0 \/ buf'[a - at] = 0) /\ want[a] = b[a - at]
        ELSE cells'[a] = want[a]
    BY <1>16 DEF at, z
  <2>3. a \in Nat /\ a \in 0..TotalSz - 1 /\ (a \in sectorCells(at, z) <=> a >= at /\ a < at + z)
    BY <1>2, <1>8 DEF sectorCells
  <2>4. CASE a \in sectorCells(at, z)
    <3>1. a - at \in Nat /\ a - at \in 0..TotalSz - 1
      BY <1>2, <1>8, <2>3, <2>4
    <3>2. a - at >= pos /\ a - at < pos + n <=> a >= offs /\ a < offs + n
      BY <1>2, <1>6, <2>1, <2>3
    <3>3. a - at - pos + 1 = a - offs + 1
      BY <1>2, <2>1, <2>3
    <3>4. want'[a] = buf'[a - at]
      BY <1>10, <1>11, <2>2, <2>3, <2>4, <3>1, <3>2, <3>3
    <3>5. buf'[a - at] \in {0, 1} /\ cells'[a] \in {0, 1}
      BY <1>10, <3>1 DEF Bit
    <3>6. cells'[a] * buf'[a - at] = buf'[a - at]
      BY <2>2, <2>4, <3>5
    <3>7. QED
      BY <2>4, <3>4, <3>6
  <2>5. CASE a \notin sectorCells(at, z)
    <3>1. ~(a >= offs /\ a < offs + n)
      BY <1>2, <1>6, <2>1, <2>3, <2>5
    <3>2. QED
      BY <1>11, <2>2, <2>3, <2>5, <3>1
  <2>6. QED
    BY <2>4, <2>5
<1>17. lapses' = {} => Backed(zynqPending, zynqAt)' /\ Programmable'
  BY <1>15, <1>16 DEF Backed, Programmable
<1>18. Synced'
  BY <1>1 DEF Synced
<1>19. QED
  BY <1>12, <1>13, <1>17, <1>18 DEF ZynqInv

(* flashdrv_write, the buffered sector.                                     *)
LEMMA ZynqSame == TwoRegions /\ ZynqInv /\ lapses = {} /\ zynqWriteSame => ZynqInv'
<1> SUFFICES ASSUME TwoRegions, ZynqInv, lapses = {}, zynqWriteSame PROVE ZynqInv'
  OBVIOUS
<1>1. /\ job.op = "write" /\ job.data # <<>> /\ ~zynqOther(job.offs) /\ ~zynqFull
      /\ zynqCopy(buf, ctl.reg, ctl.sect, ctl.pos) /\ UNCHANGED <<cells, ret>>
      /\ lapses' = {} => /\ job.offs = zynqStart(ctl.reg, ctl.sect) + ctl.pos
                         /\ \A a \in zynqPending : cells[a] # 0 \/ buf'[a - zynqStart(ctl.reg, ctl.sect)] = 0
  BY DEF zynqWriteSame
<1>2. job.offs \in Cell
  BY <1>1, Writing DEF ZynqInv, ZynqTypes
<1>3. ctl.reg = flashdrv_regionFind(job.offs) /\ ctl.sect = zynqSectID(job.offs)
  BY <1>1 DEF zynqOther
<1>4. ctl # zynqFields
  BY <1>2, <1>3, ZynqSector DEF zynqFields
<1>5. zynqAt = zynqSectStart(job.offs) /\ Regs[ctl.reg].size = zynqSize(job.offs)
  BY <1>3 DEF zynqAt, zynqSectStart, zynqSize
<1> DEFINE z == zynqSize(job.offs)
<1>6. /\ ctl.reg # 0 /\ ctl.pos \in Nat /\ ctl.pos <= z /\ z \in Nat
      /\ zynqPending = sectorCells(zynqAt, z)
  BY <1>4, <1>5, ZynqPending DEF ZynqInv
<1>7. ctl.pos # z
  BY <1>1, <1>5, <1>6 DEF zynqFull, zynqUnbuffered
<1> HIDE DEF z
<1>8. ctl.pos < z
  BY <1>6, <1>7
<1>9. \A a \in Cell : want[a] = IF a \in sectorCells(zynqAt, z) THEN buf[a - zynqAt] ELSE cells[a]
  BY <1>6 DEF ZynqInv, Backed
<1>10. buf \in [Cell -> Bit] /\ cells' \in [Cell -> Bit]
  BY <1>1 DEF ZynqInv, ZynqTypes
<1>11. lapses' = {} =>
         /\ job.offs = zynqSectStart(job.offs) + ctl.pos
         /\ \A a \in Cell :
              IF a \in sectorCells(zynqSectStart(job.offs), zynqSize(job.offs))
              THEN /\ cells'[a] # 0 \/ buf'[a - zynqSectStart(job.offs)] = 0
                   /\ want[a] = buf[a - zynqSectStart(job.offs)]
              ELSE cells'[a] = want[a]
  BY <1>1, <1>5, <1>6, <1>9 DEF zynqAt, z
<1>12. QED
  BY <1>1, <1>2, <1>3, <1>6, <1>8, <1>10, <1>11, ZynqCopied DEF z

(* flashdrv_write, another sector: read, erased, then copied to.            *)
LEMMA ZynqChange == TwoRegions /\ ZynqInv /\ lapses = {} /\ zynqWriteChange => ZynqInv'
<1> SUFFICES ASSUME TwoRegions, ZynqInv, lapses = {}, zynqWriteChange PROVE ZynqInv'
  OBVIOUS
<1> DEFINE start == zynqSectStart(job.offs)
           sectSz == zynqSize(job.offs)
           loaded(c) == [i \in DOMAIN buf |-> IF i < sectSz THEN c[start + i] ELSE buf[i]]
           erased(c) == nor_eraseSector(c, start, sectSz)
           sector == sectorCells(start, sectSz)
<1>1. job.op = "write" /\ job.data # <<>> /\ lapses' = lapses
  BY DEF zynqWriteChange
<1>2. PICK o \in zynqSync :
          \/ /\ ~o.ok
             /\ cells' = o.cells
             /\ fails("write")
             /\ UNCHANGED <<want, buf, ctl>>
          \/ /\ o.ok
             /\ cells' = erased(o.cells)
             /\ zynqCopy(loaded(o.cells), flashdrv_regionFind(job.offs), zynqSectID(job.offs),
                         job.offs - start)
             /\ UNCHANGED ret
          \/ /\ o.ok
             /\ cells' \in {o.cells, erased(o.cells)}
             /\ buf' \in {buf, loaded(o.cells)}
             /\ want' = forgotten(sector, cells')
             /\ ctl' = zynqFields
             /\ fails("write")
  BY DEF zynqWriteChange
<1>3. cells \in [Cell -> Bit] /\ want \in [Cell -> Bit] /\ buf \in [Cell -> Bit]
  BY DEF ZynqInv, ZynqTypes
<1>4. job.offs \in Cell /\ job.offs \in Nat
  BY <1>1, Writing DEF ZynqInv, ZynqTypes
<1>5. /\ sectSz \in Nat \ {0} /\ start \in Nat /\ start <= job.offs /\ job.offs < start + sectSz
      /\ start + sectSz <= TotalSz
  BY <1>4, ZynqSector
<1>6. o.cells \in [Cell -> Bit] /\ (o.ok => o.cells = want)
  BY ZynqSynced
<1> HIDE DEF start, sectSz
<1>7. /\ erased(o.cells) \in [Cell -> Bit]
      /\ \A a \in Cell : erased(o.cells)[a] = IF a \in sector THEN Erased ELSE o.cells[a]
  BY <1>6 DEF nor_eraseSector, Erased, Bit
<1>8. ASSUME NEW i \in Cell, i < sectSz PROVE start + i \in Cell
  BY <1>5, <1>8, NorAssumption DEF Cell
<1>9. loaded(o.cells) \in [Cell -> Bit]
  BY <1>3, <1>6, <1>8
<1>10. ASSUME NEW a \in Cell, a \in sector PROVE loaded(o.cells)[a - start] = o.cells[a]
  <2>1. a \in Nat /\ TotalSz \in Nat
    BY NorAssumption DEF Cell
  <2>2. a - start \in Cell /\ a - start < sectSz /\ start + (a - start) = a
    BY <1>5, <1>10, <2>1 DEF sectorCells, Cell
  <2>3. loaded(o.cells)[a - start] = o.cells[start + (a - start)]
    BY <1>3, <2>2
  <2>4. QED
    BY <2>2, <2>3
<1>11. CASE ~o.ok
  <2>1. cells' = o.cells /\ ret' = "error" /\ job' = Idle /\ UNCHANGED <<want, buf, ctl>>
    BY <1>2, <1>11 DEF fails, returns
  <2>2. QED
    BY <2>1, ZynqFailed
<1>12. CASE /\ o.ok /\ cells' = erased(o.cells) /\ UNCHANGED ret
            /\ zynqCopy(loaded(o.cells), flashdrv_regionFind(job.offs), zynqSectID(job.offs),
                        job.offs - start)
  <2> DEFINE b == loaded(o.cells)
             pos == job.offs - start
  <2>1. pos \in Nat /\ pos < sectSz /\ job.offs = start + pos
    BY <1>4, <1>5
  <2>2. b \in [Cell -> Bit] /\ \A a \in Cell : a \in sector => b[a - start] = o.cells[a]
    BY <1>9, <1>10
  <2>3. zynqCopy(b, flashdrv_regionFind(job.offs), zynqSectID(job.offs), pos)
    BY <1>12
  <2> HIDE DEF b, pos
  <2>4. cells' \in [Cell -> Bit]
    BY <1>7, <1>12
  <2>5. ASSUME NEW a \in Cell
        PROVE  IF a \in sector THEN cells'[a] # 0 /\ want[a] = b[a - start] ELSE cells'[a] = want[a]
    BY <1>6, <1>7, <1>12, <2>2 DEF Erased
  <2>6. /\ job.offs = zynqSectStart(job.offs) + pos
        /\ \A a \in Cell :
             IF a \in sectorCells(zynqSectStart(job.offs), zynqSize(job.offs))
             THEN /\ cells'[a] # 0 \/ buf'[a - zynqSectStart(job.offs)] = 0
                  /\ want[a] = b[a - zynqSectStart(job.offs)]
             ELSE cells'[a] = want[a]
    BY <2>1, <2>5 DEF start, sectSz
  <2>7. pos < zynqSize(job.offs)
    BY <2>1 DEF sectSz
  <2>8. QED
    BY <1>1, <1>4, <1>12, <2>1, <2>2, <2>3, <2>4, <2>6, <2>7, ZynqCopied
<1>13. CASE /\ o.ok /\ cells' \in {o.cells, erased(o.cells)} /\ buf' \in {buf, loaded(o.cells)}
            /\ want' = forgotten(sector, cells') /\ ctl' = zynqFields /\ fails("write")
  <2>1. cells' \in [Cell -> Bit] /\ buf' \in [Cell -> Bit] /\ JobOK'
    BY <1>3, <1>6, <1>7, <1>9, <1>13 DEF fails, JobOK
  <2>2. /\ want' \in [Cell -> Bit]
        /\ \A a \in Cell : want'[a] = IF a \in sector THEN cells'[a] ELSE want[a]
    BY <1>3, <1>13, <2>1 DEF forgotten
  <2>3. \A a \in Cell : a \notin sector => cells'[a] = want[a]
    BY <1>6, <1>7, <1>13
  <2>4. \A a \in Cell : cells'[a] = want'[a]
    BY <2>2, <2>3
  <2>5. cells' = want'
    BY <2>1, <2>2, <2>4
  <2>6. QED
    BY <1>13, <2>1, <2>2, <2>5, ZynqSettled
<1>14. QED
  BY <1>2, <1>11, <1>12, <1>13

(* flashdrv_write, a full buffer is programmed.                             *)
LEMMA ZynqFull == TwoRegions /\ ZynqInv /\ lapses = {} /\ zynqWriteFull => ZynqInv'
<1> SUFFICES ASSUME TwoRegions, ZynqInv, lapses = {}, zynqWriteFull PROVE ZynqInv'
  OBVIOUS
<1>1. PICK o \in zynqSync :
       /\ cells' = o.cells
       /\ \/ o.ok /\ ctl' = zynqFields /\ UNCHANGED <<job, ret>>
          \/ ~o.ok /\ fails("write") /\ UNCHANGED ctl
  BY DEF zynqWriteFull
<1>2. UNCHANGED <<want, buf, lapses>>
  BY DEF zynqWriteFull
<1>3. CASE ~o.ok
  <2>1. ret' = "error" /\ job' = Idle /\ ctl' = ctl
    BY <1>1, <1>3 DEF fails, returns
  <2>2. QED
    BY <1>1, <1>2, <2>1, ZynqFailed
<1>4. CASE o.ok
  <2>1. o.cells \in [Cell -> Bit] /\ o.cells = want
    BY <1>4, ZynqSynced
  <2>2. JobOK' /\ buf' \in [Cell -> Bit]
    BY <1>1, <1>2, <1>4 DEF ZynqInv, ZynqTypes, JobOK
  <2>3. QED
    BY <1>1, <1>2, <1>4, <2>1, <2>2, ZynqSettled
<1>5. QED
  BY <1>3, <1>4

(* devs_sync.                                                               *)
LEMMA ZynqSyncs == TwoRegions /\ ZynqInv /\ lapses = {} /\ zynqSyncCall => ZynqInv'
<1> SUFFICES ASSUME TwoRegions, ZynqInv, lapses = {}, zynqSyncCall PROVE ZynqInv'
  OBVIOUS
<1>1. PICK o \in zynqSync :
       /\ cells' = o.cells
       /\ ctl' = IF o.ok THEN zynqFields ELSE ctl
       /\ returns("sync", o.ok)
  BY DEF zynqSyncCall
<1>2. job' = Idle /\ UNCHANGED <<want, buf, lapses>>
  BY DEF zynqSyncCall
<1>3. CASE ~o.ok
  <2>1. ret' = "error" /\ ctl' = ctl
    BY <1>1, <1>3 DEF returns
  <2>2. QED
    BY <1>1, <1>2, <2>1, ZynqFailed
<1>4. CASE o.ok
  <2>1. o.cells \in [Cell -> Bit] /\ o.cells = want
    BY <1>4, ZynqSynced
  <2>2. JobOK' /\ buf' \in [Cell -> Bit]
    BY <1>2 DEF ZynqInv, ZynqTypes, JobOK
  <2>3. QED
    BY <1>1, <1>2, <1>4, <2>1, <2>2, ZynqSettled
<1>5. QED
  BY <1>3, <1>4

(* flashdrv_erase drops the buffer: a lapse, unless its sector is erased.   *)
LEMMA ZynqErases ==
  ASSUME NEW offs \in Cell, NEW len \in 1..MaxLen, NEW whole \in BOOLEAN
  PROVE  TwoRegions /\ ZynqInv /\ lapses = {} /\ zynqErase(offs, len, whole) => ZynqInv'
<1> SUFFICES ASSUME TwoRegions, ZynqInv, lapses = {}, zynqErase(offs, len, whole) PROVE ZynqInv'
  OBVIOUS
<1> DEFINE last  == offs + len - 1
           range == aligned(offs, zynqSize(offs))..aligned(last, zynqSize(last)) + zynqSize(last) - 1
           sects == {a \in Cell : a \in range /\ zynqSectStart(a) = a}
           sizes == [a \in sects |-> zynqSize(a)]
<1>1. cells \in [Cell -> Bit] /\ want \in [Cell -> Bit] /\ buf \in [Cell -> Bit]
  BY DEF ZynqInv, ZynqTypes
<1>2. PICK o \in
       IF whole THEN chipOutcomes(cells)
       ELSE IF offs + len > TotalSz THEN {[cells |-> cells, ok |-> FALSE, area |-> {}]}
       ELSE eraseOutcomes(cells, range, sizes) :
       /\ cells' = o.cells
       /\ want' = afterErase(o)
       /\ returns("erase", o.ok)
       /\ lapse("unsynced", ~(zynqPending \subseteq o.area))
  BY DEF zynqErase
<1>3. job' = Idle /\ ctl' = zynqFields /\ buf' = buf
  BY DEF zynqErase
<1>4. offs \in Nat /\ len \in Nat \ {0} /\ TotalSz \in Nat /\ Cell \subseteq Nat
  BY NorAssumption DEF Cell
<1>5. ErasesArea(cells, o)
  <2>1. CASE whole
    BY <1>1, <1>2, <2>1, ChipOutcome
  <2>2. CASE ~whole /\ offs + len > TotalSz
    <3>1. o.cells = cells /\ o.ok = FALSE
      BY <1>2, <2>2
    <3>2. QED
      BY <1>1, <3>1 DEF ErasesArea
  <2>3. CASE ~whole /\ ~(offs + len > TotalSz)
    <3>1. last \in Cell
      BY <1>4, <2>3 DEF Cell
    <3>2. /\ zynqSize(offs) \in Nat \ {0} /\ zynqSize(last) \in Nat \ {0}
          /\ \A a \in Cell : zynqSize(a) \in Nat
      BY <3>1, ZynqSector
    <3>3. ASSUME NEW x \in Nat, NEW y \in Nat \ {0} PROVE aligned(x, y) \in Nat
      <4> DEFINE q == x \div y
                 r == x % y
                 m == q * y
      <4>1. q \in Nat /\ r \in Nat /\ x = m + r
        <5>1. q \in Nat /\ r \in 0..y - 1 /\ x = m + r
          BY Division
        <5>2. QED
          BY <5>1
      <4>2. m \in Nat
        BY <4>1
      <4>3. aligned(x, y) = x - r
        BY DEF aligned
      <4> HIDE DEF q, r, m
      <4>4. QED
        BY <4>1, <4>2, <4>3
    <3>4. aligned(offs, zynqSize(offs)) \in Nat /\ aligned(last, zynqSize(last)) \in Nat
      BY <1>4, <3>1, <3>2, <3>3
    <3>5. range \in SUBSET Nat
      BY <3>2, <3>4
    <3>6. DOMAIN sizes \subseteq Nat /\ \A n \in DOMAIN sizes : sizes[n] \in Nat
      BY <1>4, <3>2
    <3>7. o \in eraseOutcomes(cells, range, sizes)
      BY <1>2, <2>3
    <3> HIDE DEF range, sizes
    <3>8. QED
      BY <1>1, <3>5, <3>6, <3>7, EraseOutcome
  <2>4. QED
    BY <2>1, <2>2, <2>3
<1>6. /\ want' \in [Cell -> Bit] /\ cells' \in [Cell -> Bit]
      /\ \A a \in Cell : a \in o.area => want'[a] = cells'[a]
      /\ \A a \in Cell : a \notin o.area => want'[a] = want[a] /\ cells'[a] = cells[a]
  BY <1>1, <1>2, <1>5, KnownAfterErase DEF ErasesArea
<1>7. ASSUME lapses' = {} PROVE cells' = want'
  <2>1. zynqPending \subseteq o.area
    <3>1. lapse("unsynced", ~(zynqPending \subseteq o.area))
      BY <1>2
    <3>2. QED
      BY ONLY <1>7, <3>1 DEF lapse
  <2>2. \A a \in Cell : a \notin o.area => want[a] = cells[a]
    BY <2>1 DEF ZynqInv, Backed
  <2>3. \A a \in Cell : want'[a] = cells'[a]
    BY <1>6, <2>2
  <2>4. QED
    BY <1>6, <2>3
<1>8. QED
  BY <1>1, <1>3, <1>6, <1>7, ZynqSettled DEF JobOK

(* Power loss.                                                              *)
LEMMA ZynqLoses == ZynqInv /\ lapses = {} /\ zynqPowerLoss => ZynqInv'
<1> SUFFICES ASSUME ZynqInv, lapses = {}, zynqPowerLoss PROVE ZynqInv'
  OBVIOUS
<1>1. cells \in [Cell -> Bit] /\ want \in [Cell -> Bit] /\ buf \in [Cell -> Bit]
  BY DEF ZynqInv, ZynqTypes
<1>2. /\ job' = Idle /\ ret' = "init" /\ ctl' = zynqFields /\ cells' = cells
      /\ buf' = [i \in DOMAIN buf |-> Erased] /\ want' = forgotten(zynqPending, cells)
  BY DEF zynqPowerLoss, powerLoss
<1>3. buf' \in [Cell -> Bit]
  BY <1>1, <1>2 DEF Erased, Bit
<1>4. /\ want' \in [Cell -> Bit]
      /\ \A a \in Cell : want'[a] = IF a \in zynqPending THEN cells[a] ELSE want[a]
  BY <1>1, <1>2, Forgotten
<1>5. \A a \in Cell : want'[a] = cells[a]
  BY <1>4 DEF ZynqInv, Backed
<1>6. cells' = want'
  BY <1>1, <1>2, <1>4, <1>5
<1>7. QED
  <2>1. JobOK'
    BY ONLY <1>2 DEF JobOK
  <2>2. cells' \in [Cell -> Bit] /\ ctl' = zynqFields
    BY ONLY <1>1, <1>2
  <2>3. QED
    BY ONLY <1>3, <1>4, <1>6, <2>1, <2>2, ZynqSettled

(* Every step of the Zynq driver keeps its invariant.                       *)
LEMMA ZynqStep == TwoRegions /\ ZynqInv /\ lapses = {} /\ zynqNext => ZynqInv'
<1> SUFFICES ASSUME TwoRegions, ZynqInv, lapses = {}, zynqNext PROVE ZynqInv'
  OBVIOUS
<1>1. CASE startWrite
  <2>1. ZynqTypes' /\ ret' = "busy" /\ UNCHANGED <<cells, want, buf, ctl, lapses>>
    BY <1>1, Started DEF ZynqInv, ZynqTypes, startWrite
  <2>2. QED
    BY <2>1 DEF ZynqInv, ZynqCtl, Backed, Programmable, Synced, zynqPending, zynqUnbuffered, zynqAt
<1>2. CASE refuse
  BY <1>2 DEF refuse, ZynqInv, ZynqTypes, JobOK, ZynqCtl, Backed, Programmable, Synced, zynqPending,
              zynqUnbuffered, zynqAt
<1>3. CASE zynqWriteEnd
  BY <1>3 DEF zynqWriteEnd, succeeds, returns, ZynqInv, ZynqTypes, JobOK, ZynqCtl, Backed,
              Programmable, Synced, zynqPending, zynqUnbuffered, zynqAt
<1>4. QED
  BY <1>1, <1>2, <1>3, ZynqChange, ZynqSame, ZynqFull, ZynqSyncs, ZynqErases, ZynqLoses DEF zynqNext

(***************************************************************************)
(* The four drivers.                                                       *)
(***************************************************************************)
FlashInv ==
  /\ driver \in {"imxrt", "zynq", "spimctrl", "ftmctrl"}
  /\ driver = "imxrt" => ImxrtInv
  /\ driver = "zynq" /\ TwoRegions => ZynqInv
  /\ driver \in {"spimctrl", "ftmctrl"} => SpimInv

(* A new flash and a driver just started.                                   *)
LEMMA Fresh ==
  /\ imxrtInit => ImxrtInv
  /\ zynqInit => ZynqInv
  /\ spimInit => SpimInv
<1>1. ASSUME norInit PROVE cells \in [Cell -> Bit] /\ want = cells /\ JobOK /\ ret # "sync"
  BY <1>1 DEF norInit, Bit, JobOK
<1>2. ASSUME NEW S PROVE [i \in S |-> Erased] \in [S -> Bit]
  BY DEF Erased, Bit
<1>3. ASSUME imxrtInit PROVE ImxrtInv
  <2>1. imxrtPending = {} /\ ImxrtCtl
    BY <1>3 DEF imxrtInit, imxrtFields, imxrtPending, ImxrtCtl
  <2>2. QED
    BY <1>1, <1>2, <1>3, <2>1 DEF imxrtInit, ImxrtInv, Types, Backed, Synced
<1>4. ASSUME zynqInit PROVE ZynqInv
  <2>1. zynqPending = {} /\ ZynqCtl
    BY <1>4, ZynqEmpty DEF zynqInit, ZynqCtl
  <2>2. buf \in [Cell -> Bit]
    BY <1>2, <1>4 DEF zynqInit, Cell
  <2>3. QED
    BY <1>1, <1>4, <2>1, <2>2 DEF zynqInit, ZynqInv, ZynqTypes, Backed, Programmable, Synced
<1>5. ASSUME spimInit PROVE SpimInv
  <2>1. ctl.addr = NoAddr /\ SpimCtl
    BY <1>5 DEF spimInit, spimFields, SpimCtl
  <2>2. QED
    BY <1>1, <1>2, <1>5, <2>1 DEF spimInit, SpimInv, Types, StoredElsewhere, Held, Synced
<1>6. QED
  BY <1>3, <1>4, <1>5

(* A flash made anew after a lapse.                                         *)
LEMMA Renewed ==
  /\ ImxrtInv /\ norRefresh(imxrtFields) => ImxrtInv'
  /\ ZynqInv /\ norRefresh(zynqFields) => ZynqInv'
  /\ SpimInv /\ norRefresh(spimFields) => SpimInv'
<1>1. ASSUME NEW fields, norRefresh(fields)
      PROVE  /\ cells' \in [Cell -> Bit] /\ want' = cells' /\ JobOK' /\ ctl' = fields
             /\ \A S : buf \in [S -> Bit] => buf' \in [S -> Bit]
  BY <1>1 DEF norRefresh, Erased, Bit, JobOK
<1>2. ASSUME ImxrtInv, norRefresh(imxrtFields) PROVE ImxrtInv'
  <2>1. ImxrtCtl' /\ ctl'.prev = NoAddr
    BY <1>1, <1>2 DEF ImxrtCtl, imxrtFields
  <2>2. buf' \in [0..SectorSz - 1 -> Bit]
    BY <1>1, <1>2 DEF ImxrtInv, Types
  <2>3. QED
    BY <1>1, <1>2, <2>1, <2>2, ImxrtSettled
<1>3. ASSUME ZynqInv, norRefresh(zynqFields) PROVE ZynqInv'
  <2>1. buf' \in [Cell -> Bit]
    BY <1>1, <1>3 DEF ZynqInv, ZynqTypes
  <2>2. QED
    BY <1>1, <1>3, <2>1, ZynqSettled
<1>4. ASSUME SpimInv, norRefresh(spimFields) PROVE SpimInv'
  <2>1. SpimCtl' /\ ctl'.addr = NoAddr
    <3>1. ctl' = [addr |-> NoAddr, dirty |-> FALSE]
      BY <1>1, <1>4 DEF spimFields
    <3>2. QED
      BY <3>1 DEF SpimCtl
  <2>2. buf' \in [0..SectorSz - 1 -> Bit]
    BY <1>1, <1>4 DEF SpimInv, Types
  <2>3. QED
    BY <1>1, <1>4, <2>1, <2>2, SpimDropped
<1>5. QED
  BY <1>2, <1>3, <1>4

(* Every step keeps the invariant of the driver that takes it.              *)
LEMMA FlashStep == FlashInv /\ [flashNext]_flashVars => FlashInv'
<1> SUFFICES ASSUME FlashInv, [flashNext]_flashVars PROVE FlashInv'
  OBVIOUS
<1>1. CASE UNCHANGED flashVars
  BY <1>1 DEF flashVars, norVars, FlashInv, ImxrtInv, ImxrtCtl, imxrtPending, ZynqInv, ZynqTypes,
              ZynqCtl, Programmable, zynqPending, zynqUnbuffered, zynqAt, SpimInv, SpimCtl,
              StoredElsewhere, Held, spimPending, Types, JobOK, Backed, Synced
<1>2. CASE flashNext
  <2>1. driver' = driver /\ driver \in {"imxrt", "zynq", "spimctrl", "ftmctrl"}
    BY <1>2 DEF flashNext, FlashInv
  <2>2. CASE driver = "imxrt"
    <3>1. (lapses = {} /\ imxrtNext) \/ norRefresh(imxrtFields)
      BY <1>2, <2>2 DEF flashNext, driverNext
    <3>2. QED
      BY <2>1, <2>2, <3>1, ImxrtStep, Renewed DEF FlashInv
  <2>3. CASE driver = "zynq"
    <3>1. (lapses = {} /\ zynqNext) \/ norRefresh(zynqFields)
      BY <1>2, <2>3 DEF flashNext, driverNext
    <3>2. QED
      BY <2>1, <2>3, <3>1, ZynqStep, Renewed DEF FlashInv, TwoRegions
  <2>4. CASE driver \in {"spimctrl", "ftmctrl"}
    <3>1. spimNext \/ ftmNext \/ norRefresh(spimFields)
      BY <1>2, <2>4 DEF flashNext, driverNext
    <3>2. QED
      BY <2>1, <2>4, <3>1, SpimStep, Renewed DEF FlashInv
  <2>5. QED
    BY <2>1, <2>2, <2>3, <2>4
<1>3. QED
  BY <1>1, <1>2

(* The invariants of the four drivers hold.                                 *)
LEMMA FlashInvariant == FlashSpec => []FlashInv
<1>1. flashInit => FlashInv
  BY Fresh DEF flashInit, FlashInv
<1>2. QED
  BY <1>1, FlashStep, PTL DEF FlashSpec

(* The Zynq driver is on a flash it can find its way in.                    *)
Findable == driver = "zynq" => TwoRegions

(* Every byte written is in the array or in the buffer of the pending       *)
(* sector, and no other byte has changed, for every driver and geometry:    *)
(* through partial writes, failing commands and power loss, as long as the  *)
(* caller does none of what WriteBack lists as lapses.                      *)
THEOREM WrittenBytesKept == FlashSpec => [](Findable => WriteBack)
<1>1. FlashInv => (Findable => WriteBack)
  <2> SUFFICES ASSUME FlashInv, Findable, lapses = {}
               PROVE  \A a \in Cell : want[a] = IF a \in pending THEN buf[a - bufferStart] ELSE cells[a]
    BY DEF WriteBack
  <2>1. CASE driver = "imxrt"
    BY <2>1 DEF FlashInv, ImxrtInv, Backed, pending, bufferStart
  <2>2. CASE driver = "zynq"
    BY <2>2 DEF FlashInv, Findable, ZynqInv, Backed, pending, bufferStart, zynqAt
  <2>3. CASE driver \in {"spimctrl", "ftmctrl"}
    <3>1. pending = spimPending /\ bufferStart = ctl.addr /\ SpimInv
      BY <2>3 DEF FlashInv, pending, bufferStart
    <3>2. QED
      BY <3>1 DEF SpimInv, StoredElsewhere, Held, spimPending
  <2>4. QED
    BY <2>1, <2>2, <2>3 DEF FlashInv
<1>2. QED
  BY <1>1, FlashInvariant, PTL

(* After devs_sync has succeeded, nothing that was written is in RAM only,  *)
(* but for the lapses of WriteBack: a second write to a sector just         *)
(* synchronised on imxrt, a write after a sync that failed half-way on zynq *)
(* and the others.                                                          *)
THEOREM SyncedBytesStored == FlashSpec => [](Findable => SyncStores)
<1>1. FlashInv => (Findable => SyncStores)
  BY DEF FlashInv, Findable, SyncStores, ImxrtInv, ZynqInv, SpimInv, Synced
<1>2. QED
  BY <1>1, FlashInvariant, PTL

(* Between calls devs_read returns what was written, but for the sector     *)
(* still pending where the driver reads past its buffer.                    *)
THEOREM ReadsReturnWritten == FlashSpec => [](Findable => ReadsWritten)
<1>1. ASSUME FlashInv, Findable, lapses = {}, NEW r \in Ranges
      PROVE  LET inside == sectorStart(r[1]) = ctl.addr
             IN CASE driver = "imxrt"    -> fresh(r[1], imxrtRead(r[1], r[2]), pending)
                  [] driver = "zynq"     -> fresh(r[1], zynqRead(r[1], r[2]), pending)
                  [] driver = "spimctrl" -> fresh(r[1], spimRead(r[1], r[2]), IF inside THEN {} ELSE pending)
                  [] driver = "ftmctrl"  ->
                       \A d \in ftmRead(r[1], r[2]) :
                         fresh(r[1], d, IF inside THEN Cell \ sectorCells(ctl.addr, SectorSz) ELSE pending)
  <2> DEFINE offs == r[1]
             len == r[2]
             inside == sectorStart(offs) = ctl.addr
  <2>1. offs \in Cell /\ offs \in Nat /\ len \in Nat \ {0} /\ offs + len <= TotalSz
    BY RangeInside
  <2> HIDE DEF offs, len
  <2>2. \A i \in 0..len - 1 : offs + i \in Cell
    BY <2>1, NorAssumption DEF Cell
  <2>3. ASSUME NEW p, \A a \in Cell : a \notin p => cells[a] = want[a]
        PROVE  fresh(offs, nor_readData(cells, offs, len), p)
    BY <2>2, <2>3 DEF fresh, nor_readData
  <2>4. CASE driver = "imxrt"
    <3>1. pending = imxrtPending /\ \A a \in Cell : a \notin imxrtPending => cells[a] = want[a]
      BY <1>1, <2>4 DEF FlashInv, ImxrtInv, Backed, pending
    <3>2. fresh(offs, imxrtRead(offs, len), pending)
      BY <2>3, <3>1 DEF imxrtRead
    <3>3. QED
      BY <2>4, <3>2 DEF offs, len
  <2>5. CASE driver = "zynq"
    <3>1. pending = zynqPending /\ \A a \in Cell : a \notin zynqPending => cells[a] = want[a]
      BY <1>1, <2>5 DEF FlashInv, Findable, ZynqInv, Backed, pending
    <3>2. fresh(offs, zynqRead(offs, len), pending)
      BY <2>3, <3>1 DEF zynqRead
    <3>3. QED
      BY <2>5, <3>2 DEF offs, len
  <2>6. CASE driver \in {"spimctrl", "ftmctrl"}
    <3>1. SpimInv /\ pending = spimPending /\ \A a \in Cell : a \notin spimPending => cells[a] = want[a]
      BY <1>1, <2>6 DEF FlashInv, SpimInv, StoredElsewhere, pending
    <3>2. buf \in [0..SectorSz - 1 -> Bit] /\ SectorSz \in Nat \ {0}
      BY <3>1, NorAssumption DEF SpimInv, Types
    <3>3. ASSUME inside
          PROVE  /\ ctl.addr \in Nat /\ ctl.addr <= offs /\ offs < ctl.addr + SectorSz
                 /\ \A a \in Cell : a \in sectorCells(ctl.addr, SectorSz) => buf[a - ctl.addr] = want[a]
                 /\ \A a \in Cell : a \notin sectorCells(ctl.addr, SectorSz) => cells[a] = want[a]
      <4>1. ctl.addr \in Cell
        BY <2>1, <3>3, SectorInside
      <4>2. ctl.addr # NoAddr
        BY <4>1, NoSector, NorAssumption DEF Cell
      <4>3. QED
        BY <2>1, <3>1, <3>3, <4>2, SectorBounds DEF SpimInv, Held, spimPending
    <3>4. ASSUME NEW i \in 0..len - 1, inside
          PROVE  /\ i < ctl.addr + SectorSz - offs <=> offs + i \in sectorCells(ctl.addr, SectorSz)
                 /\ offs - ctl.addr + i = (offs + i) - ctl.addr
                 /\ offs + i \in sectorCells(ctl.addr, SectorSz) <=> offs - ctl.addr + i \in DOMAIN buf
      <4>1. i \in Nat /\ offs \in Nat /\ ctl.addr \in Nat /\ ctl.addr <= offs /\ SectorSz \in Nat
        BY <2>1, <3>2, <3>3, <3>4
      <4>2. DOMAIN buf = 0..SectorSz - 1
        BY <3>2
      <4>3. QED
        BY ONLY <4>1, <4>2 DEF sectorCells
    <3>5. CASE ~inside
      <4>1. fresh(offs, nor_readData(cells, offs, len), pending)
        BY <2>3, <3>1
      <4>2. ftmRead(offs, len) = {nor_readData(cells, offs, len)}
        BY <3>5 DEF ftmRead
      <4>3. spimRead(offs, len) = nor_readData(cells, offs, len)
        BY <2>1, <3>5 DEF spimRead, nor_readData
      <4>4. QED
        BY <2>6, <3>5, <4>1, <4>2, <4>3 DEF offs, len
    <3>6. CASE inside /\ driver = "spimctrl"
      <4> DEFINE d == spimRead(offs, len)
                 fromBuf == norLeast(ctl.addr + SectorSz - offs, len)
      <4>1. d = [i \in 0..len - 1 |-> IF i < fromBuf THEN buf[offs - ctl.addr + i] ELSE cells[offs + i]]
        BY <3>6 DEF spimRead
      <4>2. ASSUME NEW i \in 0..len - 1 PROVE i < fromBuf <=> i < ctl.addr + SectorSz - offs
        BY <2>1, <3>2, <3>3, <3>6 DEF norLeast
      <4> HIDE DEF d, fromBuf
      <4>3. ASSUME NEW i \in 0..len - 1 PROVE d[i] = want[offs + i]
        BY <2>2, <3>3, <3>4, <3>6, <4>1, <4>2
      <4>4. fresh(offs, d, {})
        BY <4>1, <4>3 DEF fresh
      <4>5. QED
        BY <3>6, <4>4 DEF d, offs, len
    <3>7. CASE inside /\ driver = "ftmctrl"
      <4>1. ASSUME NEW d \in ftmRead(offs, len), NEW i \in 0..len - 1
            PROVE  DOMAIN d = 0..len - 1 /\
                   (offs + i \in Cell \ sectorCells(ctl.addr, SectorSz) \/ d[i] = want[offs + i])
        <5>1. /\ d \in [0..len - 1 -> Bit]
              /\ \A j \in 0..len - 1 :
                   offs - ctl.addr + j \in DOMAIN buf => d[j] = buf[offs - ctl.addr + j]
          BY <3>7 DEF ftmRead
        <5>2. QED
          BY <2>2, <3>3, <3>4, <3>7, <5>1
      <4>2. ASSUME NEW d \in ftmRead(offs, len)
            PROVE  fresh(offs, d, Cell \ sectorCells(ctl.addr, SectorSz))
        <5>1. 0 \in 0..len - 1
          BY <2>1
        <5>2. DOMAIN d = 0..len - 1
          BY <4>1, <5>1
        <5>3. QED
          BY <4>1, <5>2 DEF fresh
      <4>3. QED
        BY <3>7, <4>2 DEF offs, len
    <3>8. QED
      BY <2>6, <3>5, <3>6, <3>7
  <2>7. QED
    BY <1>1, <2>4, <2>5, <2>6 DEF FlashInv
<1>2. FlashInv => (Findable => ReadsWritten)
  BY <1>1 DEF ReadsWritten
<1>3. QED
  BY <1>2, FlashInvariant, PTL
=============================================================================
