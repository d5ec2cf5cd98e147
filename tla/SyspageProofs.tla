--------------------------- MODULE SyspageProofs ---------------------------
(****************************************************************************)
(* Proofs about Syspage, by induction over the steps of syspage.c, in three  *)
(* parts: the maps stay disjoint and their entries sorted; nothing in the    *)
(* heap is shared, changed or dropped; and the entries of a map that had     *)
(* room for them are disjoint and inside it.                                 *)
(****************************************************************************)
EXTENDS Syspage, TLAPS, WellFoundedInduction

(* A non-empty set of numbers has a least element.                           *)
LEMMA LeastNat ==
  ASSUME NEW S \in SUBSET Nat, S # {}
  PROVE  \E n \in S : \A k \in S : n <= k
<1>1. PICK n \in S : \A k \in S : <<k, n>> \notin OpToRel(<, Nat)
  BY NatLessThanWellFounded, WFMin, Zenon
<1>2. \A k \in S : ~(k < n)
  BY <1>1, Zenon DEF OpToRel
<1>3. QED
  BY <1>2

(* Among the elements of a non-empty set of numbers there is a first one at  *)
(* which f is smallest: the choices of the best gap and of the next area of  *)
(* hal are well defined.                                                     *)
LEMMA ArgMin ==
  ASSUME NEW S \in SUBSET Nat, S # {}, NEW f \in [S -> Nat]
  PROVE  \E i \in S : \A k \in S : f[i] < f[k] \/ (f[i] = f[k] /\ i <= k)
<1> DEFINE vals == {f[i] : i \in S}
<1>1. vals \in SUBSET Nat /\ vals # {}
  OBVIOUS
<1>2. PICK v \in vals : \A w \in vals : v <= w
  BY <1>1, LeastNat, Zenon
<1> DEFINE least == {i \in S : f[i] = v}
<1>3. least \in SUBSET Nat /\ least # {}
  BY <1>2
<1>4. PICK i \in least : \A k \in least : i <= k
  BY <1>3, LeastNat, Zenon
<1>5. ASSUME NEW k \in S
      PROVE  f[i] < f[k] \/ (f[i] = f[k] /\ i <= k)
  <2>1. f[i] = v /\ v <= f[k] /\ f[i] \in Nat /\ f[k] \in Nat
    BY <1>2, <1>4
  <2>2. f[k] = v => i <= k
    BY <1>4
  <2>3. QED
    BY <2>1, <2>2
<1>6. i \in S
  OBVIOUS
<1>7. QED
  BY <1>5, <1>6

(* The remainder of a division is below the divisor and not above the        *)
(* dividend.                                                                 *)
LEMMA ModBelow ==
  ASSUME NEW a \in Nat, NEW b \in Nat \ {0}
  PROVE  a % b \in Nat /\ a % b < b /\ a % b <= a
<1>1. a % b \in 0..b-1
  OBVIOUS
<1>2. a % b <= a
  <2>1. CASE a < b
    BY <2>1
  <2>2. CASE a >= b
    BY <2>2, <1>1
  <2>3. QED
    BY <2>1, <2>2
<1>3. QED
  BY <1>1, <1>2

(* ALIGN_ADDR stays in the address space.                                    *)
LEMMA AlignType ==
  ASSUME NEW addr \in Addr, NEW align \in Nat
  PROVE  ALIGN_ADDR(addr, align) \in Addr
<1>1. CASE align = 0
  BY <1>1 DEF ALIGN_ADDR
<1>2. CASE align # 0
  <2> DEFINE up == (addr + align - 1) % AddrSpace
  <2>1. up \in Addr /\ up \in Nat
    BY <1>2, SyspageAssumption DEF Addr
  <2>2. up % align \in Nat /\ up % align <= up
    BY <1>2, <2>1, ModBelow
  <2> DEFINE r == up - (up % align)
  <2>3. ALIGN_ADDR(addr, align) = r % UintSpace
    BY <1>2 DEF ALIGN_ADDR
  <2>4. r \in Nat
    <3> HIDE DEF up
    <3>1. QED
      BY <2>1, <2>2
  <2> HIDE DEF r
  <2>5. r % UintSpace \in Nat /\ r % UintSpace < UintSpace
    BY <2>4, ModBelow, SyspageAssumption
  <2>6. QED
    BY <2>3, <2>5, SyspageAssumption DEF Addr
<1>3. QED
  BY <1>1, <1>2

(* Addresses are numbers.                                                    *)
LEMMA AddrNat == Addr \subseteq Nat
BY SyspageAssumption DEF Addr

(* The bounds of an entry are addresses.                                     *)
LEMMA EntryFields ==
  ASSUME NEW e \in Entry
  PROVE  e.start \in Nat /\ e.end \in Nat /\ e.start \in Addr /\ e.end \in Addr
<1>1. e.start \in Addr /\ e.end \in Addr
  BY DEF Entry
<1>2. QED
  BY <1>1, AddrNat

(* The elements of a list of entries are entries.                            *)
LEMMA EntryStarts ==
  ASSUME NEW entries \in Seq(Entry)
  PROVE  \A i \in 1..Len(entries) : entries[i] \in Entry /\ entries[i].start \in Nat /\ entries[i].end \in Nat
<1>1. \A i \in 1..Len(entries) : entries[i] \in Entry
  OBVIOUS
<1>2. QED
  BY <1>1, EntryFields

(* A list of entries is in ascending order of start.                         *)
SortedEntries(entries) ==
  \A i, j \in DOMAIN entries : i < j => entries[i].start <= entries[j].start

(* The position syspage_sortedInsert walks to exists: the first entry that   *)
(* starts after the new one has only entries before it that do not.          *)
LEMMA InsertPos ==
  ASSUME NEW entries \in Seq(Entry), NEW e \in Entry
  PROVE  /\ insertPos(entries, e) \in 1..Len(entries) + 1
         /\ insertPos(entries, e) <= Len(entries) =>
              e.start < entries[insertPos(entries, e)].start
         /\ \A j \in 1..insertPos(entries, e) - 1 : entries[j].start <= e.start
<1> DEFINE after == {i \in 1..Len(entries) : e.start < entries[i].start}
           ok(i) == /\ i <= Len(entries) => e.start < entries[i].start
                    /\ \A j \in 1..i - 1 : entries[j].start <= e.start
<1>0. /\ Len(entries) \in Nat
      /\ e.start \in Nat
      /\ \A i \in 1..Len(entries) : entries[i].start \in Nat
  BY EntryFields, EntryStarts
<1>1. \E i \in 1..Len(entries) + 1 : ok(i)
  <2>1. CASE after = {}
    <3>1. ok(Len(entries) + 1)
      BY <1>0, <2>1
    <3>2. QED
      BY <3>1, <1>0, SMTT(30)
  <2>2. CASE after # {}
    <3>0. after \in SUBSET Nat
      BY <1>0
    <3>1. PICK i \in after : \A k \in after : i <= k
      BY <2>2, <3>0, LeastNat, Zenon
    <3>2. ok(i) /\ i \in 1..Len(entries) + 1
      BY <3>1, <1>0
    <3>3. QED
      BY <3>2
  <2>3. QED
    BY <2>1, <2>2
<1>2. insertPos(entries, e) = CHOOSE i \in 1..Len(entries) + 1 : ok(i)
  BY DEF insertPos
<1>3. insertPos(entries, e) \in 1..Len(entries) + 1 /\ ok(insertPos(entries, e))
  BY <1>1, <1>2
<1>4. QED
  BY <1>3

(* syspage_sortedInsert keeps a list of entries sorted.                      *)
LEMMA InsertSorted ==
  ASSUME NEW entries \in Seq(Entry), NEW e \in Entry, SortedEntries(entries)
  PROVE  /\ syspage_sortedInsert(entries, e) \in Seq(Entry)
         /\ SortedEntries(syspage_sortedInsert(entries, e))
<1> DEFINE pos == insertPos(entries, e)
           n == Len(entries)
           new == syspage_sortedInsert(entries, e)
<1>1. n \in Nat /\ pos \in 1..n + 1
  BY InsertPos
<1>2. new = [i \in 1..n + 1 |-> IF i < pos THEN entries[i] ELSE IF i = pos THEN e ELSE entries[i - 1]]
  BY DEF syspage_sortedInsert
<1>3. /\ pos <= n => e.start < entries[pos].start
      /\ \A j \in 1..pos - 1 : entries[j].start <= e.start
  BY InsertPos
<1> HIDE DEF pos, new
<1>4. \A i \in 1..n : entries[i] \in Entry
  OBVIOUS
<1>5. new \in [1..n + 1 -> Entry]
  BY <1>1, <1>2, <1>4
<1>6. \A i \in 1..n : entries[i].start \in Nat
  BY EntryStarts
<1>7. e.start \in Nat
  BY EntryFields
<1>8. \A i \in pos..n : e.start <= entries[i].start
  BY <1>1, <1>3, <1>6, <1>7 DEF SortedEntries
<1>9. \A i, j \in 1..n + 1 : i < j => new[i].start <= new[j].start
  <2> SUFFICES ASSUME NEW i \in 1..n + 1, NEW j \in 1..n + 1, i < j
               PROVE  new[i].start <= new[j].start
    OBVIOUS
  <2>1. CASE j < pos
    BY <2>1, <1>1, <1>2, <1>6 DEF SortedEntries
  <2>2. CASE j = pos
    BY <2>2, <1>1, <1>2, <1>3, <1>6
  <2>3. CASE j > pos /\ i < pos
    <3>1. new[i] = entries[i] /\ new[j] = entries[j - 1] /\ i <= j - 1 /\ j - 1 \in 1..n /\ i \in 1..n
      BY <2>3, <1>1, <1>2
    <3>2. QED
      BY <3>1, <1>6 DEF SortedEntries
  <2>4. CASE j > pos /\ i = pos
    <3>1. new[i] = e /\ new[j] = entries[j - 1] /\ j - 1 \in pos..n
      BY <2>4, <1>1, <1>2
    <3>2. QED
      BY <3>1, <1>8
  <2>5. CASE j > pos /\ i > pos
    <3>1. new[i] = entries[i - 1] /\ new[j] = entries[j - 1] /\ i - 1 < j - 1 /\ j - 1 \in 1..n /\ i - 1 \in 1..n
      BY <2>5, <1>1, <1>2
    <3>2. QED
      BY <3>1, <1>6 DEF SortedEntries
  <2>6. QED
    BY <2>1, <2>2, <2>3, <2>4, <2>5, <1>1
<1>10. QED
  BY <1>1, <1>5, <1>9 DEF SortedEntries, new

(* syspage_mapGet returns a map or 0.                                        *)
LEMMA MapGetType ==
  ASSUME TypeOK, NEW name
  PROVE  syspage_mapGet(name) \in DOMAIN maps \cup {0}
<1> DEFINE named == {m \in DOMAIN maps : maps[m].name = name}
<1>1. CASE named = {}
  BY <1>1 DEF syspage_mapGet
<1>2. CASE named # {}
  <2>1. named \subseteq Nat
    BY DEF TypeOK
  <2>2. PICK m \in named : \A k \in named : m <= k
    BY <1>2, <2>1, LeastNat
  <2>3. \E k \in DOMAIN maps : maps[k].name = name /\ \A j \in 1..k - 1 : maps[j].name # name
    BY <2>2 DEF TypeOK
  <2>4. QED
    BY <2>3 DEF syspage_mapGet
<1>3. QED
  BY <1>1, <1>2

(* What mapAround returns contains the area asked for.                       *)
LEMMA MapAroundType ==
  ASSUME TypeOK, NEW start, NEW size
  PROVE  /\ mapAround(start, size) \in DOMAIN maps \cup {0}
         /\ LET m == mapAround(start, size)
            IN m # 0 => maps[m].start <= start /\ maps[m].end >= (start + size) % AddrSpace
<1> DEFINE around(m) == maps[m].start <= start /\ maps[m].end >= (start + size) % AddrSpace
           cand == {m \in DOMAIN maps : around(m)}
<1>1. CASE cand = {}
  BY <1>1 DEF mapAround
<1>2. CASE cand # {}
  <2>1. cand \subseteq Nat
    BY DEF TypeOK
  <2>2. PICK m \in cand : \A k \in cand : m <= k
    BY <1>2, <2>1, LeastNat
  <2>3. \E k \in DOMAIN maps : around(k) /\ \A j \in 1..k - 1 : ~around(j)
    <3> HIDE DEF around
    <3>1. QED
      BY <2>2 DEF TypeOK
  <2>4. QED
    BY <2>3 DEF mapAround
<1>3. QED
  BY <1>1, <1>2

(* The fields of a map have their types.                                     *)
LEMMA MapFields ==
  ASSUME NEW map \in Map
  PROVE  /\ map.start \in Addr /\ map.end \in Addr
         /\ map.entries \in Seq(Entry) /\ Len(map.entries) \in Nat
         /\ map.start \in Nat /\ map.end \in Nat
<1>1. map.start \in Addr /\ map.end \in Addr /\ map.entries \in Seq(Entry)
  BY DEF Map
<1>2. Len(map.entries) \in Nat
  BY <1>1
<1>3. map.start \in Nat /\ map.end \in Nat
  BY <1>1, AddrNat
<1>4. QED
  BY <1>1, <1>2, <1>3

(* The start and the size of a gap are numbers.                              *)
LEMMA GapType ==
  ASSUME NEW map \in Map, NEW align \in Nat, NEW i \in 1..Len(map.entries) + 1
  PROVE  gapStart(map, i, align) \in Addr /\ gapSize(map, i, align) \in Nat
<1>1. (IF i = 1 THEN map.start ELSE map.entries[i - 1].end) \in Addr
  <2>1. CASE i = 1
    BY <2>1, MapFields
  <2>2. CASE i # 1
    <3>1. i - 1 \in 1..Len(map.entries)
      BY <2>2, MapFields
    <3>2. QED
      BY <2>2, <3>1, MapFields, EntryStarts, EntryFields
  <2>3. QED
    BY <2>1, <2>2
<1>2. gapStart(map, i, align) \in Addr
  BY <1>1, AlignType DEF gapStart
<1> DEFINE next == IF i <= Len(map.entries) THEN map.entries[i].start ELSE map.end
           g == gapStart(map, i, align)
<1>3. next \in Nat
  BY MapFields, EntryStarts
<1>4. g \in Nat /\ g < AddrSpace
  BY <1>2, SyspageAssumption DEF Addr
<1>5. gapSize(map, i, align) = (next + AddrSpace - g) % AddrSpace
  BY DEF gapSize
<1> HIDE DEF next, g
<1>6. next + AddrSpace - g \in Nat
  BY <1>3, <1>4, SyspageAssumption
<1>7. (next + AddrSpace - g) % AddrSpace \in Nat
  BY <1>6, ModBelow, SyspageAssumption
<1>8. QED
  BY <1>2, <1>5, <1>7

(* For a map with entries syspage_bestFit settles on the smallest of the     *)
(* gaps that passed its test, when there is one.                             *)
LEMMA BestFitChoice ==
  ASSUME NEW map \in Map, NEW size \in Nat, NEW align \in Nat, map.entries # <<>>,
         \E k \in 1..Len(map.entries) + 1 : gapFits(map, k, size, align)
  PROVE  \E i \in 1..Len(map.entries) + 1 :
           /\ gapFits(map, i, size, align)
           /\ \A k \in 1..Len(map.entries) + 1 :
                gapFits(map, k, size, align) => gapSize(map, i, align) <= gapSize(map, k, align)
           /\ syspage_bestFit(map, size, align) =
                IF gapStart(map, i, align) = Anywhere THEN None ELSE gapStart(map, i, align)
<1> DEFINE fit == {i \in 1..Len(map.entries) + 1 : gapFits(map, i, size, align)}
           sz(i) == gapSize(map, i, align)
           better(i, k) == sz(i) < sz(k) \/ (sz(i) = sz(k) /\ i <= k)
           best == CHOOSE i \in fit : \A k \in fit : better(i, k)
<1>1. syspage_bestFit(map, size, align) =
        IF fit = {} THEN None
        ELSE IF gapStart(map, best, align) = Anywhere THEN None
        ELSE gapStart(map, best, align)
  BY DEF syspage_bestFit
<1>2. fit # {}
  OBVIOUS
<1>3. \A i \in fit : sz(i) \in Nat /\ i \in Nat
  BY GapType, MapFields
<1>4. \E i \in fit : \A k \in fit : better(i, k)
  <2> HIDE DEF fit, sz
  <2> DEFINE f == [i \in fit |-> sz(i)]
  <2>1. fit \in SUBSET Nat /\ f \in [fit -> Nat]
    BY <1>3
  <2>2. \E i \in fit : \A k \in fit : f[i] < f[k] \/ (f[i] = f[k] /\ i <= k)
    <3> HIDE DEF f
    <3>1. QED
      BY <1>2, <2>1, ArgMin
  <2>3. QED
    BY <2>2
<1>5. best \in fit /\ \A k \in fit : better(best, k)
  <2> HIDE DEF fit, better
  <2>1. QED
    BY <1>4
<1>6. \A k \in fit : sz(best) <= sz(k)
  <2> SUFFICES ASSUME NEW k \in fit PROVE sz(best) <= sz(k)
    OBVIOUS
  <2>1. sz(best) \in Nat /\ sz(k) \in Nat
    BY <1>3, <1>5, Zenon
  <2>2. sz(best) < sz(k) \/ sz(best) = sz(k)
    BY <1>5, Zenon
  <2> HIDE DEF fit, sz, best
  <2>3. QED
    BY <2>1, <2>2
<1>7. QED
  BY <1>1, <1>2, <1>5, <1>6

(* What it returns, if not None, is the start of that gap.                   *)
LEMMA BestFitGap ==
  ASSUME NEW map \in Map, NEW size \in Nat, NEW align \in Nat,
         map.entries # <<>>, syspage_bestFit(map, size, align) # None
  PROVE  \E i \in 1..Len(map.entries) + 1 :
           /\ gapFits(map, i, size, align)
           /\ syspage_bestFit(map, size, align) = gapStart(map, i, align)
<1>1. \E k \in 1..Len(map.entries) + 1 : gapFits(map, k, size, align)
  BY DEF syspage_bestFit
<1>2. QED
  BY <1>1, BestFitChoice

(* syspage_bestFit returns an address or None.                               *)
LEMMA BestFitType ==
  ASSUME NEW map \in Map, NEW size \in Nat, NEW align \in Nat
  PROVE  syspage_bestFit(map, size, align) \in Addr \cup {None}
<1>1. CASE map.entries = <<>>
  <2>1. 1 \in 1..Len(map.entries) + 1
    BY MapFields
  <2>2. QED
    BY <1>1, <2>1, GapType DEF syspage_bestFit
<1>2. CASE map.entries # <<>> /\ syspage_bestFit(map, size, align) # None
  BY <1>2, BestFitGap, GapType
<1>3. QED
  BY <1>1, <1>2

(* A fixed start is an address or None.                                      *)
LEMMA FixedStartType ==
  ASSUME NEW map \in Map, NEW mapName, NEW start \in Addr, NEW size \in Nat, NEW align \in Nat
  PROVE  fixedStart(map, mapName, start, size, align) \in Addr \cup {None}
<1>1. (map.start + start) % AddrSpace \in Addr
  BY MapFields, AddrNat, SyspageAssumption DEF Addr
<1>2. (IF mapName = NULL THEN start ELSE (map.start + start) % AddrSpace) \in Addr
  BY <1>1
<1>3. ALIGN_ADDR(IF mapName = NULL THEN start ELSE (map.start + start) % AddrSpace, align) \in Addr
  BY <1>2, AlignType
<1>4. QED
  BY <1>3 DEF fixedStart

(* Whether a map can grant a request is a truth value.                       *)
LEMMA GrantableType ==
  ASSUME NEW map, NEW mapName, NEW start, NEW size, NEW align
  PROVE  grantable(map, mapName, start, size, align) \in BOOLEAN
BY DEF grantable

(* syspage_entryAdd finds a start only in a map that exists.                 *)
LEMMA EntryStartType ==
  ASSUME TypeOK, NEW mapName, NEW start \in Addr, NEW size \in Nat, NEW align \in Nat
  PROVE  /\ entryStart(mapName, start, size, align) \in Addr \cup {None}
         /\ entryStart(mapName, start, size, align) # None =>
              entryMap(mapName, start, size) \in DOMAIN maps
<1>1. entryMap(mapName, start, size) \in DOMAIN maps \cup {0}
  BY MapGetType, MapAroundType DEF entryMap
<1>2. CASE entryMap(mapName, start, size) = 0
  BY <1>2 DEF entryStart
<1>3. CASE entryMap(mapName, start, size) \in DOMAIN maps
  <2>1. maps[entryMap(mapName, start, size)] \in Map
    BY <1>3 DEF TypeOK
  <2>2. entryMap(mapName, start, size) # 0
    BY <1>3 DEF TypeOK
  <2>3. QED
    BY <1>3, <2>1, <2>2, BestFitType, FixedStartType DEF entryStart
<1>4. QED
  BY <1>1, <1>2, <1>3

(* hal_memoryGetNextEntry returns a non-empty part of one of the areas of    *)
(* hal, inside the range asked about.                                        *)
LEMMA HalEntry ==
  ASSUME NEW start \in Addr, NEW end \in Addr, start <= end, overlapped(start, end) # {}
  PROVE  LET e == hal_memoryGetNextEntry(start, end)
         IN /\ \E i \in DOMAIN HalRegions :
                 /\ e = hal_getMinOverlappedRange(i, start, end)
                 /\ e.start = start \/ e.start = HalRegions[i].start
                 /\ e.end = end \/ e.end = HalRegions[i].end
            /\ e.start \in Addr /\ e.end \in Addr /\ e.type \in {"reserved", "temp"}
            /\ start <= e.start /\ e.start < e.end /\ e.end <= end
<1> DEFINE over == overlapped(start, end)
           clip(i) == hal_getMinOverlappedRange(i, start, end)
           first(i, k) == clip(i).start < clip(k).start \/ (clip(i).start = clip(k).start /\ i <= k)
<1>1. \A i \in DOMAIN HalRegions :
         HalRegions[i] \in [start : Addr, end : Addr, type : {"reserved", "temp"}]
  <2> DEFINE R == [start : Addr, end : Addr, type : {"reserved", "temp"}]
  <2>1. HalRegions \in Seq(R)
    BY SyspageAssumption
  <2> HIDE DEF R
  <2>2. \A i \in DOMAIN HalRegions : HalRegions[i] \in R
    BY <2>1
  <2>3. QED
    BY <2>2 DEF R
<1>2. over \subseteq DOMAIN HalRegions /\ over \in SUBSET Nat
  <2>1. over \subseteq DOMAIN HalRegions
    BY DEF overlapped
  <2>2. DOMAIN HalRegions \subseteq Nat
    BY SyspageAssumption
  <2>3. QED
    BY <2>1, <2>2
<1>3. \A i \in over : /\ HalRegions[i].start < HalRegions[i].end
                        /\ start < HalRegions[i].end /\ end > HalRegions[i].start
                        /\ start # end
  BY DEF overlapped, overlaps
<1>4. \A i \in over : /\ clip(i).start = (IF start > HalRegions[i].start THEN start ELSE HalRegions[i].start)
                        /\ clip(i).end = (IF end < HalRegions[i].end THEN end ELSE HalRegions[i].end)
                        /\ clip(i).type = HalRegions[i].type
  BY DEF hal_getMinOverlappedRange
<1>5. ASSUME NEW i \in over
      PROVE  /\ clip(i).start = start \/ clip(i).start = HalRegions[i].start
             /\ clip(i).end = end \/ clip(i).end = HalRegions[i].end
             /\ clip(i).start \in Addr /\ clip(i).end \in Addr
             /\ clip(i).type \in {"reserved", "temp"}
             /\ start <= clip(i).start /\ clip(i).start < clip(i).end /\ clip(i).end <= end
  <2>1. HalRegions[i].start \in Addr /\ HalRegions[i].end \in Addr /\ HalRegions[i].type \in {"reserved", "temp"}
    BY <1>1, <1>2
  <2>2. start \in Nat /\ end \in Nat /\ HalRegions[i].start \in Nat /\ HalRegions[i].end \in Nat
    BY <2>1, AddrNat
  <2> HIDE DEF clip
  <2>3. QED
    BY <1>3, <1>4, <2>1, <2>2
<1>6. \E i \in over : \A k \in over : first(i, k)
  <2> DEFINE f == [i \in over |-> clip(i).start]
  <2>1. f \in [over -> Nat]
    <3> HIDE DEF clip, over
    <3>1. QED
      BY <1>5, AddrNat
  <2>2. \E i \in over : \A k \in over : f[i] < f[k] \/ (f[i] = f[k] /\ i <= k)
    <3> HIDE DEF f, over
    <3>1. over # {}
      BY DEF over
    <3>2. QED
      BY <1>2, <2>1, <3>1, ArgMin
  <2>3. QED
    BY <2>2
<1> DEFINE best == CHOOSE i \in over : \A k \in over : first(i, k)
<1>7. best \in over
  <2> HIDE DEF over, first
  <2>1. QED
    BY <1>6
<1>8. hal_memoryGetNextEntry(start, end) = clip(best)
  BY DEF hal_memoryGetNextEntry
<1> HIDE DEF best, clip, over
<1>9. best \in DOMAIN HalRegions /\ clip(best) = hal_getMinOverlappedRange(best, start, end)
  BY <1>2, <1>7 DEF clip
<1>10. QED
  BY <1>5, <1>7, <1>8, <1>9

(* The loop of syspage_mapAdd stays inside the map it has linked.            *)
CursorInMap ==
  /\ \A m \in DOMAIN maps : maps[m].start < maps[m].end
  /\ cursor # None => maps[last].start <= cursor /\ cursor <= maps[last].end

(* The inductive invariant.                                                  *)
Inv == TypeOK /\ EntriesSorted /\ MapsDisjoint /\ CursorInMap

(* The top of the heap stays a number.                                       *)
LEMMA NewTopType ==
  ASSUME NEW top \in Nat, NEW size \in Nat
  PROVE  newTop(top, size) \in Nat
<1> DEFINE n == top + size + Word - 1
<1>1. n \in Nat /\ Word \in Nat \ {0}
  BY SyspageAssumption
<1>2. newTop(top, size) = n - (n % Word)
  BY DEF newTop, heapAlign
<1> HIDE DEF n
<1>3. QED
  BY <1>1, <1>2, ModBelow

(* The sizes of the structures are numbers.                                  *)
LEMMA SizesNat ==
  /\ SizeSyspage \in Nat /\ SizeMap \in Nat /\ SizeName \in Nat /\ SizeEntry \in Nat
  /\ SizeProg \in Nat /\ SizeArgv \in Nat /\ Word \in Nat /\ SizePage \in Nat
BY SyspageAssumption

(* Inserting one entry in one map keeps the maps well typed, sorted and      *)
(* disjoint.                                                                 *)
LEMMA AddEntry ==
  ASSUME Inv, NEW m \in DOMAIN maps, NEW e \in Entry,
         maps' = [maps EXCEPT ![m].entries = syspage_sortedInsert(@, e)]
  PROVE  /\ maps' \in Seq(Map) /\ Len(maps') = Len(maps) /\ DOMAIN maps' = DOMAIN maps
         /\ \A k \in DOMAIN maps : /\ maps'[k].start = maps[k].start
                                   /\ maps'[k].end = maps[k].end
                                   /\ maps'[k].name = maps[k].name
         /\ EntriesSorted' /\ MapsDisjoint'
<1> DEFINE new == syspage_sortedInsert(maps[m].entries, e)
<1>1. \A k \in DOMAIN maps : maps[k] \in Map
  BY DEF Inv, TypeOK
<1>2. new \in Seq(Entry) /\ SortedEntries(new)
  <2>1. maps[m].entries \in Seq(Entry)
    BY <1>1, MapFields
  <2>2. SortedEntries(maps[m].entries)
    BY DEF Inv, EntriesSorted, SortedEntries
  <2>3. QED
    BY <2>1, <2>2, InsertSorted
<1>3. maps' = [maps EXCEPT ![m] = [maps[m] EXCEPT !.entries = new]]
  OBVIOUS
<1> HIDE DEF new
<1>4. [maps[m] EXCEPT !.entries = new] \in Map
  BY <1>1, <1>2 DEF Map
<1>5. maps' \in Seq(Map) /\ Len(maps') = Len(maps) /\ DOMAIN maps' = DOMAIN maps
  BY <1>3, <1>4 DEF Inv, TypeOK
<1>6. \A k \in DOMAIN maps : /\ maps'[k].start = maps[k].start
                             /\ maps'[k].end = maps[k].end
                             /\ maps'[k].name = maps[k].name
                             /\ maps'[k].entries = IF k = m THEN new ELSE maps[k].entries
  BY <1>1, <1>3 DEF Map, Inv, TypeOK
<1>7. EntriesSorted'
  BY <1>2, <1>5, <1>6 DEF Inv, EntriesSorted, SortedEntries
<1>8. MapsDisjoint'
  BY <1>5, <1>6 DEF Inv, MapsDisjoint, overlaps
<1>9. QED
  BY <1>5, <1>6, <1>7, <1>8

(* The same for the entry syspage_entryAdd builds.                           *)
LEMMA WithEntry ==
  ASSUME Inv, NEW m \in DOMAIN maps, NEW start \in Addr, NEW size \in Nat, NEW proper \in BOOLEAN,
         maps' = withEntry(m, start, size, proper), cursor' = cursor, cursor = None
  PROVE  /\ maps' \in Seq(Map) /\ EntriesSorted' /\ MapsDisjoint' /\ CursorInMap'
<1> DEFINE e == [start |-> start, end |-> (start + size) % AddrSpace, type |-> "allocated", at |-> heapTop,
                 proper |-> proper]
<1>1. (start + size) % AddrSpace \in Addr
  BY AddrNat, SyspageAssumption DEF Addr
<1>2. e \in Entry
  BY <1>1 DEF Entry, Inv, TypeOK
<1>3. maps' = [maps EXCEPT ![m].entries = syspage_sortedInsert(@, e)]
  BY DEF withEntry
<1> HIDE DEF e
<1>4. QED
  BY <1>2, <1>3, AddEntry DEF Inv, CursorInMap

(* syspage_mapAdd up to the loop preserves the invariant: the scan for a     *)
(* clash keeps the maps disjoint.                                            *)
LEMMA MapAddStep ==
  ASSUME Inv, NEW name \in MapNames, NEW range \in MapRanges, NEW attrValid \in BOOLEAN,
         syspage_mapAdd(name, range[1], range[2], attrValid)
  PROVE  Inv'
<1> DEFINE start == range[1]  end == range[2]
<1>1. start \in Addr /\ end \in Addr /\ start < end /\ start # None /\ start <= end
  <2>1. start \in Addr /\ end \in Addr /\ start < end
    BY SyspageAssumption
  <2>2. QED
    BY <2>1, SyspageAssumption DEF Addr, None
<1>2. heapTop' \in Nat
  <2> DEFINE n1 == newTop(heapTop, SizeMap)
             n2 == newTop(n1, SizeName)
  <2>1. heapTop \in Nat
    BY DEF Inv, TypeOK
  <2>2. n1 \in Nat
    BY <2>1, NewTopType, SizesNat
  <2>3. n2 \in Nat
    BY <2>2, NewTopType, SizesNat
  <2>4. heapTop' \in {heapTop, n1, n2}
    BY DEF syspage_mapAdd
  <2>5. QED
    BY <2>1, <2>2, <2>3, <2>4
<1>3. CASE maps' = maps /\ progs' = progs /\ cursor' = cursor
  BY <1>2, <1>3 DEF Inv, TypeOK, EntriesSorted, MapsDisjoint, CursorInMap, last
<1>4. CASE /\ ~clash(name, start, end)
           /\ maps' = Append(maps, [name |-> name, start |-> start, end |-> end,
                                    id |-> mapId, at |-> heapTop, entries |-> <<>>])
           /\ cursor' = start /\ progs' = progs
  <2> DEFINE new == [name |-> name, start |-> start, end |-> end,
                     id |-> mapId, at |-> heapTop, entries |-> <<>>]
  <2>1. mapId \in 0..MapIds - 1
    <3>1. CASE maps = <<>>
      BY <3>1 DEF mapId, MapIds
    <3>2. CASE maps # <<>>
      <4>1. Len(maps) \in DOMAIN maps
        BY <3>2 DEF Inv, TypeOK
      <4>2. maps[Len(maps)] \in Map
        BY <4>1 DEF Inv, TypeOK
      <4>3. maps[Len(maps)].id \in 0..255
        BY <4>2 DEF Map, MapIds
      <4> DEFINE id == maps[Len(maps)].id
      <4>4. mapId = (id + 1) % 256
        BY <3>2 DEF mapId, MapIds
      <4>5. id \in 0..255
        BY <4>3
      <4> HIDE DEF id
      <4>6. (id + 1) % 256 \in 0..255
        BY <4>5
      <4>7. QED
        BY <4>4, <4>6 DEF MapIds
    <3>3. QED
      BY <3>1, <3>2
  <2>2. new \in Map
    BY <1>1, <2>1 DEF Map, Inv, TypeOK
  <2>3. maps' = Append(maps, new)
    BY <1>4
  <2>4. new.name = name /\ new.start = start /\ new.end = end /\ new.entries = <<>>
    OBVIOUS
  <2> HIDE DEF new
  <2>5. /\ maps' \in Seq(Map) /\ Len(maps') = Len(maps) + 1
        /\ maps'[Len(maps) + 1] = new
        /\ \A k \in DOMAIN maps : maps'[k] = maps[k]
        /\ DOMAIN maps' = DOMAIN maps \cup {Len(maps) + 1}
    BY <2>2, <2>3 DEF Inv, TypeOK
  <2>6. TypeOK'
    BY <1>1, <1>2, <1>4, <2>5 DEF Inv, TypeOK
  <2>7. EntriesSorted'
    BY <2>4, <2>5 DEF Inv, EntriesSorted
  <2>8. MapsDisjoint'
    <3>1. \A k \in DOMAIN maps : /\ ~overlaps(maps[k].start, maps[k].end, start, end)
                                 /\ maps[k].name # name
      BY <1>4 DEF clash
    <3>2. \A k \in DOMAIN maps : maps[k].start \in Nat /\ maps[k].end \in Nat
      BY MapFields DEF Inv, TypeOK
    <3>3. start \in Nat /\ end \in Nat
      BY <1>1, AddrNat
    <3>4. QED
      BY <2>4, <2>5, <3>1, <3>2, <3>3 DEF Inv, MapsDisjoint, overlaps
  <2>9. CursorInMap'
    <3>1. last' = Len(maps) + 1 /\ maps'[last'] = new
      BY <2>5 DEF last
    <3>2. \A k \in DOMAIN maps' : maps'[k].start < maps'[k].end
      BY <1>1, <2>4, <2>5 DEF Inv, CursorInMap
    <3>3. new.start <= cursor' /\ cursor' <= new.end
      <4>1. start \in Nat
        BY <1>1, AddrNat
      <4>2. cursor' = start /\ new.start = start /\ new.end = end
        BY <1>4, <2>4
      <4> HIDE DEF start, end
      <4>3. QED
        BY <1>1, <4>1, <4>2
    <3>4. QED
      BY <3>1, <3>2, <3>3 DEF CursorInMap
  <2>10. QED
    BY <2>6, <2>7, <2>8, <2>9 DEF Inv
<1>5. QED
  BY <1>3, <1>4 DEF syspage_mapAdd

(* One iteration of the loop of syspage_mapAdd preserves the invariant.      *)
LEMMA MapAddEntryStep == ASSUME Inv, mapAddEntry PROVE Inv'
<1> DEFINE end == maps[last].end
           e == hal_memoryGetNextEntry(cursor, end)
           ent == [start |-> e.start, end |-> e.end, type |-> e.type, at |-> heapTop,
                   proper |-> TRUE]
<1>1. cursor # None /\ overlapped(cursor, end) # {}
  BY DEF mapAddEntry
<1>2. last \in DOMAIN maps /\ maps[last] \in Map
  BY <1>1 DEF Inv, TypeOK, last
<1>3. cursor \in Addr /\ end \in Addr /\ maps[last].start <= cursor /\ cursor <= end
  BY <1>1, <1>2, MapFields DEF Inv, TypeOK, CursorInMap
<1>4. /\ e.start \in Addr /\ e.end \in Addr /\ e.type \in {"reserved", "temp"}
      /\ cursor <= e.start /\ e.start < e.end /\ e.end <= end
  <2> HIDE DEF end
  <2>1. QED
    BY <1>1, <1>3, HalEntry
<1>5. CASE ~fits(heapTop, SizeEntry)
  BY <1>5 DEF mapAddEntry, Inv, TypeOK, EntriesSorted, MapsDisjoint, CursorInMap, last
<1>6. CASE fits(heapTop, SizeEntry)
  <2>1. /\ heapTop' = newTop(heapTop, SizeEntry)
        /\ maps' = [maps EXCEPT ![last].entries = syspage_sortedInsert(@, ent)]
        /\ cursor' = e.end /\ progs' = progs
    BY <1>6 DEF mapAddEntry
  <2>2. heapTop' \in Nat
    BY <2>1, NewTopType, SizesNat DEF Inv, TypeOK
  <2>3. ent \in Entry
    <3> HIDE DEF e
    <3>1. QED
      BY <1>4 DEF Entry, Inv, TypeOK
  <2> HIDE DEF ent, e
  <2>4. /\ maps' \in Seq(Map) /\ Len(maps') = Len(maps) /\ DOMAIN maps' = DOMAIN maps
        /\ \A k \in DOMAIN maps : /\ maps'[k].start = maps[k].start
                                  /\ maps'[k].end = maps[k].end
        /\ EntriesSorted' /\ MapsDisjoint'
    BY <1>2, <2>1, <2>3, AddEntry
  <2>5. TypeOK'
    BY <1>4, <2>1, <2>2, <2>4 DEF Inv, TypeOK
  <2>6. CursorInMap'
    <3>1. last' = last
      BY <2>4 DEF last
    <3>2. maps[last].start <= e.end
      <4>1. maps[last].start \in Nat /\ cursor \in Nat /\ e.start \in Nat /\ e.end \in Nat
        BY <1>2, <1>3, <1>4, AddrNat, MapFields
      <4>2. QED
        BY <4>1, <1>3, <1>4
    <3>3. QED
      BY <1>2, <1>4, <2>1, <2>4, <3>1, <3>2 DEF Inv, CursorInMap
  <2>7. QED
    BY <2>4, <2>5, <2>6 DEF Inv
<1>7. QED
  BY <1>5, <1>6

(* The end of syspage_mapAdd preserves the invariant.                        *)
LEMMA MapAddDoneStep == ASSUME Inv, mapAddDone PROVE Inv'
BY DEF mapAddDone, Inv, TypeOK, EntriesSorted, MapsDisjoint, CursorInMap, last

(* syspage_entryAdd preserves the invariant.                                 *)
LEMMA EntryAddStep ==
  ASSUME Inv, NEW c \in EntryCalls, syspage_entryAdd(c.mapName, c.start, c.size, c.align)
  PROVE  Inv'
<1> DEFINE m == entryMap(c.mapName, c.start, c.size)
           s == entryStart(c.mapName, c.start, c.size, c.align)
           proper == grantable(maps[m], c.mapName, c.start, c.size, c.align)
<1>0. proper \in BOOLEAN
  BY GrantableType
<1>1. c.start \in Addr /\ c.size \in Nat /\ c.align \in Nat
  <2>1. c \in [mapName : MapNames \cup {NULL}, start : Addr, size : Addr, align : Addr]
    BY SyspageAssumption
  <2>2. QED
    BY <2>1, AddrNat
<1>2. s \in Addr \cup {None} /\ (s # None => m \in DOMAIN maps)
  BY <1>1, EntryStartType DEF Inv
<1>3. cursor = None /\ cursor' = cursor /\ progs' = progs
  BY DEF syspage_entryAdd
<1>4. CASE heapTop' = heapTop /\ maps' = maps
  BY <1>3, <1>4 DEF Inv, TypeOK, EntriesSorted, MapsDisjoint, CursorInMap, last
<1>5. CASE s # None /\ heapTop' = newTop(heapTop, SizeEntry) /\ maps' = withEntry(m, s, c.size, proper)
  <2> HIDE DEF m, s, proper
  <2>1. heapTop' \in Nat
    BY <1>5, NewTopType, SizesNat DEF Inv, TypeOK
  <2>2. maps' \in Seq(Map) /\ EntriesSorted' /\ MapsDisjoint' /\ CursorInMap'
    BY <1>0, <1>1, <1>2, <1>3, <1>5, WithEntry
  <2>3. QED
    BY <1>3, <2>1, <2>2 DEF Inv, TypeOK
<1>6. QED
  BY <1>4, <1>5 DEF syspage_entryAdd

(* syspage_progAdd leaves the top of the heap a number.                      *)
LEMMA ProgTopType ==
  ASSUME NEW top \in Nat, NEW exec \in BOOLEAN
  PROVE  progTop(top, exec) \in Nat
<1>1. argvSize(exec) \in Nat
  BY SizesNat DEF argvSize
<1>2. newTop(top, SizeProg) \in Nat
  BY NewTopType, SizesNat
<1>3. newTop(newTop(top, SizeProg), argvSize(exec)) \in Nat
  BY <1>1, <1>2, NewTopType
<1>4. QED
  BY <1>2, <1>3 DEF progTop

(* syspage_progAdd preserves the invariant.                                  *)
LEMMA ProgAddStep ==
  ASSUME Inv, NEW argv \in Argvs, NEW exec \in BOOLEAN, syspage_progAdd(argv, exec)
  PROVE  Inv'
<1>1. heapTop' \in Nat
  BY ProgTopType DEF syspage_progAdd, Inv, TypeOK
<1>2. prog(argv, exec, heapTop, None, None) \in Prog
  BY DEF prog, Prog, Inv, TypeOK
<1>3. progs' \in Seq(Prog)
  BY <1>2 DEF syspage_progAdd, Inv, TypeOK
<1>4. maps' = maps /\ cursor' = cursor
  BY DEF syspage_progAdd
<1>5. QED
  BY <1>1, <1>3, <1>4 DEF Inv, TypeOK, EntriesSorted, MapsDisjoint, CursorInMap, last

(* syspage_progAllocateAndAdd preserves the invariant.                       *)
LEMMA ProgAllocateAndAddStep ==
  ASSUME Inv, NEW mapName \in MapNames, NEW size \in ProgSizes, NEW argv \in Argvs,
         NEW exec \in BOOLEAN, NEW allowOverwrite \in BOOLEAN,
         syspage_progAllocateAndAdd(mapName, size, argv, exec, allowOverwrite)
  PROVE  Inv'
<1> DEFINE m == syspage_mapGet(mapName)
           s == entryStart(mapName, Anywhere, size, SizePage)
           top == newTop(heapTop, SizeEntry)
           proper == grantable(maps[m], mapName, Anywhere, size, SizePage)
<1>0. proper \in BOOLEAN
  BY GrantableType
<1>1. Anywhere \in Addr /\ size \in Nat /\ SizePage \in Nat
  <2>1. Anywhere \in Addr
    BY SyspageAssumption DEF Anywhere, Addr
  <2>2. QED
    BY <2>1, AddrNat, SyspageAssumption, SizesNat
<1>2. m = entryMap(mapName, Anywhere, size)
  BY SyspageAssumption DEF entryMap
<1>3. s \in Addr \cup {None} /\ (s # None => m \in DOMAIN maps)
  BY <1>1, <1>2, EntryStartType DEF Inv
<1>4. cursor = None /\ cursor' = cursor
  BY DEF syspage_progAllocateAndAdd
<1>5. CASE heapTop' = heapTop /\ maps' = maps /\ progs' = progs
  BY <1>4, <1>5 DEF Inv, TypeOK, EntriesSorted, MapsDisjoint, CursorInMap, last
<1>6. CASE /\ s # None /\ maps' = withEntry(m, s, size, proper) /\ heapTop' = progTop(top, exec)
           /\ \/ progs' = progs
              \/ progs' = Append(progs, prog(argv, exec, top, s, (s + size) % AddrSpace))
  <2> HIDE DEF m, s, proper
  <2>1. top \in Nat
    BY NewTopType, SizesNat DEF Inv, TypeOK
  <2> HIDE DEF top
  <2>2. heapTop' \in Nat
    BY <1>6, <2>1, ProgTopType
  <2>3. maps' \in Seq(Map) /\ EntriesSorted' /\ MapsDisjoint' /\ CursorInMap'
    BY <1>0, <1>1, <1>3, <1>4, <1>6, WithEntry
  <2>4. (s + size) % AddrSpace \in Addr
    <3>1. s \in Nat
      BY <1>3, <1>6, AddrNat
    <3>2. QED
      BY <1>1, <3>1, SyspageAssumption DEF Addr
  <2>5. prog(argv, exec, top, s, (s + size) % AddrSpace) \in Prog
    BY <1>3, <1>6, <2>1, <2>4 DEF prog, Prog
  <2>6. progs' \in Seq(Prog)
    BY <1>6, <2>5 DEF Inv, TypeOK
  <2>7. QED
    BY <1>4, <2>2, <2>3, <2>6 DEF Inv, TypeOK
<1>7. QED
  BY <1>5, <1>6 DEF syspage_progAllocateAndAdd

(* syspage_alloc preserves the invariant.                                    *)
LEMMA AllocStep ==
  ASSUME Inv, NEW size \in {0, SizeArgv}, syspage_alloc(size)
  PROVE  Inv'
<1>1. size \in Nat
  BY SizesNat
<1>2. heapTop' \in Nat
  BY <1>1, NewTopType DEF syspage_alloc, Inv, TypeOK
<1>3. maps' = maps /\ progs' = progs /\ cursor' = cursor
  BY DEF syspage_alloc
<1>4. QED
  BY <1>2, <1>3 DEF Inv, TypeOK, EntriesSorted, MapsDisjoint, CursorInMap, last

(* syspage_init establishes the invariant.                                   *)
LEMMA InvInit == syspage_init => Inv
<1> SUFFICES ASSUME syspage_init PROVE Inv
  OBVIOUS
<1>1. heapTop \in Nat
  <3>1. heapTop = newTop(0, SizeSyspage)
    BY SizesNat DEF syspage_init, newTop
  <3>2. QED
    BY <3>1, NewTopType, SizesNat
<1>2. QED
  BY <1>1 DEF syspage_init, Inv, TypeOK, EntriesSorted, MapsDisjoint, CursorInMap

(* Every step preserves the invariant.                                       *)
LEMMA InvStep == Inv /\ [Next]_vars => Inv'
<1> SUFFICES ASSUME Inv, [Next]_vars PROVE Inv'
  OBVIOUS
<1>1. CASE UNCHANGED vars
  BY <1>1 DEF vars, Inv, TypeOK, EntriesSorted, MapsDisjoint, CursorInMap, last
<1>2. CASE Next
  BY <1>2, MapAddStep, MapAddEntryStep, MapAddDoneStep, EntryAddStep, ProgAddStep,
     ProgAllocateAndAddStep, AllocStep DEF Next
<1>3. QED
  BY <1>1, <1>2

(* In every reachable state of syspage.c, for every heap size, address       *)
(* width, memory layout and sequence of calls, the maps are disjoint and     *)
(* uniquely named, the entries of each map are in ascending order, and all   *)
(* fields have their types, calls that failed half way included.             *)
THEOREM SyspageInvariant == Spec => [](TypeOK /\ EntriesSorted /\ MapsDisjoint)
<1>1. Inv => TypeOK /\ EntriesSorted /\ MapsDisjoint
  BY DEF Inv
<1>2. QED
  BY InvInit, InvStep, <1>1, PTL DEF Spec

(* syspage_sortedInsert leaves the entries of every map in ascending order,  *)
(* whatever order they were added in: the gaps that syspage_bestFit walks    *)
(* are between neighbours.                                                   *)
THEOREM EntriesAscending == Spec => []EntriesSorted
BY SyspageInvariant, PTL

(****************************************************************************)
(* The heap: nothing reachable from it shares heap, nothing linked is ever   *)
(* changed or dropped, and the memory of every program stays held by an      *)
(* entry.                                                                    *)
(****************************************************************************)
(* Aligning never goes below the number aligned.                             *)
LEMMA HeapAlignAbove ==
  ASSUME NEW n \in Nat
  PROVE  heapAlign(n) \in Nat /\ n <= heapAlign(n)
<1> DEFINE y == n + Word - 1
<1>1. Word \in Nat \ {0}
  BY SyspageAssumption
<1>2. y \in Nat
  BY <1>1
<1>3. heapAlign(n) = y - (y % Word)
  BY DEF heapAlign
<1> HIDE DEF y
<1>4. y % Word \in Nat /\ y % Word < Word /\ y % Word <= y
  BY <1>1, <1>2, ModBelow
<1>5. QED
  BY <1>1, <1>2, <1>3, <1>4 DEF y

(* syspage_alloc moves the top of the heap past the block.                   *)
LEMMA NewTopAbove ==
  ASSUME NEW top \in Nat, NEW size \in Nat
  PROVE  newTop(top, size) \in Nat /\ top + size <= newTop(top, size) /\ top <= newTop(top, size)
<1>1. top + size \in Nat
  OBVIOUS
<1>2. newTop(top, size) \in Nat /\ top + size <= newTop(top, size)
  BY <1>1, HeapAlignAbove DEF newTop
<1>3. QED
  BY <1>2

(* Where the blocks allocated in one call end: a map and its name, an entry, *)
(* a program and its argv.                                                   *)
mapEnd(at) == newTop(newTop(at, SizeMap), SizeName)
entryEnd(at) == newTop(at, SizeEntry)
progEnd(at, exec) == newTop(newTop(at, SizeProg), argvSize(exec))

(* They end after they start.                                                *)
LEMMA EndsAbove ==
  ASSUME NEW at \in Nat
  PROVE  /\ mapEnd(at) \in Nat /\ at <= mapEnd(at)
         /\ entryEnd(at) \in Nat /\ at <= entryEnd(at)
         /\ \A exec \in BOOLEAN : progEnd(at, exec) \in Nat /\ at <= progEnd(at, exec)
<1>1. \A exec \in BOOLEAN : argvSize(exec) \in Nat
  BY SizesNat DEF argvSize
<1>2. mapEnd(at) \in Nat /\ at <= mapEnd(at)
  <2>1. newTop(at, SizeMap) \in Nat /\ at <= newTop(at, SizeMap)
    BY NewTopAbove, SizesNat
  <2>2. mapEnd(at) \in Nat /\ newTop(at, SizeMap) <= mapEnd(at)
    BY <2>1, NewTopAbove, SizesNat DEF mapEnd
  <2>3. QED
    BY <2>1, <2>2
<1>3. entryEnd(at) \in Nat /\ at <= entryEnd(at)
  BY NewTopAbove, SizesNat DEF entryEnd
<1>4. ASSUME NEW exec \in BOOLEAN
      PROVE  progEnd(at, exec) \in Nat /\ at <= progEnd(at, exec)
  <2>1. newTop(at, SizeProg) \in Nat /\ at <= newTop(at, SizeProg)
    BY NewTopAbove, SizesNat
  <2>2. progEnd(at, exec) \in Nat /\ newTop(at, SizeProg) <= progEnd(at, exec)
    BY <1>1, <2>1, NewTopAbove DEF progEnd
  <2>3. QED
    BY <2>1, <2>2
<1>5. QED
  BY <1>2, <1>3, <1>4

(* The inductive invariant, of the maps ms, the programs ps and the top of   *)
(* the heap: what each call allocated lies between the syspage and the top,  *)
(* and clear of what every other call allocated.                             *)
apart(s1, e1, s2, e2) == e1 <= s2 \/ e2 <= s1

below(at, end, top) == SizeSyspage <= at /\ end <= top

MapsInHeap(ms, top) ==
  /\ \A m \in DOMAIN ms : below(ms[m].at, mapEnd(ms[m].at), top)
  /\ \A m, n \in DOMAIN ms :
       m # n => apart(ms[m].at, mapEnd(ms[m].at), ms[n].at, mapEnd(ms[n].at))

EntriesInHeap(ms, top) ==
  \A m \in DOMAIN ms : \A i \in DOMAIN ms[m].entries :
    LET a == ms[m].entries[i].at
    IN /\ below(a, entryEnd(a), top)
       /\ \A n \in DOMAIN ms :
            /\ apart(ms[n].at, mapEnd(ms[n].at), a, entryEnd(a))
            /\ \A j \in DOMAIN ms[n].entries :
                 <<m, i>> # <<n, j>> =>
                   apart(a, entryEnd(a), ms[n].entries[j].at, entryEnd(ms[n].entries[j].at))

ProgsInHeap(ms, ps, top) ==
  \A p \in DOMAIN ps :
    LET a == ps[p].at
        end == progEnd(ps[p].at, ps[p].exec)
    IN /\ below(a, end, top)
       /\ \A q \in DOMAIN ps :
            p # q => apart(a, end, ps[q].at, progEnd(ps[q].at, ps[q].exec))
       /\ \A m \in DOMAIN ms :
            /\ apart(ms[m].at, mapEnd(ms[m].at), a, end)
            /\ \A i \in DOMAIN ms[m].entries :
                 apart(ms[m].entries[i].at, entryEnd(ms[m].entries[i].at), a, end)

HeapInv(ms, ps, top) ==
  /\ SizeSyspage <= top /\ top < HeapLimit
  /\ MapsInHeap(ms, top)
  /\ EntriesInHeap(ms, top)
  /\ ProgsInHeap(ms, ps, top)

(* What a list of maps or of programs has allocated starts at numbers.       *)
LEMMA AtNat ==
  ASSUME NEW ms \in Seq(Map), NEW ps \in Seq(Prog)
  PROVE  /\ \A m \in DOMAIN ms : /\ ms[m].at \in Nat /\ mapEnd(ms[m].at) \in Nat
                                 /\ ms[m].at <= mapEnd(ms[m].at)
         /\ \A m \in DOMAIN ms : \A i \in DOMAIN ms[m].entries :
              /\ ms[m].entries[i].at \in Nat /\ entryEnd(ms[m].entries[i].at) \in Nat
              /\ ms[m].entries[i].at <= entryEnd(ms[m].entries[i].at)
         /\ \A p \in DOMAIN ps : /\ ps[p].at \in Nat /\ progEnd(ps[p].at, ps[p].exec) \in Nat
                                 /\ ps[p].at <= progEnd(ps[p].at, ps[p].exec)
<1>1. ASSUME NEW m \in DOMAIN ms
      PROVE  /\ ms[m].at \in Nat
             /\ \A i \in DOMAIN ms[m].entries : ms[m].entries[i].at \in Nat
  <2>1. ms[m].at \in Nat /\ ms[m].entries \in Seq(Entry)
    <3>1. ms[m] \in Map
      OBVIOUS
    <3>2. QED
      BY <3>1 DEF Map
  <2>2. ASSUME NEW i \in DOMAIN ms[m].entries PROVE ms[m].entries[i].at \in Nat
    <3>1. ms[m].entries[i] \in Entry
      BY <2>1
    <3>2. QED
      BY <3>1 DEF Entry
  <2>3. QED
    BY <2>1, <2>2
<1>2. ASSUME NEW p \in DOMAIN ps PROVE ps[p].at \in Nat /\ ps[p].exec \in BOOLEAN
  <2>1. ps[p] \in Prog
    OBVIOUS
  <2>2. QED
    BY <2>1 DEF Prog
<1>3. QED
  BY <1>1, <1>2, EndsAbove

(* The invariant is kept when only the top of the heap moves up.             *)
LEMMA RaiseTop ==
  ASSUME NEW ms \in Seq(Map), NEW ps \in Seq(Prog), NEW top \in Nat, NEW up \in Nat,
         HeapInv(ms, ps, top), top <= up, up < HeapLimit
  PROVE  HeapInv(ms, ps, up)
<1>0. SizeSyspage \in Nat /\ HeapLimit \in Nat
  BY SyspageAssumption
<1>1. MapsInHeap(ms, up)
  BY <1>0, AtNat DEF HeapInv, MapsInHeap, below
<1>2. EntriesInHeap(ms, up)
  BY <1>0, AtNat DEF HeapInv, EntriesInHeap, below
<1>3. ProgsInHeap(ms, ps, up)
  BY <1>0, AtNat DEF HeapInv, ProgsInHeap, below
<1>4. QED
  BY <1>0, <1>1, <1>2, <1>3 DEF HeapInv

(* It is kept when syspage_mapAdd links a map allocated at the top.          *)
LEMMA HeapAddMap ==
  ASSUME NEW ms \in Seq(Map), NEW ps \in Seq(Prog), NEW top \in Nat, NEW new \in Map,
         HeapInv(ms, ps, top), new.at = top, new.entries = <<>>, mapEnd(top) < HeapLimit
  PROVE  HeapInv(Append(ms, new), ps, mapEnd(top))
<1> DEFINE ns == Append(ms, new)
           up == mapEnd(top)
<1>0. /\ SizeSyspage \in Nat /\ HeapLimit \in Nat /\ up \in Nat /\ top <= up
      /\ Len(ms) \in Nat
  BY SyspageAssumption, EndsAbove
<1>1. HeapInv(ms, ps, up)
  BY <1>0, RaiseTop
<1>2. /\ ns \in Seq(Map)
      /\ DOMAIN ns = DOMAIN ms \cup {Len(ms) + 1}
      /\ \A m \in DOMAIN ms : ns[m] = ms[m] /\ m # Len(ms) + 1
      /\ ns[Len(ms) + 1] = new
  OBVIOUS
<1> HIDE DEF ns, up
<1>3. /\ \A m \in DOMAIN ms : mapEnd(ms[m].at) <= top
      /\ \A m \in DOMAIN ms : \A i \in DOMAIN ms[m].entries : entryEnd(ms[m].entries[i].at) <= top
      /\ \A p \in DOMAIN ps : progEnd(ps[p].at, ps[p].exec) <= top
  BY DEF HeapInv, MapsInHeap, EntriesInHeap, ProgsInHeap, below
<1>4. SizeSyspage <= top /\ mapEnd(new.at) = up
  BY DEF HeapInv, up
<1>5. DOMAIN new.entries = {}
  OBVIOUS
<1>6. MapsInHeap(ns, up)
  <2>1. \A m \in DOMAIN ns : below(ns[m].at, mapEnd(ns[m].at), up)
    BY <1>0, <1>1, <1>2, <1>4 DEF HeapInv, MapsInHeap, below
  <2>2. ASSUME NEW m \in DOMAIN ns, NEW n \in DOMAIN ns, m # n
        PROVE  apart(ns[m].at, mapEnd(ns[m].at), ns[n].at, mapEnd(ns[n].at))
    BY <1>1, <1>2, <1>3, <1>4, <2>2 DEF HeapInv, MapsInHeap, apart
  <2>3. QED
    BY <2>1, <2>2 DEF MapsInHeap
<1>7. EntriesInHeap(ns, up)
  <2> SUFFICES ASSUME NEW m \in DOMAIN ns, NEW i \in DOMAIN ns[m].entries
               PROVE  /\ below(ns[m].entries[i].at, entryEnd(ns[m].entries[i].at), up)
                      /\ \A n \in DOMAIN ns :
                           /\ apart(ns[n].at, mapEnd(ns[n].at),
                                    ns[m].entries[i].at, entryEnd(ns[m].entries[i].at))
                           /\ \A j \in DOMAIN ns[n].entries :
                                <<m, i>> # <<n, j>> =>
                                  apart(ns[m].entries[i].at, entryEnd(ns[m].entries[i].at),
                                        ns[n].entries[j].at, entryEnd(ns[n].entries[j].at))
    BY DEF EntriesInHeap
  <2>1. m \in DOMAIN ms /\ ns[m] = ms[m] /\ i \in DOMAIN ms[m].entries
    BY <1>2, <1>5
  <2>2. entryEnd(ms[m].entries[i].at) <= top
    BY <1>3, <2>1
  <2>3. QED
    BY <1>1, <1>2, <1>4, <1>5, <2>1, <2>2 DEF HeapInv, EntriesInHeap, apart
<1>8. ProgsInHeap(ns, ps, up)
  BY <1>1, <1>2, <1>3, <1>4, <1>5 DEF HeapInv, ProgsInHeap, apart
<1>9. QED
  BY <1>0, <1>1, <1>6, <1>7, <1>8 DEF HeapInv, ns, up

(* It is kept when a program allocated at the top is linked.                 *)
LEMMA HeapAddProg ==
  ASSUME NEW ms \in Seq(Map), NEW ps \in Seq(Prog), NEW top \in Nat, NEW new \in Prog,
         HeapInv(ms, ps, top), new.at = top, progEnd(top, new.exec) < HeapLimit
  PROVE  HeapInv(ms, Append(ps, new), progEnd(top, new.exec))
<1> DEFINE qs == Append(ps, new)
           up == progEnd(top, new.exec)
<1>0. /\ SizeSyspage \in Nat /\ HeapLimit \in Nat /\ up \in Nat /\ top <= up
      /\ Len(ps) \in Nat
  <2>1. new.exec \in BOOLEAN
    BY DEF Prog
  <2>2. QED
    BY <2>1, SyspageAssumption, EndsAbove
<1>1. HeapInv(ms, ps, up)
  BY <1>0, RaiseTop
<1>2. /\ DOMAIN qs = DOMAIN ps \cup {Len(ps) + 1}
      /\ \A p \in DOMAIN ps : qs[p] = ps[p] /\ p # Len(ps) + 1
      /\ qs[Len(ps) + 1] = new
  OBVIOUS
<1> HIDE DEF qs, up
<1>3. /\ \A m \in DOMAIN ms : mapEnd(ms[m].at) <= top
      /\ \A m \in DOMAIN ms : \A i \in DOMAIN ms[m].entries : entryEnd(ms[m].entries[i].at) <= top
      /\ \A p \in DOMAIN ps : progEnd(ps[p].at, ps[p].exec) <= top
  BY DEF HeapInv, MapsInHeap, EntriesInHeap, ProgsInHeap, below
<1>4. SizeSyspage <= top /\ progEnd(new.at, new.exec) = up
  BY DEF HeapInv, up
<1>5. ProgsInHeap(ms, qs, up)
  <2> SUFFICES ASSUME NEW p \in DOMAIN qs
               PROVE  LET a == qs[p].at
                          end == progEnd(qs[p].at, qs[p].exec)
                      IN /\ below(a, end, up)
                         /\ \A q \in DOMAIN qs :
                              p # q => apart(a, end, qs[q].at, progEnd(qs[q].at, qs[q].exec))
                         /\ \A m \in DOMAIN ms :
                              /\ apart(ms[m].at, mapEnd(ms[m].at), a, end)
                              /\ \A i \in DOMAIN ms[m].entries :
                                   apart(ms[m].entries[i].at, entryEnd(ms[m].entries[i].at), a, end)
    BY DEF ProgsInHeap
  <2>1. CASE p = Len(ps) + 1
    BY <1>0, <1>2, <1>3, <1>4, <2>1 DEF below, apart
  <2>2. CASE p \in DOMAIN ps
    BY <1>1, <1>2, <1>3, <1>4, <2>2 DEF HeapInv, ProgsInHeap, apart
  <2>3. QED
    BY <1>2, <2>1, <2>2
<1>6. QED
  BY <1>1, <1>5 DEF HeapInv, qs, up

(* Every element of a list syspage_sortedInsert has changed was there        *)
(* before, at a position of its own, or is the new one.                      *)
LEMMA InsertSource ==
  ASSUME NEW entries \in Seq(Entry), NEW e \in Entry
  PROVE  LET new == syspage_sortedInsert(entries, e)
         IN \E from \in [DOMAIN new -> {0} \cup DOMAIN entries] :
              /\ \A i \in DOMAIN new : new[i] = IF from[i] = 0 THEN e ELSE entries[from[i]]
              /\ \A i, j \in DOMAIN new : i # j => from[i] # from[j]
              /\ \A k \in {0} \cup DOMAIN entries : \E i \in DOMAIN new : from[i] = k
<1> DEFINE pos == insertPos(entries, e)
           n == Len(entries)
           new == syspage_sortedInsert(entries, e)
           from == [i \in 1..n + 1 |-> IF i < pos THEN i ELSE IF i = pos THEN 0 ELSE i - 1]
<1>1. n \in Nat /\ pos \in 1..n + 1 /\ DOMAIN entries = 1..n
  BY InsertPos
<1>2. new = [i \in 1..n + 1 |-> IF i < pos THEN entries[i] ELSE IF i = pos THEN e ELSE entries[i - 1]]
  BY DEF syspage_sortedInsert
<1> HIDE DEF pos, n, new
<1>3. DOMAIN new = 1..n + 1
  BY <1>2
<1>4. from \in [DOMAIN new -> {0} \cup DOMAIN entries]
  BY <1>1, <1>3
<1>5. \A i \in DOMAIN new : new[i] = IF from[i] = 0 THEN e ELSE entries[from[i]]
  BY <1>1, <1>2, <1>3
<1>6. \A i, j \in DOMAIN new : i # j => from[i] # from[j]
  BY <1>1, <1>3
<1>7. ASSUME NEW k \in {0} \cup DOMAIN entries PROVE \E i \in DOMAIN new : from[i] = k
  <2>1. CASE k = 0
    <3>1. pos \in DOMAIN new /\ from[pos] = 0
      BY <1>1, <1>3
    <3>2. QED
      BY <2>1, <3>1
  <2>2. CASE k \in 1..n /\ k < pos
    <3>1. k \in DOMAIN new /\ from[k] = k
      BY <1>1, <1>3, <2>2
    <3>2. QED
      BY <3>1
  <2>3. CASE k \in 1..n /\ k >= pos
    <3>1. k + 1 \in DOMAIN new /\ from[k + 1] = k
      BY <1>1, <1>3, <2>3
    <3>2. QED
      BY <3>1
  <2>4. k = 0 \/ (k \in 1..n /\ k < pos) \/ (k \in 1..n /\ k >= pos)
    BY <1>1
  <2>5. QED
    BY <2>1, <2>2, <2>3, <2>4
<1>8. QED
  BY <1>4, <1>5, <1>6, <1>7 DEF new

(* It is kept when an entry allocated at the top is linked in a map.         *)
LEMMA HeapAddEntry ==
  ASSUME NEW ms \in Seq(Map), NEW ps \in Seq(Prog), NEW top \in Nat, NEW m \in DOMAIN ms,
         NEW e \in Entry, HeapInv(ms, ps, top), e.at = top, entryEnd(top) < HeapLimit
  PROVE  HeapInv([ms EXCEPT ![m].entries = syspage_sortedInsert(@, e)], ps, entryEnd(top))
<1> DEFINE new == syspage_sortedInsert(ms[m].entries, e)
           ns == [ms EXCEPT ![m].entries = syspage_sortedInsert(@, e)]
           up == entryEnd(top)
<1>0. SizeSyspage \in Nat /\ HeapLimit \in Nat /\ up \in Nat /\ top <= up
  BY SyspageAssumption, EndsAbove
<1>1. HeapInv(ms, ps, up)
  BY <1>0, RaiseTop
<1>2. PICK from \in [DOMAIN new -> {0} \cup DOMAIN ms[m].entries] :
        /\ \A i \in DOMAIN new : new[i] = IF from[i] = 0 THEN e ELSE ms[m].entries[from[i]]
        /\ \A i, j \in DOMAIN new : i # j => from[i] # from[j]
  <2>1. ms[m].entries \in Seq(Entry)
    BY MapFields
  <2>2. QED
    BY <2>1, InsertSource
<1>3. /\ DOMAIN ns = DOMAIN ms
      /\ \A k \in DOMAIN ms : k # m => ns[k] = ms[k]
      /\ \A k \in DOMAIN ms : ns[k].at = ms[k].at
      /\ ns[m].entries = new
  <2>1. \A k \in DOMAIN ms : ms[k] \in Map
    OBVIOUS
  <2>2. ns = [ms EXCEPT ![m] = [ms[m] EXCEPT !.entries = new]]
    OBVIOUS
  <2> HIDE DEF new, ns
  <2>3. QED
    BY <2>1, <2>2 DEF Map
<1> HIDE DEF new, ns, up
<1>4. /\ \A k \in DOMAIN ms : mapEnd(ms[k].at) <= top
      /\ \A k \in DOMAIN ms : \A i \in DOMAIN ms[k].entries : entryEnd(ms[k].entries[i].at) <= top
      /\ \A p \in DOMAIN ps : progEnd(ps[p].at, ps[p].exec) <= top
  BY DEF HeapInv, MapsInHeap, EntriesInHeap, ProgsInHeap, below
<1>5. SizeSyspage <= top /\ entryEnd(e.at) = up
  BY DEF HeapInv, up
(* An entry of the new lists is the new one, in m, or one of the old lists.  *)
<1>6. ASSUME NEW k \in DOMAIN ns, NEW i \in DOMAIN ns[k].entries
      PROVE  \/ k = m /\ from[i] = 0 /\ i \in DOMAIN new /\ ns[k].entries[i] = e
             \/ /\ k = m /\ i \in DOMAIN new /\ from[i] \in DOMAIN ms[k].entries /\ from[i] # 0
                /\ ns[k].entries[i] = ms[k].entries[from[i]]
             \/ k # m /\ i \in DOMAIN ms[k].entries /\ ns[k].entries[i] = ms[k].entries[i]
  BY <1>2, <1>3
<1>7. MapsInHeap(ns, up)
  BY <1>1, <1>3 DEF HeapInv, MapsInHeap
<1>8. EntriesInHeap(ns, up)
  <2> SUFFICES ASSUME NEW k \in DOMAIN ns, NEW i \in DOMAIN ns[k].entries
               PROVE  /\ below(ns[k].entries[i].at, entryEnd(ns[k].entries[i].at), up)
                      /\ \A n \in DOMAIN ns :
                           /\ apart(ns[n].at, mapEnd(ns[n].at),
                                    ns[k].entries[i].at, entryEnd(ns[k].entries[i].at))
                           /\ \A j \in DOMAIN ns[n].entries :
                                <<k, i>> # <<n, j>> =>
                                  apart(ns[k].entries[i].at, entryEnd(ns[k].entries[i].at),
                                        ns[n].entries[j].at, entryEnd(ns[n].entries[j].at))
    BY DEF EntriesInHeap
  <2> DEFINE a == ns[k].entries[i].at
  <2>1. \/ a = top /\ entryEnd(a) = up /\ k = m /\ from[i] = 0 /\ i \in DOMAIN new
        \/ \E h \in DOMAIN ms[k].entries :
             /\ a = ms[k].entries[h].at
             /\ k = m => i \in DOMAIN new /\ from[i] = h /\ h # 0
             /\ k # m => h = i
    BY <1>5, <1>6
  <2>2. CASE a = top /\ entryEnd(a) = up /\ k = m /\ from[i] = 0 /\ i \in DOMAIN new
    <3>1. below(a, entryEnd(a), up)
      BY <1>0, <1>5, <2>2 DEF below
    <3>2. ASSUME NEW n \in DOMAIN ns
          PROVE  apart(ns[n].at, mapEnd(ns[n].at), a, entryEnd(a))
      BY <1>3, <1>4, <2>2 DEF apart
    <3>3. ASSUME NEW n \in DOMAIN ns, NEW j \in DOMAIN ns[n].entries, <<k, i>> # <<n, j>>
          PROVE  apart(a, entryEnd(a), ns[n].entries[j].at, entryEnd(ns[n].entries[j].at))
      <4>1. entryEnd(ns[n].entries[j].at) <= top
        BY <1>2, <1>3, <1>4, <1>6, <2>2, <3>3
      <4>2. QED
        BY <2>2, <4>1 DEF apart
    <3>4. QED
      BY <3>1, <3>2, <3>3
  <2>3. CASE \E h \in DOMAIN ms[k].entries :
               /\ a = ms[k].entries[h].at
               /\ k = m => i \in DOMAIN new /\ from[i] = h /\ h # 0
               /\ k # m => h = i
    <3>0. PICK h \in DOMAIN ms[k].entries :
               /\ a = ms[k].entries[h].at
               /\ k = m => i \in DOMAIN new /\ from[i] = h /\ h # 0
               /\ k # m => h = i
      BY <2>3
    <3> HIDE DEF a
    <3>1. k \in DOMAIN ms /\ entryEnd(a) <= top
      BY <1>3, <1>4, <3>0
    <3>2. below(a, entryEnd(a), up)
      BY <1>1, <3>0, <3>1 DEF HeapInv, EntriesInHeap
    <3>3. ASSUME NEW n \in DOMAIN ns
          PROVE  apart(ns[n].at, mapEnd(ns[n].at), a, entryEnd(a))
      BY <1>1, <1>3, <3>0, <3>1 DEF HeapInv, EntriesInHeap
    <3>4. ASSUME NEW n \in DOMAIN ns, NEW j \in DOMAIN ns[n].entries, <<k, i>> # <<n, j>>
          PROVE  apart(a, entryEnd(a), ns[n].entries[j].at, entryEnd(ns[n].entries[j].at))
      <4> DEFINE b == ns[n].entries[j].at
      <4>1. \/ b = top
            \/ \E g \in DOMAIN ms[n].entries :
                 /\ b = ms[n].entries[g].at
                 /\ n = m => j \in DOMAIN new /\ from[j] = g /\ g # 0
                 /\ n # m => g = j
        BY <1>6
      <4>2. CASE b = top
        BY <3>1, <4>2 DEF apart
      <4>3. CASE \E g \in DOMAIN ms[n].entries :
                   /\ b = ms[n].entries[g].at
                   /\ n = m => j \in DOMAIN new /\ from[j] = g /\ g # 0
                   /\ n # m => g = j
        <5>1. PICK g \in DOMAIN ms[n].entries :
                   /\ b = ms[n].entries[g].at
                   /\ n = m => j \in DOMAIN new /\ from[j] = g /\ g # 0
                   /\ n # m => g = j
          BY <4>3
        <5>2. <<k, h>> # <<n, g>>
          BY <1>2, <3>0, <3>4, <5>1
        <5> HIDE DEF b
        <5>3. n \in DOMAIN ms
          BY <1>3
        <5>4. apart(ms[k].entries[h].at, entryEnd(ms[k].entries[h].at),
                    ms[n].entries[g].at, entryEnd(ms[n].entries[g].at))
          BY <1>1, <3>0, <3>1, <5>2, <5>3 DEF HeapInv, EntriesInHeap
        <5>5. QED
          BY <3>0, <5>1, <5>4 DEF b
      <4>4. QED
        BY <4>1, <4>2, <4>3
    <3>5. QED
      BY <3>2, <3>3, <3>4 DEF a
  <2>4. QED
    BY <2>1, <2>2, <2>3
<1>9. ProgsInHeap(ns, ps, up)
  <2> SUFFICES ASSUME NEW p \in DOMAIN ps
               PROVE  LET a == ps[p].at
                          end == progEnd(ps[p].at, ps[p].exec)
                      IN /\ below(a, end, up)
                         /\ \A q \in DOMAIN ps :
                              p # q => apart(a, end, ps[q].at, progEnd(ps[q].at, ps[q].exec))
                         /\ \A n \in DOMAIN ns :
                              /\ apart(ns[n].at, mapEnd(ns[n].at), a, end)
                              /\ \A i \in DOMAIN ns[n].entries :
                                   apart(ns[n].entries[i].at, entryEnd(ns[n].entries[i].at), a, end)
    BY DEF ProgsInHeap
  <2> DEFINE a == ps[p].at
             end == progEnd(ps[p].at, ps[p].exec)
  <2>1. /\ below(a, end, up)
        /\ \A q \in DOMAIN ps :
             p # q => apart(a, end, ps[q].at, progEnd(ps[q].at, ps[q].exec))
        /\ \A n \in DOMAIN ms :
             /\ apart(ms[n].at, mapEnd(ms[n].at), a, end)
             /\ \A i \in DOMAIN ms[n].entries :
                  apart(ms[n].entries[i].at, entryEnd(ms[n].entries[i].at), a, end)
    BY <1>1 DEF HeapInv, ProgsInHeap
  <2>2. end <= top
    BY <1>4
  <2> HIDE DEF a, end
  <2>3. \A n \in DOMAIN ns : apart(ns[n].at, mapEnd(ns[n].at), a, end)
    BY <1>3, <2>1
  <2>4. ASSUME NEW n \in DOMAIN ns, NEW i \in DOMAIN ns[n].entries
        PROVE  apart(ns[n].entries[i].at, entryEnd(ns[n].entries[i].at), a, end)
    <3>1. CASE ns[n].entries[i] = e
      BY <2>2, <3>1 DEF apart
    <3>2. CASE \E h \in DOMAIN ms[n].entries : ns[n].entries[i] = ms[n].entries[h]
      BY <1>3, <2>1, <3>2
    <3>3. QED
      BY <1>6, <3>1, <3>2
  <2>5. QED
    BY <2>1, <2>3, <2>4 DEF a, end
<1>10. QED
  BY <1>0, <1>1, <1>7, <1>8, <1>9 DEF HeapInv, ns, up

(* Where a block of the heap lies in what its call allocated.                *)
mapBlock(b, m) ==
  /\ maps[m].at <= b.at /\ b.at + b.size <= mapEnd(maps[m].at)
  /\ \/ b.of = <<"map", m>> /\ b.at + b.size <= newTop(maps[m].at, SizeMap)
     \/ b.of = <<"name", m>> /\ newTop(maps[m].at, SizeMap) <= b.at

entryBlock(b, m, i) ==
  /\ b.of = <<"entry", m, i>>
  /\ b.at = maps[m].entries[i].at /\ b.at + b.size <= entryEnd(b.at)

progBlock(b, p) ==
  /\ progs[p].at <= b.at /\ b.at + b.size <= progEnd(progs[p].at, progs[p].exec)
  /\ \/ b.of = <<"prog", p>> /\ b.at + b.size <= newTop(progs[p].at, SizeProg)
     \/ b.of = <<"argv", p>> /\ newTop(progs[p].at, SizeProg) <= b.at

(* Every block of the heap belongs to a map, an entry or a program.          *)
LEMMA BlockForms ==
  ASSUME TypeOK, NEW b \in Blocks
  PROVE  /\ b.at \in Nat /\ b.size \in Nat
         /\ \/ \E m \in DOMAIN maps : mapBlock(b, m)
            \/ \E m \in DOMAIN maps : \E i \in DOMAIN maps[m].entries : entryBlock(b, m, i)
            \/ \E p \in DOMAIN progs : progBlock(b, p)
<1>0. /\ \A m \in DOMAIN maps : maps[m].at \in Nat
      /\ \A m \in DOMAIN maps : \A i \in DOMAIN maps[m].entries : maps[m].entries[i].at \in Nat
      /\ \A p \in DOMAIN progs : progs[p].at \in Nat /\ progs[p].exec \in BOOLEAN
  <2>1. maps \in Seq(Map) /\ progs \in Seq(Prog)
    BY DEF TypeOK
  <2>2. \A p \in DOMAIN progs : progs[p] \in Prog
    BY <2>1
  <2>3. \A p \in DOMAIN progs : progs[p].exec \in BOOLEAN
    BY <2>2 DEF Prog
  <2>4. QED
    BY <2>1, <2>3, AtNat
<1>1. CASE \E m \in DOMAIN maps :
             \/ b = [of |-> <<"map", m>>, at |-> maps[m].at, size |-> SizeMap]
             \/ b = [of |-> <<"name", m>>, at |-> newTop(maps[m].at, SizeMap), size |-> SizeName]
  <2>1. PICK m \in DOMAIN maps :
             \/ b = [of |-> <<"map", m>>, at |-> maps[m].at, size |-> SizeMap]
             \/ b = [of |-> <<"name", m>>, at |-> newTop(maps[m].at, SizeMap), size |-> SizeName]
    BY <1>1
  <2> DEFINE a == maps[m].at
             mid == newTop(a, SizeMap)
  <2>2. a \in Nat /\ mid \in Nat /\ a + SizeMap <= mid /\ a <= mid
    BY <1>0, NewTopAbove, SizesNat
  <2>3. mapEnd(a) \in Nat /\ mid + SizeName <= mapEnd(a) /\ mid <= mapEnd(a)
    BY <2>2, NewTopAbove, SizesNat DEF mapEnd
  <2>4. \/ b.of = <<"map", m>> /\ b.at = a /\ b.size = SizeMap
        \/ b.of = <<"name", m>> /\ b.at = mid /\ b.size = SizeName
    BY <2>1
  <2> HIDE DEF a, mid
  <2>5. b.at \in Nat /\ b.size \in Nat
    BY <2>2, <2>4, SizesNat
  <2>6. a <= b.at /\ b.at + b.size <= mapEnd(a)
    BY <2>2, <2>3, <2>4, SizesNat
  <2>7. \/ b.of = <<"map", m>> /\ b.at + b.size <= mid
        \/ b.of = <<"name", m>> /\ mid <= b.at
    BY <2>2, <2>4
  <2>8. mapBlock(b, m)
    BY <2>6, <2>7 DEF mapBlock, a, mid
  <2>9. QED
    BY <2>5, <2>8
<1>2. CASE \E m \in DOMAIN maps : \E i \in DOMAIN maps[m].entries :
             b = [of |-> <<"entry", m, i>>, at |-> maps[m].entries[i].at, size |-> SizeEntry]
  <2>1. PICK m \in DOMAIN maps : \E i \in DOMAIN maps[m].entries :
             b = [of |-> <<"entry", m, i>>, at |-> maps[m].entries[i].at, size |-> SizeEntry]
    BY <1>2
  <2> PICK i \in DOMAIN maps[m].entries :
             b = [of |-> <<"entry", m, i>>, at |-> maps[m].entries[i].at, size |-> SizeEntry]
    BY <2>1
  <2>2. b.of = <<"entry", m, i>> /\ b.at = maps[m].entries[i].at /\ b.size = SizeEntry
    BY <2>1
  <2>3. b.at \in Nat /\ b.size \in Nat
    BY <1>0, <2>2, SizesNat
  <2>4. b.at + b.size <= entryEnd(b.at)
    BY <2>2, <2>3, NewTopAbove DEF entryEnd
  <2>5. QED
    BY <2>2, <2>3, <2>4 DEF entryBlock
<1>3. CASE \E p \in DOMAIN progs :
             \/ b = [of |-> <<"prog", p>>, at |-> progs[p].at, size |-> SizeProg]
             \/ b = [of |-> <<"argv", p>>, at |-> newTop(progs[p].at, SizeProg),
                     size |-> argvSize(progs[p].exec)]
  <2>1. PICK p \in DOMAIN progs :
             \/ b = [of |-> <<"prog", p>>, at |-> progs[p].at, size |-> SizeProg]
             \/ b = [of |-> <<"argv", p>>, at |-> newTop(progs[p].at, SizeProg),
                     size |-> argvSize(progs[p].exec)]
    BY <1>3
  <2> DEFINE a == progs[p].at
             mid == newTop(a, SizeProg)
             size == argvSize(progs[p].exec)
             end == progEnd(a, progs[p].exec)
  <2>2. size \in Nat
    BY <1>0, SizesNat DEF argvSize
  <2>3. a \in Nat /\ mid \in Nat /\ a + SizeProg <= mid /\ a <= mid
    BY <1>0, NewTopAbove, SizesNat
  <2>4. end \in Nat /\ mid + size <= end /\ mid <= end
    <3>1. end = newTop(mid, size)
      BY DEF progEnd
    <3> HIDE DEF mid, size, end
    <3>2. QED
      BY <2>2, <2>3, <3>1, NewTopAbove
  <2>5. \/ b.of = <<"prog", p>> /\ b.at = a /\ b.size = SizeProg
        \/ b.of = <<"argv", p>> /\ b.at = mid /\ b.size = size
    BY <2>1
  <2> HIDE DEF a, mid, size, end
  <2>6. b.at \in Nat /\ b.size \in Nat
    BY <2>2, <2>3, <2>5, SizesNat
  <2>7. a <= b.at /\ b.at + b.size <= end
    BY <2>2, <2>3, <2>4, <2>5, SizesNat
  <2>8. \/ b.of = <<"prog", p>> /\ b.at + b.size <= mid
        \/ b.of = <<"argv", p>> /\ mid <= b.at
    BY <2>3, <2>5
  <2>9. progBlock(b, p)
    BY <2>7, <2>8 DEF progBlock, a, mid, end
  <2>10. QED
    BY <2>6, <2>9
<1>4. CASE b \in mapBlocks
  BY <1>1, <1>4, Zenon DEF mapBlocks
<1>5. CASE b \in entryBlocks
  BY <1>2, <1>5, Zenon DEF entryBlocks
<1>6. CASE b \in progBlocks
  BY <1>3, <1>6, Zenon DEF progBlocks
<1>7. QED
  BY <1>4, <1>5, <1>6 DEF Blocks

(* The invariant gives the property.                                         *)
LEMMA BlocksApart ==
  ASSUME TypeOK, HeapInv(maps, progs, heapTop)
  PROVE  HeapBlocksDisjoint
<1> DEFINE mapAt(m) == maps[m].at
           mapTo(m) == mapEnd(maps[m].at)
           entryAt(m, i) == maps[m].entries[i].at
           entryTo(m, i) == entryEnd(maps[m].entries[i].at)
           progAt(p) == progs[p].at
           progTo(p) == progEnd(progs[p].at, progs[p].exec)
           free(b, c) == b.at + b.size <= c.at \/ c.at + c.size <= b.at
<1>1. maps \in Seq(Map) /\ progs \in Seq(Prog) /\ heapTop \in Nat /\ SizeSyspage \in Nat
  BY SyspageAssumption DEF TypeOK
<1>2. /\ \A m \in DOMAIN maps : mapAt(m) \in Nat /\ mapTo(m) \in Nat
      /\ \A m \in DOMAIN maps : \A i \in DOMAIN maps[m].entries :
           entryAt(m, i) \in Nat /\ entryTo(m, i) \in Nat
      /\ \A p \in DOMAIN progs : progAt(p) \in Nat /\ progTo(p) \in Nat
  BY <1>1, AtNat
<1>3. ASSUME NEW m \in DOMAIN maps
      PROVE  /\ SizeSyspage <= mapAt(m) /\ mapTo(m) <= heapTop
             /\ \A n \in DOMAIN maps : m # n => mapTo(m) <= mapAt(n) \/ mapTo(n) <= mapAt(m)
  BY DEF HeapInv, MapsInHeap, below, apart
<1>4. ASSUME NEW m \in DOMAIN maps, NEW i \in DOMAIN maps[m].entries
      PROVE  /\ SizeSyspage <= entryAt(m, i) /\ entryTo(m, i) <= heapTop
             /\ \A n \in DOMAIN maps : mapTo(n) <= entryAt(m, i) \/ entryTo(m, i) <= mapAt(n)
             /\ \A n \in DOMAIN maps : \A j \in DOMAIN maps[n].entries :
                  <<m, i>> # <<n, j>> =>
                    entryTo(m, i) <= entryAt(n, j) \/ entryTo(n, j) <= entryAt(m, i)
  BY DEF HeapInv, EntriesInHeap, below, apart
<1>5. ASSUME NEW p \in DOMAIN progs
      PROVE  /\ SizeSyspage <= progAt(p) /\ progTo(p) <= heapTop
             /\ \A q \in DOMAIN progs : p # q => progTo(p) <= progAt(q) \/ progTo(q) <= progAt(p)
             /\ \A m \in DOMAIN maps :
                  /\ mapTo(m) <= progAt(p) \/ progTo(p) <= mapAt(m)
                  /\ \A i \in DOMAIN maps[m].entries :
                       entryTo(m, i) <= progAt(p) \/ progTo(p) <= entryAt(m, i)
  BY DEF HeapInv, ProgsInHeap, below, apart
<1>6. ASSUME NEW b \in Blocks, NEW m \in DOMAIN maps, mapBlock(b, m)
      PROVE  mapAt(m) <= b.at /\ b.at + b.size <= mapTo(m)
  BY <1>6 DEF mapBlock
<1>7. ASSUME NEW b \in Blocks, NEW m \in DOMAIN maps, NEW i \in DOMAIN maps[m].entries,
             entryBlock(b, m, i)
      PROVE  entryAt(m, i) = b.at /\ b.at + b.size <= entryTo(m, i)
  BY <1>7 DEF entryBlock
<1>8. ASSUME NEW b \in Blocks, NEW p \in DOMAIN progs, progBlock(b, p)
      PROVE  progAt(p) <= b.at /\ b.at + b.size <= progTo(p)
  BY <1>8 DEF progBlock
<1>9. ASSUME NEW b \in Blocks, NEW c \in Blocks, NEW m \in DOMAIN maps, NEW n \in DOMAIN maps,
             mapBlock(b, m), mapBlock(c, n), b.of # c.of
      PROVE  free(b, c)
  <2>0. b.at \in Nat /\ b.size \in Nat /\ c.at \in Nat /\ c.size \in Nat
    BY BlockForms
  <2>1. CASE m = n
    <3>1. newTop(maps[m].at, SizeMap) \in Nat
      BY <1>2, NewTopAbove, SizesNat
    <3>2. QED
      BY <1>9, <2>0, <2>1, <3>1 DEF mapBlock
  <2>2. CASE m # n
    <3> HIDE DEF mapAt, mapTo
    <3>1. QED
      BY <1>2, <1>3, <1>6, <1>9, <2>0, <2>2
  <2>3. QED
    BY <2>1, <2>2
<1>10. ASSUME NEW b \in Blocks, NEW c \in Blocks, NEW p \in DOMAIN progs, NEW q \in DOMAIN progs,
              progBlock(b, p), progBlock(c, q), b.of # c.of
       PROVE  free(b, c)
  <2>0. b.at \in Nat /\ b.size \in Nat /\ c.at \in Nat /\ c.size \in Nat
    BY BlockForms
  <2>1. CASE p = q
    <3>1. newTop(progs[p].at, SizeProg) \in Nat
      BY <1>2, NewTopAbove, SizesNat
    <3>2. QED
      BY <1>10, <2>0, <2>1, <3>1 DEF progBlock
  <2>2. CASE p # q
    <3> HIDE DEF progAt, progTo
    <3>1. QED
      BY <1>2, <1>5, <1>8, <1>10, <2>0, <2>2
  <2>3. QED
    BY <2>1, <2>2
<1>11. ASSUME NEW b \in Blocks, NEW c \in Blocks, NEW m \in DOMAIN maps, NEW n \in DOMAIN maps,
              NEW i \in DOMAIN maps[m].entries, NEW j \in DOMAIN maps[n].entries,
              entryBlock(b, m, i), entryBlock(c, n, j), b.of # c.of
       PROVE  free(b, c)
  <2>0. b.at \in Nat /\ b.size \in Nat /\ c.at \in Nat /\ c.size \in Nat
    BY BlockForms
  <2>1. <<m, i>> # <<n, j>>
    BY <1>11 DEF entryBlock
  <2> HIDE DEF entryAt, entryTo
  <2>2. entryTo(m, i) <= entryAt(n, j) \/ entryTo(n, j) <= entryAt(m, i)
    BY <1>4, <2>1
  <2>3. QED
    BY <1>2, <1>7, <1>11, <2>0, <2>2
<1>12. ASSUME NEW b \in Blocks, NEW c \in Blocks, NEW m \in DOMAIN maps, NEW n \in DOMAIN maps,
              NEW j \in DOMAIN maps[n].entries, mapBlock(b, m), entryBlock(c, n, j)
       PROVE  free(b, c) /\ free(c, b)
  <2>0. b.at \in Nat /\ b.size \in Nat /\ c.at \in Nat /\ c.size \in Nat
    BY BlockForms
  <2> HIDE DEF mapAt, mapTo, entryAt, entryTo
  <2>1. QED
    BY <1>2, <1>4, <1>6, <1>7, <1>12, <2>0
<1>13. ASSUME NEW b \in Blocks, NEW c \in Blocks, NEW m \in DOMAIN maps, NEW p \in DOMAIN progs,
              mapBlock(b, m), progBlock(c, p)
       PROVE  free(b, c) /\ free(c, b)
  <2>0. b.at \in Nat /\ b.size \in Nat /\ c.at \in Nat /\ c.size \in Nat
    BY BlockForms
  <2> HIDE DEF mapAt, mapTo, progAt, progTo
  <2>1. QED
    BY <1>2, <1>5, <1>6, <1>8, <1>13, <2>0
<1>14. ASSUME NEW b \in Blocks, NEW c \in Blocks, NEW m \in DOMAIN maps,
              NEW i \in DOMAIN maps[m].entries, NEW p \in DOMAIN progs,
              entryBlock(b, m, i), progBlock(c, p)
       PROVE  free(b, c) /\ free(c, b)
  <2>0. b.at \in Nat /\ b.size \in Nat /\ c.at \in Nat /\ c.size \in Nat
    BY BlockForms
  <2> HIDE DEF entryAt, entryTo, progAt, progTo
  <2>1. QED
    BY <1>2, <1>5, <1>7, <1>8, <1>14, <2>0
<1>15. ASSUME NEW b \in Blocks, NEW c \in Blocks, b.of # c.of
       PROVE  free(b, c)
  <2> HIDE DEF free
  <2>1. QED
    BY <1>9, <1>10, <1>11, <1>12, <1>13, <1>14, <1>15, BlockForms
<1>16. ASSUME NEW b \in Blocks
       PROVE  SizeSyspage <= b.at /\ b.at + b.size <= heapTop
  <2>0. b.at \in Nat /\ b.size \in Nat
    BY BlockForms
  <2> HIDE DEF mapAt, mapTo, entryAt, entryTo, progAt, progTo
  <2>1. CASE \E m \in DOMAIN maps : mapBlock(b, m)
    BY <1>1, <1>2, <1>3, <1>6, <2>0, <2>1
  <2>2. CASE \E m \in DOMAIN maps : \E i \in DOMAIN maps[m].entries : entryBlock(b, m, i)
    BY <1>1, <1>2, <1>4, <1>7, <2>0, <2>2
  <2>3. CASE \E p \in DOMAIN progs : progBlock(b, p)
    BY <1>1, <1>2, <1>5, <1>8, <2>0, <2>3
  <2>4. QED
    BY <2>1, <2>2, <2>3, BlockForms
<1>17. QED
  BY <1>15, <1>16 DEF HeapBlocksDisjoint, HeapInv

(* The invariant of the heap, with the one it rests on.                      *)
HeapSafe == Inv /\ HeapInv(maps, progs, heapTop)

(* syspage_mapAdd up to the loop preserves it: a call that fails on its      *)
(* second allocation, or on the attributes, leaves blocks nobody refers to.  *)
LEMMA HeapMapAdd ==
  ASSUME HeapSafe, NEW name \in MapNames, NEW range \in MapRanges, NEW attrValid \in BOOLEAN,
         syspage_mapAdd(name, range[1], range[2], attrValid), Inv'
  PROVE  HeapInv(maps, progs, heapTop)'
<1> DEFINE mid == newTop(heapTop, SizeMap)
           new == [name |-> name, start |-> range[1], end |-> range[2],
                   id |-> mapId, at |-> heapTop, entries |-> <<>>]
<1>1. maps \in Seq(Map) /\ progs \in Seq(Prog) /\ heapTop \in Nat
  BY DEF HeapSafe, Inv, TypeOK
<1>2. mid \in Nat /\ heapTop <= mid
  BY <1>1, NewTopAbove, SizesNat
<1>3. mapEnd(heapTop) \in Nat /\ heapTop <= mapEnd(heapTop) /\ mapEnd(heapTop) = newTop(mid, SizeName)
  BY <1>1, EndsAbove DEF mapEnd
<1>4. CASE maps' = maps /\ progs' = progs /\ heapTop' = heapTop
  BY <1>4 DEF HeapSafe
<1>5. CASE /\ maps' = maps /\ progs' = progs
           /\ \/ heapTop' = mid /\ mid < HeapLimit
              \/ heapTop' = mapEnd(heapTop) /\ mapEnd(heapTop) < HeapLimit
  <2> HIDE DEF mid
  <2>1. QED
    BY <1>1, <1>2, <1>3, <1>5, RaiseTop DEF HeapSafe
<1>6. CASE /\ maps' = Append(maps, new) /\ progs' = progs
           /\ heapTop' = mapEnd(heapTop) /\ mapEnd(heapTop) < HeapLimit
  <2>1. Len(maps') = Len(maps) + 1 /\ maps'[Len(maps) + 1] = new /\ maps' \in Seq(Map)
    BY <1>1, <1>6 DEF Inv, TypeOK
  <2>2. Len(maps) + 1 \in DOMAIN maps'
    BY <1>1, <2>1
  <2>3. new \in Map /\ new.at = heapTop /\ new.entries = <<>>
    BY <2>1, <2>2
  <2> HIDE DEF new
  <2>4. QED
    BY <1>1, <1>6, <2>3, HeapAddMap DEF HeapSafe
<1>7. QED
  <2>1. \/ maps' = maps /\ progs' = progs /\ heapTop' = heapTop
        \/ maps' = maps /\ progs' = progs /\ fits(heapTop, SizeMap) /\ heapTop' = mid
        \/ maps' = maps /\ progs' = progs /\ fits(mid, SizeName) /\ heapTop' = newTop(mid, SizeName)
        \/ /\ maps' = Append(maps, new) /\ progs' = progs
           /\ fits(mid, SizeName) /\ heapTop' = newTop(mid, SizeName)
    BY DEF syspage_mapAdd
  <2>2. QED
    BY <1>3, <1>4, <1>5, <1>6, <2>1 DEF fits

(* Linking an entry allocated at the top preserves it.                       *)
LEMMA HeapLinkEntry ==
  ASSUME HeapSafe, NEW m \in DOMAIN maps, NEW e \in Entry, e.at = heapTop,
         fits(heapTop, SizeEntry),
         maps' = [maps EXCEPT ![m].entries = syspage_sortedInsert(@, e)]
  PROVE  HeapInv(maps', progs, newTop(heapTop, SizeEntry))
<1>1. maps \in Seq(Map) /\ progs \in Seq(Prog) /\ heapTop \in Nat
  BY DEF HeapSafe, Inv, TypeOK
<1>2. entryEnd(heapTop) < HeapLimit /\ entryEnd(heapTop) = newTop(heapTop, SizeEntry)
  BY DEF fits, entryEnd
<1>3. HeapInv(maps, progs, heapTop)
  BY DEF HeapSafe
<1>4. HeapInv([maps EXCEPT ![m].entries = syspage_sortedInsert(@, e)], progs, entryEnd(heapTop))
  BY <1>1, <1>2, <1>3, HeapAddEntry, Zenon
<1>5. QED
  BY <1>2, <1>4

(* The same for the entry syspage_entryAdd builds.                           *)
LEMMA HeapWithEntry ==
  ASSUME HeapSafe, NEW m \in DOMAIN maps, NEW start \in Addr, NEW size \in Nat,
         NEW proper \in BOOLEAN, fits(heapTop, SizeEntry), maps' = withEntry(m, start, size, proper)
  PROVE  HeapInv(maps', progs, newTop(heapTop, SizeEntry))
<1> DEFINE e == [start |-> start, end |-> (start + size) % AddrSpace, type |-> "allocated", at |-> heapTop,
                 proper |-> proper]
<1>1. (start + size) % AddrSpace \in Addr
  BY AddrNat, SyspageAssumption DEF Addr
<1>2. e \in Entry /\ e.at = heapTop
  BY <1>1 DEF Entry, HeapSafe, Inv, TypeOK
<1>3. maps' = [maps EXCEPT ![m].entries = syspage_sortedInsert(@, e)]
  BY DEF withEntry
<1> HIDE DEF e
<1>4. QED
  BY <1>2, <1>3, HeapLinkEntry

(* An iteration of the loop of syspage_mapAdd preserves it.                  *)
LEMMA HeapMapAddEntry ==
  ASSUME HeapSafe, mapAddEntry
  PROVE  HeapInv(maps, progs, heapTop)'
<1> DEFINE end == maps[last].end
           h == hal_memoryGetNextEntry(cursor, end)
           e == [start |-> h.start, end |-> h.end, type |-> h.type, at |-> heapTop,
                 proper |-> TRUE]
<1>1. cursor # None /\ overlapped(cursor, end) # {}
  BY DEF mapAddEntry
<1>2. last \in DOMAIN maps /\ maps[last] \in Map
  BY <1>1 DEF HeapSafe, Inv, TypeOK, last
<1>3. cursor \in Addr /\ end \in Addr /\ cursor <= end
  BY <1>1, <1>2, MapFields DEF HeapSafe, Inv, TypeOK, CursorInMap
<1>4. h.start \in Addr /\ h.end \in Addr /\ h.type \in {"reserved", "temp"}
  <2> HIDE DEF end
  <2>1. QED
    BY <1>1, <1>3, HalEntry
<1>5. e \in Entry /\ e.at = heapTop
  <2> HIDE DEF h
  <2>1. QED
    BY <1>4 DEF Entry, HeapSafe, Inv, TypeOK
<1>6. CASE ~fits(heapTop, SizeEntry)
  BY <1>6 DEF mapAddEntry, HeapSafe
<1>7. CASE fits(heapTop, SizeEntry)
  <2>1. /\ maps' = [maps EXCEPT ![last].entries = syspage_sortedInsert(@, e)]
        /\ progs' = progs /\ heapTop' = newTop(heapTop, SizeEntry)
    BY <1>7 DEF mapAddEntry
  <2> HIDE DEF e
  <2>2. QED
    BY <1>2, <1>5, <1>7, <2>1, HeapLinkEntry
<1>8. QED
  BY <1>6, <1>7

(* syspage_entryAdd preserves it.                                            *)
LEMMA HeapEntryAdd ==
  ASSUME HeapSafe, NEW c \in EntryCalls, syspage_entryAdd(c.mapName, c.start, c.size, c.align)
  PROVE  HeapInv(maps, progs, heapTop)'
<1> DEFINE m == entryMap(c.mapName, c.start, c.size)
           s == entryStart(c.mapName, c.start, c.size, c.align)
           proper == grantable(maps[m], c.mapName, c.start, c.size, c.align)
<1>0. proper \in BOOLEAN
  BY GrantableType
<1>1. c.start \in Addr /\ c.size \in Nat /\ c.align \in Nat
  <2>1. c \in [mapName : MapNames \cup {NULL}, start : Addr, size : Addr, align : Addr]
    BY SyspageAssumption
  <2>2. QED
    BY <2>1, AddrNat
<1>2. s \in Addr \cup {None} /\ (s # None => m \in DOMAIN maps)
  BY <1>1, EntryStartType DEF HeapSafe, Inv
<1>3. progs' = progs
  BY DEF syspage_entryAdd
<1>4. CASE heapTop' = heapTop /\ maps' = maps
  BY <1>3, <1>4 DEF HeapSafe
<1>5. CASE /\ s # None /\ fits(heapTop, SizeEntry)
           /\ heapTop' = newTop(heapTop, SizeEntry) /\ maps' = withEntry(m, s, c.size, proper)
  <2> HIDE DEF m, s, proper
  <2>1. QED
    BY <1>0, <1>1, <1>2, <1>3, <1>5, HeapWithEntry
<1>6. QED
  BY <1>4, <1>5 DEF syspage_entryAdd

(* What syspage_progAdd does to the heap, whether it fails on the first, on  *)
(* the second or on no allocation, preserves it.                             *)
LEMMA HeapLinkProg ==
  ASSUME NEW ms \in Seq(Map), NEW ps \in Seq(Prog), NEW top \in Nat, HeapInv(ms, ps, top),
         NEW argv \in Argvs, NEW exec \in BOOLEAN,
         NEW start \in Addr \cup {None}, NEW end \in Addr \cup {None}
  PROVE  HeapInv(ms, IF progFits(top, exec) THEN Append(ps, prog(argv, exec, top, start, end)) ELSE ps,
                 progTop(top, exec))
<1> DEFINE mid == newTop(top, SizeProg)
           new == prog(argv, exec, top, start, end)
<1>1. mid \in Nat /\ top <= mid
  BY NewTopAbove, SizesNat
<1>2. CASE ~fits(top, SizeProg)
  BY <1>2 DEF progFits, progTop
<1>3. CASE fits(top, SizeProg) /\ ~fits(mid, argvSize(exec))
  <2>1. progTop(top, exec) = mid /\ ~progFits(top, exec) /\ mid < HeapLimit
    BY <1>3 DEF progFits, progTop, fits
  <2> HIDE DEF mid
  <2>2. QED
    BY <1>1, <2>1, RaiseTop
<1>4. CASE fits(top, SizeProg) /\ fits(mid, argvSize(exec))
  <2>1. progFits(top, exec) /\ progTop(top, exec) = progEnd(top, exec) /\ progEnd(top, exec) < HeapLimit
    BY <1>4 DEF progFits, progTop, progEnd, fits
  <2>2. new \in Prog /\ new.at = top /\ new.exec = exec
    BY DEF prog, Prog
  <2> HIDE DEF new
  <2>3. QED
    BY <2>1, <2>2, HeapAddProg DEF new
<1>5. QED
  BY <1>2, <1>3, <1>4

(* syspage_progAdd preserves it.                                             *)
LEMMA HeapProgAdd ==
  ASSUME HeapSafe, NEW argv \in Argvs, NEW exec \in BOOLEAN, syspage_progAdd(argv, exec)
  PROVE  HeapInv(maps, progs, heapTop)'
<1>1. /\ maps \in Seq(Map) /\ progs \in Seq(Prog) /\ heapTop \in Nat
      /\ HeapInv(maps, progs, heapTop)
  BY DEF HeapSafe, Inv, TypeOK
<1>2. /\ maps' = maps /\ heapTop' = progTop(heapTop, exec)
      /\ progs' = IF progFits(heapTop, exec)
                  THEN Append(progs, prog(argv, exec, heapTop, None, None)) ELSE progs
  BY DEF syspage_progAdd
<1>3. QED
  BY <1>1, <1>2, HeapLinkProg

(* syspage_progAllocateAndAdd preserves it, an entry and then a program.     *)
LEMMA HeapProgAllocateAndAdd ==
  ASSUME HeapSafe, NEW mapName \in MapNames, NEW size \in ProgSizes, NEW argv \in Argvs,
         NEW exec \in BOOLEAN, NEW allowOverwrite \in BOOLEAN,
         syspage_progAllocateAndAdd(mapName, size, argv, exec, allowOverwrite), Inv'
  PROVE  HeapInv(maps, progs, heapTop)'
<1> DEFINE m == syspage_mapGet(mapName)
           s == entryStart(mapName, Anywhere, size, SizePage)
           top == newTop(heapTop, SizeEntry)
           proper == grantable(maps[m], mapName, Anywhere, size, SizePage)
<1>0. proper \in BOOLEAN
  BY GrantableType
<1>1. Anywhere \in Addr /\ size \in Nat /\ SizePage \in Nat
  <2>1. Anywhere \in Addr
    BY SyspageAssumption DEF Anywhere, Addr
  <2>2. QED
    BY <2>1, AddrNat, SyspageAssumption, SizesNat
<1>2. m = entryMap(mapName, Anywhere, size)
  BY SyspageAssumption DEF entryMap
<1>3. s \in Addr \cup {None} /\ (s # None => m \in DOMAIN maps)
  BY <1>1, <1>2, EntryStartType DEF HeapSafe, Inv
<1>4. CASE heapTop' = heapTop /\ maps' = maps /\ progs' = progs
  BY <1>4 DEF HeapSafe
<1>5. CASE /\ s # None /\ fits(heapTop, SizeEntry)
           /\ maps' = withEntry(m, s, size, proper) /\ heapTop' = progTop(top, exec)
           /\ progs' = IF progFits(top, exec)
                       THEN Append(progs, prog(argv, exec, top, s, (s + size) % AddrSpace)) ELSE progs
  <2> HIDE DEF m, s, proper
  <2>1. HeapInv(maps', progs, top)
    BY <1>0, <1>1, <1>3, <1>5, HeapWithEntry
  <2>2. top \in Nat /\ maps' \in Seq(Map) /\ progs \in Seq(Prog)
    BY NewTopType, SizesNat DEF HeapSafe, Inv, TypeOK
  <2>3. (s + size) % AddrSpace \in Addr
    BY <1>1, <1>3, <1>5, AddrNat, SyspageAssumption DEF Addr
  <2> HIDE DEF top
  <2>4. QED
    BY <1>3, <1>5, <2>1, <2>2, <2>3, HeapLinkProg
<1>6. QED
  BY <1>4, <1>5 DEF syspage_progAllocateAndAdd

(* syspage_alloc preserves it.                                               *)
LEMMA HeapAlloc ==
  ASSUME HeapSafe, NEW size \in {0, SizeArgv}, syspage_alloc(size)
  PROVE  HeapInv(maps, progs, heapTop)'
<1>1. maps \in Seq(Map) /\ progs \in Seq(Prog) /\ heapTop \in Nat /\ size \in Nat
  BY SizesNat DEF HeapSafe, Inv, TypeOK
<1>2. newTop(heapTop, size) \in Nat /\ heapTop <= newTop(heapTop, size)
  BY <1>1, NewTopAbove
<1>3. maps' = maps /\ progs' = progs
  BY DEF syspage_alloc
<1>4. heapTop' = heapTop \/ (heapTop' = newTop(heapTop, size) /\ newTop(heapTop, size) < HeapLimit)
  BY DEF syspage_alloc, fits
<1>5. QED
  BY <1>1, <1>2, <1>3, <1>4, RaiseTop DEF HeapSafe

(* syspage_init establishes it.                                              *)
LEMMA HeapInit == syspage_init => HeapSafe
<1> SUFFICES ASSUME syspage_init PROVE HeapSafe
  OBVIOUS
<1>1. SizeSyspage <= heapTop /\ heapTop < HeapLimit
  BY SizesNat, HeapAlignAbove, SyspageFits DEF syspage_init
<1>2. maps = <<>> /\ progs = <<>>
  BY DEF syspage_init
<1>3. QED
  BY <1>1, <1>2, InvInit DEF HeapSafe, HeapInv, MapsInHeap, EntriesInHeap, ProgsInHeap

(* Every step preserves it.                                                  *)
LEMMA HeapStep == HeapSafe /\ [Next]_vars => HeapSafe'
<1> SUFFICES ASSUME HeapSafe, [Next]_vars PROVE HeapSafe'
  OBVIOUS
<1>1. Inv'
  BY InvStep DEF HeapSafe
<1>2. CASE maps' = maps /\ progs' = progs /\ heapTop' = heapTop
  BY <1>1, <1>2 DEF HeapSafe
<1>3. CASE Next
  <2>1. HeapInv(maps, progs, heapTop)' \/ mapAddDone
    BY <1>1, <1>3, HeapMapAdd, HeapMapAddEntry, HeapEntryAdd, HeapProgAdd,
       HeapProgAllocateAndAdd, HeapAlloc DEF Next
  <2>2. QED
    BY <1>1, <1>2, <2>1 DEF mapAddDone, HeapSafe
<1>4. QED
  BY <1>2, <1>3 DEF vars

(* Whatever calls are made and whichever of their allocations fail, no two   *)
(* blocks reachable from the syspage share heap, and all of them lie between *)
(* the syspage and the size it tells the kernel to take over.                *)
THEOREM HeapDisjoint == Spec => []HeapBlocksDisjoint
<1>1. HeapSafe => HeapBlocksDisjoint
  BY BlocksApart DEF HeapSafe, Inv
<1>2. QED
  BY HeapInit, HeapStep, <1>1, PTL DEF Spec

(* What EntriesKept says of a step.                                          *)
MapsKept ==
  \A m \in DOMAIN maps :
    /\ m \in DOMAIN maps'
    /\ [maps'[m] EXCEPT !.entries = <<>>] = [maps[m] EXCEPT !.entries = <<>>]
    /\ entriesOf(maps[m]) \subseteq entriesOf(maps'[m])

(* syspage_sortedInsert keeps the maps, and the new entry is among them.     *)
LEMMA KeptInsert ==
  ASSUME Inv, NEW m \in DOMAIN maps, NEW e \in Entry,
         maps' = [maps EXCEPT ![m].entries = syspage_sortedInsert(@, e)]
  PROVE  MapsKept /\ m \in DOMAIN maps' /\ e \in entriesOf(maps'[m])
<1> DEFINE new == syspage_sortedInsert(maps[m].entries, e)
<1>1. maps[m] \in Map /\ maps[m].entries \in Seq(Entry) /\ \A k \in DOMAIN maps : maps[k] \in Map
  BY MapFields DEF Inv, TypeOK
<1>2. maps' = [maps EXCEPT ![m] = [maps[m] EXCEPT !.entries = new]]
  OBVIOUS
<1>3. PICK from \in [DOMAIN new -> {0} \cup DOMAIN maps[m].entries] :
        /\ \A i \in DOMAIN new : new[i] = IF from[i] = 0 THEN e ELSE maps[m].entries[from[i]]
        /\ \A i, j \in DOMAIN new : i # j => from[i] # from[j]
        /\ \A k \in {0} \cup DOMAIN maps[m].entries : \E i \in DOMAIN new : from[i] = k
  BY <1>1, InsertSource, ZenonT(60)
<1> HIDE DEF new
<1>4. /\ DOMAIN maps' = DOMAIN maps
      /\ \A k \in DOMAIN maps : k # m => maps'[k] = maps[k]
      /\ maps'[m] = [maps[m] EXCEPT !.entries = new]
  BY <1>2 DEF Inv, TypeOK
<1>5. maps'[m].entries = new
  BY <1>1, <1>4 DEF Map
<1>6. e \in entriesOf(maps'[m])
  <2>1. PICK i \in DOMAIN new : from[i] = 0
    BY <1>3
  <2>2. new[i] = e
    BY <1>3, <2>1
  <2>3. QED
    BY <1>5, <2>2 DEF entriesOf
<1>7. entriesOf(maps[m]) \subseteq entriesOf(maps'[m])
  <2> SUFFICES ASSUME NEW k \in DOMAIN maps[m].entries
               PROVE  maps[m].entries[k] \in entriesOf(maps'[m])
    BY DEF entriesOf
  <2>1. k # 0
    BY <1>1
  <2>2. PICK i \in DOMAIN new : from[i] = k
    BY <1>3
  <2>3. new[i] = maps[m].entries[k]
    BY <1>3, <2>1, <2>2
  <2>4. QED
    BY <1>5, <2>3 DEF entriesOf
<1>8. [maps'[m] EXCEPT !.entries = <<>>] = [maps[m] EXCEPT !.entries = <<>>]
  BY <1>1, <1>4 DEF Map
<1>9. \A k \in DOMAIN maps : /\ k \in DOMAIN maps'
                            /\ [maps'[k] EXCEPT !.entries = <<>>] = [maps[k] EXCEPT !.entries = <<>>]
                            /\ entriesOf(maps[k]) \subseteq entriesOf(maps'[k])
  BY <1>4, <1>7, <1>8
<1>10. QED
  BY <1>4, <1>6, <1>9 DEF MapsKept

(* The same for the entry syspage_entryAdd builds.                           *)
LEMMA KeptWithEntry ==
  ASSUME Inv, NEW m \in DOMAIN maps, NEW start \in Addr, NEW size \in Nat, NEW proper \in BOOLEAN,
         maps' = withEntry(m, start, size, proper)
  PROVE  /\ MapsKept /\ m \in DOMAIN maps'
         /\ \E e \in entriesOf(maps'[m]) :
              e.type = "allocated" /\ e.start = start /\ e.end = (start + size) % AddrSpace
<1> DEFINE e == [start |-> start, end |-> (start + size) % AddrSpace, type |-> "allocated", at |-> heapTop,
                 proper |-> proper]
<1>1. (start + size) % AddrSpace \in Addr
  BY AddrNat, SyspageAssumption DEF Addr
<1>2. e \in Entry /\ e.type = "allocated" /\ e.start = start /\ e.end = (start + size) % AddrSpace
  BY <1>1 DEF Entry, Inv, TypeOK
<1>3. maps' = [maps EXCEPT ![m].entries = syspage_sortedInsert(@, e)]
  BY DEF withEntry
<1> HIDE DEF e
<1>4. MapsKept /\ m \in DOMAIN maps' /\ e \in entriesOf(maps'[m])
  BY <1>2, <1>3, KeptInsert
<1>5. QED
  BY <1>2, <1>4

(* No step takes anything from the maps, and a program that a step adds has  *)
(* an entry for its memory when it has memory.                               *)
Reserved(p) ==
  p.start # None =>
    \E m \in DOMAIN maps' : \E e \in entriesOf(maps'[m]) :
      e.type = "allocated" /\ e.start = p.start /\ e.end = p.end

ProgsKept == progs' = progs \/ \E p \in Prog : progs' = Append(progs, p) /\ Reserved(p)

(* syspage_mapAdd up to the loop keeps both.                                 *)
LEMMA KeptMapAdd ==
  ASSUME Inv, NEW name \in MapNames, NEW range \in MapRanges, NEW attrValid \in BOOLEAN,
         syspage_mapAdd(name, range[1], range[2], attrValid), Inv'
  PROVE  MapsKept /\ ProgsKept
<1> DEFINE new == [name |-> name, start |-> range[1], end |-> range[2],
                   id |-> mapId, at |-> heapTop, entries |-> <<>>]
<1>1. progs' = progs /\ (maps' = maps \/ maps' = Append(maps, new))
  BY DEF syspage_mapAdd
<1>2. maps \in Seq(Map) /\ maps' \in Seq(Map)
  BY DEF Inv, TypeOK
<1> HIDE DEF new
<1>3. \A m \in DOMAIN maps : m \in DOMAIN maps' /\ maps'[m] = maps[m]
  BY <1>1, <1>2
<1>4. QED
  BY <1>1, <1>3 DEF MapsKept, ProgsKept

(* An iteration of its loop keeps both.                                      *)
LEMMA KeptMapAddEntry ==
  ASSUME Inv, mapAddEntry
  PROVE  MapsKept /\ ProgsKept
<1> DEFINE end == maps[last].end
           h == hal_memoryGetNextEntry(cursor, end)
           e == [start |-> h.start, end |-> h.end, type |-> h.type, at |-> heapTop,
                 proper |-> TRUE]
<1>1. cursor # None /\ overlapped(cursor, end) # {} /\ progs' = progs
  BY DEF mapAddEntry
<1>2. last \in DOMAIN maps /\ maps[last] \in Map
  BY <1>1 DEF Inv, TypeOK, last
<1>3. cursor \in Addr /\ end \in Addr /\ cursor <= end
  BY <1>1, <1>2, MapFields DEF Inv, TypeOK, CursorInMap
<1>4. h.start \in Addr /\ h.end \in Addr /\ h.type \in {"reserved", "temp"}
  <2> HIDE DEF end
  <2>1. QED
    BY <1>1, <1>3, HalEntry
<1>5. e \in Entry
  <2> HIDE DEF h
  <2>1. QED
    BY <1>4 DEF Entry, Inv, TypeOK
<1>6. CASE maps' = maps
  BY <1>1, <1>6 DEF MapsKept, ProgsKept
<1>7. CASE maps' = [maps EXCEPT ![last].entries = syspage_sortedInsert(@, e)]
  <2> HIDE DEF e
  <2>1. MapsKept
    BY <1>2, <1>5, <1>7, KeptInsert
  <2>2. QED
    BY <1>1, <2>1 DEF ProgsKept
<1>8. QED
  BY <1>6, <1>7 DEF mapAddEntry

(* syspage_entryAdd keeps both.                                              *)
LEMMA KeptEntryAdd ==
  ASSUME Inv, NEW c \in EntryCalls, syspage_entryAdd(c.mapName, c.start, c.size, c.align)
  PROVE  MapsKept /\ ProgsKept
<1> DEFINE m == entryMap(c.mapName, c.start, c.size)
           s == entryStart(c.mapName, c.start, c.size, c.align)
           proper == grantable(maps[m], c.mapName, c.start, c.size, c.align)
<1>0. proper \in BOOLEAN
  BY GrantableType
<1>1. c.start \in Addr /\ c.size \in Nat /\ c.align \in Nat
  <2>1. c \in [mapName : MapNames \cup {NULL}, start : Addr, size : Addr, align : Addr]
    BY SyspageAssumption
  <2>2. QED
    BY <2>1, AddrNat
<1>2. s \in Addr \cup {None} /\ (s # None => m \in DOMAIN maps)
  BY <1>1, EntryStartType DEF Inv
<1>3. progs' = progs
  BY DEF syspage_entryAdd
<1>4. CASE maps' = maps
  BY <1>3, <1>4 DEF MapsKept, ProgsKept
<1>5. CASE s # None /\ maps' = withEntry(m, s, c.size, proper)
  <2> HIDE DEF m, s, proper
  <2>1. MapsKept
    BY <1>0, <1>1, <1>2, <1>5, KeptWithEntry
  <2>2. QED
    BY <1>3, <2>1 DEF ProgsKept
<1>6. QED
  BY <1>4, <1>5 DEF syspage_entryAdd

(* syspage_progAdd keeps both: its caller sets the memory of the program.    *)
LEMMA KeptProgAdd ==
  ASSUME Inv, NEW argv \in Argvs, NEW exec \in BOOLEAN, syspage_progAdd(argv, exec)
  PROVE  MapsKept /\ ProgsKept
<1> DEFINE new == prog(argv, exec, heapTop, None, None)
<1>1. new \in Prog /\ new.start = None
  BY DEF prog, Prog, Inv, TypeOK
<1>2. maps' = maps /\ (progs' = progs \/ progs' = Append(progs, new))
  BY DEF syspage_progAdd
<1> HIDE DEF new
<1>3. Reserved(new)
  BY <1>1 DEF Reserved
<1>4. QED
  BY <1>1, <1>2, <1>3 DEF MapsKept, ProgsKept

(* syspage_progAllocateAndAdd keeps both: the entry comes with the program.  *)
LEMMA KeptProgAllocateAndAdd ==
  ASSUME Inv, NEW mapName \in MapNames, NEW size \in ProgSizes, NEW argv \in Argvs,
         NEW exec \in BOOLEAN, NEW allowOverwrite \in BOOLEAN,
         syspage_progAllocateAndAdd(mapName, size, argv, exec, allowOverwrite)
  PROVE  MapsKept /\ ProgsKept
<1> DEFINE m == syspage_mapGet(mapName)
           s == entryStart(mapName, Anywhere, size, SizePage)
           end == (s + size) % AddrSpace
           top == newTop(heapTop, SizeEntry)
           new == prog(argv, exec, top, s, end)
           proper == grantable(maps[m], mapName, Anywhere, size, SizePage)
<1>0. proper \in BOOLEAN
  BY GrantableType
<1>1. Anywhere \in Addr /\ size \in Nat /\ SizePage \in Nat
  <2>1. Anywhere \in Addr
    BY SyspageAssumption DEF Anywhere, Addr
  <2>2. QED
    BY <2>1, AddrNat, SyspageAssumption, SizesNat
<1>2. m = entryMap(mapName, Anywhere, size)
  BY SyspageAssumption DEF entryMap
<1>3. s \in Addr \cup {None} /\ (s # None => m \in DOMAIN maps)
  BY <1>1, <1>2, EntryStartType DEF Inv
<1>4. CASE maps' = maps /\ progs' = progs
  BY <1>4 DEF MapsKept, ProgsKept
<1>5. CASE /\ s # None /\ maps' = withEntry(m, s, size, proper)
           /\ progs' = progs \/ progs' = Append(progs, new)
  <2> HIDE DEF m, s, proper
  <2>1. /\ MapsKept /\ m \in DOMAIN maps'
        /\ \E e \in entriesOf(maps'[m]) : e.type = "allocated" /\ e.start = s /\ e.end = end
    BY <1>0, <1>1, <1>3, <1>5, KeptWithEntry
  <2>2. end \in Addr /\ top \in Nat
    <3>1. end \in Addr
      BY <1>1, <1>3, <1>5, AddrNat, SyspageAssumption DEF Addr
    <3>2. top \in Nat
      BY NewTopType, SizesNat DEF Inv, TypeOK
    <3>3. QED
      BY <3>1, <3>2
  <2> HIDE DEF end, top
  <2>3. new \in Prog /\ new.start = s /\ new.end = end
    BY <1>3, <1>5, <2>2 DEF prog, Prog
  <2> HIDE DEF new
  <2>4. Reserved(new)
    BY <2>1, <2>3 DEF Reserved
  <2>5. QED
    BY <1>5, <2>1, <2>3, <2>4 DEF ProgsKept
<1>6. QED
  BY <1>4, <1>5 DEF syspage_progAllocateAndAdd

(* So does every step.                                                       *)
LEMMA KeptStep == Inv /\ [Next]_vars => MapsKept /\ ProgsKept
<1> SUFFICES ASSUME Inv, [Next]_vars PROVE MapsKept /\ ProgsKept
  OBVIOUS
<1>1. Inv'
  BY InvStep
<1>2. CASE maps' = maps /\ progs' = progs
  BY <1>2 DEF MapsKept, ProgsKept
<1>3. CASE Next
  <2>1. \/ MapsKept /\ ProgsKept
        \/ mapAddDone \/ \E size \in {0, SizeArgv} : syspage_alloc(size)
    BY <1>1, <1>3, KeptMapAdd, KeptMapAddEntry, KeptEntryAdd, KeptProgAdd, KeptProgAllocateAndAdd DEF Next
  <2>2. QED
    BY <1>2, <2>1 DEF mapAddDone, syspage_alloc
<1>4. QED
  BY <1>2, <1>3 DEF vars

(* No call moves, changes or drops a map or an entry that is linked: what    *)
(* syspage_entryAdd returned, and the id of a map, stay good for ever.       *)
THEOREM NothingDropped == Spec => EntriesKept
<1>1. Inv /\ [Next]_vars => [MapsKept]_vars
  BY KeptStep
<1>2. QED
  BY InvInit, InvStep, <1>1, PTL DEF Spec, EntriesKept, MapsKept

(* The memory given to a program by syspage_progAllocateAndAdd stays held by *)
(* an entry, whichever calls follow.                                         *)
THEOREM ProgramMemoryHeld == Spec => []ProgramsReserved
<1>1. syspage_init => ProgramsReserved
  BY DEF syspage_init, ProgramsReserved
<1>2. ProgramsReserved /\ Inv /\ [Next]_vars => ProgramsReserved'
  <2> SUFFICES ASSUME ProgramsReserved, Inv, [Next]_vars, NEW p \in DOMAIN progs', progs'[p].start # None
               PROVE  \E m \in DOMAIN maps' : \E e \in entriesOf(maps'[m]) :
                        e.type = "allocated" /\ e.start = progs'[p].start /\ e.end = progs'[p].end
    BY DEF ProgramsReserved, entriesOf
  <2>1. MapsKept /\ ProgsKept
    BY KeptStep
  <2>2. progs \in Seq(Prog)
    BY DEF Inv, TypeOK
  <2>3. CASE p \in DOMAIN progs /\ progs'[p] = progs[p]
    <3>1. PICK m \in DOMAIN maps : \E e \in entriesOf(maps[m]) :
            e.type = "allocated" /\ e.start = progs[p].start /\ e.end = progs[p].end
      BY <2>3 DEF ProgramsReserved
    <3>2. m \in DOMAIN maps' /\ entriesOf(maps[m]) \subseteq entriesOf(maps'[m])
      BY <2>1 DEF MapsKept
    <3>3. QED
      BY <2>3, <3>1, <3>2
  <2>4. CASE \E q \in Prog : progs'[p] = q /\ Reserved(q)
    BY <2>4 DEF Reserved
  <2>5. QED
    BY <2>1, <2>2, <2>3, <2>4 DEF ProgsKept
<1>3. QED
  BY InvInit, InvStep, <1>1, <1>2, PTL DEF Spec

(****************************************************************************)
(* Layout: while a map has granted only what it had room for, its entries    *)
(* are disjoint and inside it, however they are packed, and syspage_bestFit  *)
(* returns a free place when there is one.  The size of a gap does wrap when *)
(* aligning passes the next entry; a wrapped size is larger than any real    *)
(* gap, so that it is never the best one then.                               *)
(****************************************************************************)
(* Rounding x up to a multiple of p gives the least multiple of p from x on. *)
LEMMA AlignUp ==
  ASSUME NEW x \in Nat, NEW p \in Nat \ {0}
  PROVE  LET y == x + p - 1
             up == y - (y % p)
         IN /\ up \in Nat /\ x <= up /\ up < x + p /\ up % p = 0
            /\ \A s \in Nat : x <= s /\ s % p = 0 => up <= s
<1> DEFINE y == x + p - 1
           q == y \div p
           up == y - (y % p)
<1>1. y \in Nat
  OBVIOUS
<1> HIDE DEF y
<1>2. q \in Nat /\ y = p * q + (y % p) /\ y % p \in 0..p - 1
  BY <1>1
<1>3. up = p * q
  BY <1>1, <1>2
<1>4. up \in Nat /\ x <= up /\ up < x + p
  BY <1>1, <1>2, <1>3 DEF y
<1>5. up % p = 0
  <2> HIDE DEF q, up
  <2>1. (p * q) % p = 0
    BY <1>2
  <2>2. QED
    BY <1>3, <2>1
<1>6. ASSUME NEW s \in Nat, x <= s, s % p = 0
      PROVE  up <= s
  <2> DEFINE k == s \div p
  <2>1. k \in Nat /\ s = p * k
    BY <1>6
  <2> HIDE DEF k, q, up
  <2>2. SUFFICES ASSUME q >= k + 1 PROVE FALSE
    <3>1. q <= k => p * q <= p * k
      BY <1>2, <2>1
    <3>2. QED
      BY <1>2, <1>3, <2>1, <3>1
  <2>3. p * q >= p * (k + 1)
    BY <1>2, <2>1, <2>2
  <2>4. p * (k + 1) = p * k + p
    BY <2>1
  <2>5. p * q <= y /\ p * k = s /\ p * q \in Nat
    BY <1>1, <1>2, <2>1
  <2>6. QED
    BY <1>6, <2>3, <2>4, <2>5 DEF y
<1>7. QED
  BY <1>4, <1>5, <1>6 DEF y

(* The same for ALIGN_ADDR, as long as nothing leaves an unsigned int.       *)
LEMMA AlignAbove ==
  ASSUME NEW x \in Nat, NEW align \in Nat, x + align <= UintSpace
  PROVE  /\ ALIGN_ADDR(x, align) \in Nat /\ x <= ALIGN_ADDR(x, align)
         /\ ALIGN_ADDR(x, align) = x \/ ALIGN_ADDR(x, align) < x + align
         /\ align = 0 \/ ALIGN_ADDR(x, align) % align = 0
         /\ \A s \in Nat : x <= s /\ (align = 0 \/ s % align = 0) => ALIGN_ADDR(x, align) <= s
<1>1. CASE align = 0
  BY <1>1 DEF ALIGN_ADDR
<1>2. CASE align # 0
  <2> DEFINE y == x + align - 1
             up == y - (y % align)
  <2>1. align \in Nat \ {0} /\ AddrSpace \in Nat \ {0} /\ UintSpace \in Nat \ {0} /\ UintSpace <= AddrSpace
    BY <1>2, SyspageAssumption
  <2>2. y \in Nat /\ y < UintSpace /\ y < AddrSpace
    BY <2>1
  <2>3. /\ up \in Nat /\ x <= up /\ up < x + align /\ up % align = 0
        /\ \A s \in Nat : x <= s /\ s % align = 0 => up <= s
    BY <2>1, AlignUp
  <2>4. ALIGN_ADDR(x, align) = ((y % AddrSpace) - ((y % AddrSpace) % align)) % UintSpace
    BY <1>2 DEF ALIGN_ADDR
  <2>5. y % AddrSpace = y
    <3> HIDE DEF y
    <3>1. QED
      BY <2>1, <2>2
  <2>6. ALIGN_ADDR(x, align) = up % UintSpace
    BY <2>4, <2>5
  <2> HIDE DEF up, y
  <2>7. up % UintSpace = up
    BY <2>1, <2>3
  <2>8. QED
    BY <1>2, <2>3, <2>6, <2>7
<1>3. QED
  BY <1>1, <1>2

(* What the entries of such a map are: inside it, not empty, and each ends   *)
(* before the next one starts.                                               *)
GoodEntries(start, end, entries) ==
  /\ \A i \in DOMAIN entries : /\ start <= entries[i].start
                               /\ entries[i].start < entries[i].end
                               /\ entries[i].end <= end
  /\ \A i, j \in DOMAIN entries : i < j => entries[i].end <= entries[j].start

(* syspage_sortedInsert keeps that, for an entry clear of all the others.    *)
LEMMA InsertGood ==
  ASSUME NEW entries \in Seq(Entry), NEW e \in Entry, NEW start \in Nat, NEW end \in Nat,
         GoodEntries(start, end, entries),
         start <= e.start, e.start < e.end, e.end <= end,
         \A i \in 1..Len(entries) : entries[i].end <= e.start \/ e.end <= entries[i].start
  PROVE  GoodEntries(start, end, syspage_sortedInsert(entries, e))
<1> DEFINE pos == insertPos(entries, e)
           n == Len(entries)
           new == syspage_sortedInsert(entries, e)
<1>1. n \in Nat /\ pos \in 1..n + 1 /\ DOMAIN entries = 1..n
  BY InsertPos
<1>2. new = [i \in 1..n + 1 |-> IF i < pos THEN entries[i] ELSE IF i = pos THEN e ELSE entries[i - 1]]
  BY DEF syspage_sortedInsert
<1>3. /\ pos <= n => e.start < entries[pos].start
      /\ \A j \in 1..pos - 1 : entries[j].start <= e.start
  BY InsertPos
<1> HIDE DEF pos, new
<1>4. e.start \in Nat /\ e.end \in Nat /\ \A i \in 1..n : entries[i].start \in Nat /\ entries[i].end \in Nat
  BY EntryFields, EntryStarts
<1>5. \A i \in 1..n : entries[i].start < entries[i].end
  BY <1>1 DEF GoodEntries
<1>6. \A i \in 1..n : i < pos => entries[i].end <= e.start
  <2> SUFFICES ASSUME NEW i \in 1..n, i < pos
               PROVE  entries[i].end <= e.start
    OBVIOUS
  <2>1. entries[i].start <= e.start
    BY <1>1, <1>3
  <2>2. entries[i].end <= e.start \/ e.end <= entries[i].start
    OBVIOUS
  <2>3. QED
    BY <1>4, <2>1, <2>2
<1>7. \A i \in 1..n : i >= pos => e.end <= entries[i].start
  <2> SUFFICES ASSUME NEW i \in 1..n, i >= pos
               PROVE  e.end <= entries[i].start
    OBVIOUS
  <2>1. e.start < entries[pos].start /\ pos \in 1..n
    BY <1>1, <1>3
  <2>2. pos = i \/ entries[pos].end <= entries[i].start
    BY <1>1, <2>1 DEF GoodEntries
  <2>3. entries[pos].start < entries[pos].end
    BY <1>5, <2>1
  <2>4. e.start < entries[i].start
    BY <1>4, <2>1, <2>2, <2>3
  <2>5. QED
    BY <1>4, <1>5, <2>4
<1>8. DOMAIN new = 1..n + 1
  BY <1>2
<1>9. ASSUME NEW i \in 1..n + 1
      PROVE  /\ i < pos => (i \in 1..n /\ new[i] = entries[i])
             /\ i = pos => new[i] = e
             /\ i > pos => (i - 1 \in 1..n /\ new[i] = entries[i - 1])
  BY <1>1, <1>2
<1>10. ASSUME NEW i \in 1..n + 1
       PROVE  /\ start <= new[i].start /\ new[i].start < new[i].end /\ new[i].end <= end
  <2>1. CASE i < pos
    BY <1>1, <1>9, <2>1 DEF GoodEntries
  <2>2. CASE i = pos
    BY <1>9, <2>2
  <2>3. CASE i > pos
    BY <1>1, <1>9, <2>3 DEF GoodEntries
  <2>4. QED
    BY <1>1, <2>1, <2>2, <2>3
<1>11. ASSUME NEW i \in 1..n + 1, NEW j \in 1..n + 1, i < j
       PROVE  new[i].end <= new[j].start
  <2>1. CASE j < pos
    <3>1. i < pos
      BY <1>1, <1>11, <2>1
    <3>2. QED
      BY <1>1, <1>9, <1>11, <2>1, <3>1 DEF GoodEntries
  <2>2. CASE j = pos
    <3>1. i < pos
      BY <1>1, <1>11, <2>2
    <3>2. QED
      BY <1>6, <1>9, <2>2, <3>1
  <2>3. CASE j > pos /\ i < pos
    <3>2. new[i] = entries[i] /\ new[j] = entries[j - 1] /\ i \in 1..n /\ j - 1 \in 1..n
      BY <1>9, <2>3
    <3>3. entries[i].end <= e.start /\ e.end <= entries[j - 1].start
      BY <1>1, <1>6, <1>7, <2>3, <3>2
    <3>4. QED
      BY <1>4, <3>2, <3>3
  <2>4. CASE j > pos /\ i = pos
    <3>1. new[i] = e /\ new[j] = entries[j - 1] /\ j - 1 \in 1..n /\ j - 1 >= pos
      BY <1>1, <1>9, <2>4
    <3>2. QED
      BY <1>7, <3>1
  <2>5. CASE j > pos /\ i > pos
    <3>1. new[i] = entries[i - 1] /\ new[j] = entries[j - 1] /\ i - 1 \in 1..n /\ j - 1 \in 1..n /\ i - 1 < j - 1
      BY <1>1, <1>9, <1>11, <2>5
    <3>2. QED
      BY <1>1, <3>1 DEF GoodEntries
  <2>6. QED
    BY <1>1, <2>1, <2>2, <2>3, <2>4, <2>5, <1>11
<1>12. QED
  BY <1>8, <1>10, <1>11 DEF GoodEntries, new

(* A place for size bytes in a map: inside it, clear of the entries.         *)
Place(map, start, size) ==
  /\ map.start <= start /\ start + size <= map.end
  /\ \A i \in 1..Len(map.entries) :
       map.entries[i].end <= start \/ start + size <= map.entries[i].start

(* A map whose entries are good.                                             *)
GoodMap(map) == map.start < map.end /\ GoodEntries(map.start, map.end, map.entries)

(* The gap before entry i.  When aligning passes the next entry the size     *)
(* wraps, and exceeds the address of the end of the map.                     *)
LEMMA GapBounds ==
  ASSUME NEW map \in Map, GoodMap(map), NEW align \in Nat, alignable(map, align),
         NEW i \in 1..Len(map.entries) + 1
  PROVE  LET n == Len(map.entries)
             prev == IF i = 1 THEN map.start ELSE map.entries[i - 1].end
             next == IF i <= n THEN map.entries[i].start ELSE map.end
             g == gapStart(map, i, align)
         IN /\ prev \in Nat /\ next \in Nat /\ g \in Nat
            /\ map.start <= prev /\ prev <= g /\ next <= map.end
            /\ align = 0 \/ g % align = 0
            /\ \A s \in Nat : prev <= s /\ (align = 0 \/ s % align = 0) => g <= s
            /\ g <= next => gapSize(map, i, align) = next - g
            /\ g > next => gapSize(map, i, align) > map.end
<1> DEFINE n == Len(map.entries)
           ents == map.entries
           prev == IF i = 1 THEN map.start ELSE ents[i - 1].end
           next == IF i <= n THEN ents[i].start ELSE map.end
           g == gapStart(map, i, align)
<1>0. AddrSpace \in Nat \ {0} /\ UintSpace \in Nat /\ UintSpace <= AddrSpace
  BY SyspageAssumption
<1>1. /\ map.start \in Nat /\ map.end \in Nat /\ n \in Nat /\ ents \in Seq(Entry)
      /\ DOMAIN ents = 1..n
  BY MapFields
<1>2. map.start < map.end /\ map.end + align <= UintSpace
  BY DEF GoodMap, alignable
<1>3. \A k \in 1..n : ents[k].start \in Nat /\ ents[k].end \in Nat
  BY <1>1, EntryStarts
<1>4. \A k \in 1..n : /\ map.start <= ents[k].start
                      /\ ents[k].start < ents[k].end /\ ents[k].end <= map.end
  BY <1>1 DEF GoodMap, GoodEntries
<1>5. \A k, j \in 1..n : k < j => ents[k].end <= ents[j].start
  BY <1>1 DEF GoodMap, GoodEntries
<1>6. g = ALIGN_ADDR(prev, align)
  BY DEF gapStart
<1>7. i # 1 => i - 1 \in 1..n
  BY <1>1
<1>8. prev \in Nat /\ map.start <= prev /\ prev <= next /\ next \in Nat /\ next <= map.end
  <2>1. CASE i = 1
    BY <1>1, <1>2, <1>3, <1>4, <2>1
  <2>2. CASE i # 1
    <3> DEFINE b == ents[i - 1]
    <3>1. prev = b.end
      BY <2>2
    <3>2. /\ b.start \in Nat /\ b.end \in Nat
          /\ map.start <= b.start /\ b.start < b.end /\ b.end <= map.end
      BY <1>3, <1>4, <1>7, <2>2
    <3>3. map.start <= b.end
      BY <1>1, <3>2
    <3>4. CASE i <= n
      <4>1. i \in 1..n /\ i - 1 < i /\ next = ents[i].start
        BY <1>1, <3>4
      <4>2. b.end <= ents[i].start
        BY <1>5, <1>7, <2>2, <4>1
      <4>3. /\ ents[i].start \in Nat /\ ents[i].end \in Nat
            /\ ents[i].start < ents[i].end /\ ents[i].end <= map.end
        BY <1>3, <1>4, <4>1
      <4>4. ents[i].start <= map.end
        BY <1>1, <4>3
      <4> HIDE DEF b, prev, next
      <4>5. QED
        BY <3>1, <3>2, <3>3, <4>1, <4>2, <4>3, <4>4
    <3>5. CASE ~(i <= n)
      <4>1. next = map.end
        BY <3>5
      <4> HIDE DEF b, prev, next
      <4>2. QED
        BY <1>1, <1>2, <3>1, <3>2, <3>3, <4>1
    <3>6. QED
      BY <3>4, <3>5
  <2>3. QED
    BY <2>1, <2>2
<1>9. gapSize(map, i, align) = (next + AddrSpace - g) % AddrSpace
  BY DEF gapSize
<1> HIDE DEF prev, next, g
<1>10. /\ g \in Nat /\ prev <= g /\ (g = prev \/ g < prev + align)
       /\ align = 0 \/ g % align = 0
       /\ \A s \in Nat : prev <= s /\ (align = 0 \/ s % align = 0) => g <= s
  <2>1. prev + align <= UintSpace
    BY <1>0, <1>1, <1>2, <1>8
  <2>2. QED
    BY <1>6, <1>8, <2>1, AlignAbove
<1>11. ASSUME g <= next
       PROVE  gapSize(map, i, align) = next - g
  <2> DEFINE d == next - g
  <2>0. g \in Nat /\ g <= next /\ next \in Nat /\ next < AddrSpace
    <3>1. next <= map.end /\ map.end + align <= UintSpace /\ map.end < AddrSpace
      BY <1>2, <1>8, MapFields, SyspageAssumption DEF Addr
    <3>2. QED
      BY <1>0, <1>1, <1>8, <1>10, <1>11, <3>1
  <2>1. d \in Nat /\ d < AddrSpace /\ next + AddrSpace - g = d + AddrSpace
    BY <1>0, <2>0
  <2>2. gapSize(map, i, align) = (d + AddrSpace) % AddrSpace
    BY <1>9, <2>1
  <2> HIDE DEF d
  <2>3. (d + AddrSpace) % AddrSpace = d
    BY <1>0, <2>1
  <2>4. QED
    BY <2>2, <2>3 DEF d
<1>12. ASSUME g > next
       PROVE  gapSize(map, i, align) > map.end
  <2> DEFINE d == next + AddrSpace - g
  <2>1. d \in Nat /\ d < AddrSpace /\ d > map.end
    BY <1>0, <1>1, <1>2, <1>8, <1>10, <1>12
  <2>2. gapSize(map, i, align) = d % AddrSpace
    BY <1>9
  <2> HIDE DEF d
  <2>3. d % AddrSpace = d
    BY <1>0, <2>1
  <2>4. QED
    BY <2>1, <2>2, <2>3
<1>13. QED
  BY <1>8, <1>10, <1>11, <1>12 DEF prev, next, g

(* The start of a gap that is large enough and did not wrap is a place.      *)
LEMMA GapPlace ==
  ASSUME NEW map \in Map, GoodMap(map), NEW align \in Nat, alignable(map, align),
         NEW size \in Nat, NEW i \in 1..Len(map.entries) + 1,
         gapSize(map, i, align) >= size, gapSize(map, i, align) <= map.end
  PROVE  Place(map, gapStart(map, i, align), size)
<1> DEFINE n == Len(map.entries)
           ents == map.entries
           prev == IF i = 1 THEN map.start ELSE ents[i - 1].end
           next == IF i <= n THEN ents[i].start ELSE map.end
           g == gapStart(map, i, align)
<1>1. /\ map.start \in Nat /\ map.end \in Nat /\ n \in Nat /\ ents \in Seq(Entry)
      /\ DOMAIN ents = 1..n
  BY MapFields
<1>2. /\ prev \in Nat /\ next \in Nat /\ g \in Nat
      /\ map.start <= prev /\ prev <= g /\ next <= map.end
      /\ g <= next => gapSize(map, i, align) = next - g
      /\ g > next => gapSize(map, i, align) > map.end
  BY GapBounds
<1>3. \A j \in 1..n : ents[j].start \in Nat /\ ents[j].end \in Nat
  BY <1>1, EntryStarts
<1>4. \A j \in 1..n : ents[j].start < ents[j].end
  BY <1>1 DEF GoodMap, GoodEntries
<1>5. \A k, j \in 1..n : k < j => ents[k].end <= ents[j].start
  BY <1>1 DEF GoodMap, GoodEntries
<1>6. gapSize(map, i, align) \in Nat
  BY GapType
<1> HIDE DEF prev, next, g
<1>7. g + size <= next
  BY <1>1, <1>2, <1>6
<1>8. ASSUME NEW j \in 1..n
      PROVE  ents[j].end <= g \/ g + size <= ents[j].start
  <2>1. CASE j < i
    <3>1. i # 1 /\ i - 1 \in 1..n /\ prev = ents[i - 1].end
      BY <1>1, <2>1 DEF prev
    <3>2. j = i - 1 \/ ents[j].end <= ents[i - 1].start
      BY <1>1, <1>5, <2>1, <3>1
    <3>3. ents[j].end <= prev
      BY <1>3, <1>4, <3>1, <3>2
    <3>4. QED
      BY <1>2, <1>3, <3>3
  <2>2. CASE j >= i
    <3>1. i \in 1..n /\ next = ents[i].start
      BY <1>1, <2>2 DEF next
    <3>2. j = i \/ ents[i].end <= ents[j].start
      BY <1>1, <1>5, <2>2, <3>1
    <3>3. ents[i].start <= ents[j].start
      BY <1>3, <1>4, <3>1, <3>2
    <3>4. QED
      BY <1>2, <1>3, <1>7, <3>1, <3>3
  <2>3. QED
    BY <1>1, <2>1, <2>2
<1>9. map.start <= g /\ g + size <= map.end
  BY <1>1, <1>2, <1>7
<1>10. QED
  BY <1>8, <1>9 DEF Place, g

(* If size bytes of a map with entries are free at an aligned address, one   *)
(* of the gaps passes the test of syspage_bestFit: the one before the first  *)
(* entry that starts beyond those bytes, and its size did not wrap.          *)
LEMMA GapFound ==
  ASSUME NEW map \in Map, GoodMap(map), NEW align \in Nat, alignable(map, align),
         NEW size \in Nat, map.entries # <<>>, NEW a \in FreeAt(map, size, align)
  PROVE  \E i \in 1..Len(map.entries) + 1 :
           gapFits(map, i, size, align) /\ gapSize(map, i, align) <= map.end
<1> DEFINE n == Len(map.entries)
           ents == map.entries
           beyond == {i \in 1..n + 1 : i <= n => a + size <= ents[i].start}
<1>0. AddrSpace \in Nat \ {0} /\ UintSpace \in Nat /\ UintSpace <= AddrSpace
  BY SyspageAssumption
<1>1. /\ map.start \in Nat /\ map.end \in Nat /\ n \in Nat /\ ents \in Seq(Entry)
      /\ DOMAIN ents = 1..n /\ n >= 1
  BY MapFields
<1>2. map.end + align <= UintSpace /\ map.end < AddrSpace
  BY MapFields, SyspageAssumption DEF alignable, Addr
<1>3. /\ a \in Nat /\ map.start <= a /\ (align = 0 \/ a % align = 0) /\ a + size <= map.end
      /\ \A k \in 1..n : ~overlaps(ents[k].start, ents[k].end, a, a + size)
  BY <1>1 DEF FreeAt, entriesOf
<1>4. \A k \in 1..n : /\ ents[k].start \in Nat /\ ents[k].end \in Nat
                      /\ ents[k].start < ents[k].end /\ ents[k].end <= map.end
  BY <1>1, EntryStarts DEF GoodMap, GoodEntries
<1>5. beyond \in SUBSET Nat /\ n + 1 \in beyond
  BY <1>1
<1>6. PICK i \in beyond : \A k \in beyond : i <= k
  BY <1>5, LeastNat
<1> DEFINE prev == IF i = 1 THEN map.start ELSE ents[i - 1].end
           next == IF i <= n THEN ents[i].start ELSE map.end
           g == gapStart(map, i, align)
<1>7. i \in 1..n + 1
  OBVIOUS
<1>8. /\ prev \in Nat /\ next \in Nat /\ g \in Nat
      /\ map.start <= prev /\ prev <= g /\ next <= map.end
      /\ \A s \in Nat : prev <= s /\ (align = 0 \/ s % align = 0) => g <= s
      /\ g <= next => gapSize(map, i, align) = next - g
  BY <1>7, GapBounds
<1>9. a + size <= next
  BY <1>3, <1>6
<1>10. prev <= a
  <2>1. CASE i = 1
    BY <1>3, <2>1
  <2>2. CASE i # 1
    <3>1. i - 1 \in 1..n /\ i - 1 \notin beyond
      BY <1>1, <1>6, <1>7, <2>2
    <3>2. ents[i - 1].start < a + size
      BY <1>3, <1>4, <3>1
    <3>3. ents[i - 1].end <= a
      BY <1>3, <1>4, <3>1, <3>2 DEF overlaps
    <3>4. QED
      BY <2>2, <3>3
  <2>3. QED
    BY <2>1, <2>2
<1>11. next < AddrSpace - 1 \/ 0 < prev
  <2>1. CASE i <= n
    <3>1. i \in 1..n /\ next = ents[i].start
      BY <1>1, <1>7, <2>1
    <3>2. next < map.end
      <4> DEFINE end == ents[i].end
      <4>1. next < end /\ end <= map.end /\ end \in Nat /\ next \in Nat
        BY <1>4, <3>1
      <4> HIDE DEF next, end
      <4>2. QED
        BY <1>1, <4>1
    <3>3. next \in Nat
      BY <1>8
    <3> HIDE DEF next
    <3>4. QED
      BY <1>0, <1>1, <1>2, <3>2, <3>3
  <2>2. CASE ~(i <= n)
    <3>1. i - 1 \in 1..n /\ prev = ents[i - 1].end
      BY <1>1, <1>7, <2>2
    <3>2. QED
      BY <1>4, <3>1
  <2>3. QED
    BY <2>1, <2>2
<1> HIDE DEF prev, next, g, beyond
<1>12. g <= a
  BY <1>3, <1>8, <1>10
<1>13. g + size <= next /\ next < AddrSpace
  BY <1>0, <1>1, <1>2, <1>3, <1>8, <1>9, <1>12
<1>14. /\ gapSize(map, i, align) >= size /\ gapSize(map, i, align) < AddrSpace - 1
       /\ gapSize(map, i, align) <= map.end
  <2>1. gapSize(map, i, align) = next - g
    BY <1>8, <1>13
  <2>2. QED
    BY <1>0, <1>1, <1>8, <1>11, <1>13, <2>1
<1>15. (g + size) % AddrSpace = g + size
  <2> DEFINE to == g + size
  <2>1. to \in Nat /\ to < AddrSpace
    BY <1>0, <1>8, <1>13
  <2> HIDE DEF to
  <2>2. to % AddrSpace = to
    BY <1>0, <2>1
  <2>3. QED
    BY <2>2 DEF to
<1>16. ASSUME i <= n
       PROVE  ~overlaps(ents[i].start, ents[i].end, g, (g + size) % AddrSpace)
  <2>1. next = ents[i].start
    BY <1>16 DEF next
  <2>2. QED
    BY <1>8, <1>13, <1>15, <2>1 DEF overlaps
<1>17. gapFits(map, i, size, align)
  BY <1>14, <1>16 DEF gapFits, g
<1>18. QED
  BY <1>7, <1>14, <1>17

(* syspage_bestFit returns a free place when there is one.                   *)
LEMMA BestFitFree ==
  ASSUME NEW map \in Map, GoodMap(map), NEW align \in Nat, alignable(map, align),
         NEW size \in Nat, 0 < size, FreeAt(map, size, align) # {}
  PROVE  LET best == syspage_bestFit(map, size, align)
         IN best \in Nat /\ Place(map, best, size) /\ best \in FreeAt(map, size, align)
<1> DEFINE best == syspage_bestFit(map, size, align)
           n == Len(map.entries)
<1>0. AddrSpace \in Nat \ {0}
  BY SyspageAssumption
<1>1. /\ map.start \in Nat /\ map.end \in Nat /\ map.entries \in Seq(Entry) /\ n \in Nat
      /\ DOMAIN map.entries = 1..n /\ map.end < AddrSpace
  BY MapFields, SyspageAssumption DEF Addr
<1>2. PICK a \in FreeAt(map, size, align) : TRUE
  OBVIOUS
<1>3. a \in Nat /\ map.start <= a /\ (align = 0 \/ a % align = 0) /\ a + size <= map.end
  BY <1>1 DEF FreeAt
<1>4. best \in Nat /\ Place(map, best, size) /\ (align = 0 \/ best % align = 0)
  <2>1. CASE map.entries = <<>>
    <3>1. n = 0 /\ 1 \in 1..n + 1 /\ ~(1 <= n)
      BY <2>1
    <3>2. best = gapStart(map, 1, align)
      BY <2>1 DEF syspage_bestFit
    <3> DEFINE g == gapStart(map, 1, align)
    <3>3. /\ g \in Nat /\ map.start <= g /\ (align = 0 \/ g % align = 0)
          /\ \A s \in Nat : map.start <= s /\ (align = 0 \/ s % align = 0) => g <= s
      BY <3>1, GapBounds
    <3> HIDE DEF g
    <3>4. g <= a
      BY <1>3, <3>3
    <3>5. g + size <= map.end
      BY <1>1, <1>3, <3>3, <3>4
    <3>6. QED
      BY <3>1, <3>2, <3>3, <3>5 DEF Place, g
  <2>2. CASE map.entries # <<>>
    <3>1. PICK k \in 1..n + 1 : gapFits(map, k, size, align) /\ gapSize(map, k, align) <= map.end
      BY <2>2, GapFound
    <3>2. PICK i \in 1..n + 1 :
            /\ gapFits(map, i, size, align)
            /\ \A j \in 1..n + 1 :
                 gapFits(map, j, size, align) => gapSize(map, i, align) <= gapSize(map, j, align)
            /\ best = IF gapStart(map, i, align) = Anywhere THEN None ELSE gapStart(map, i, align)
      BY <2>2, <3>1, BestFitChoice
    <3> DEFINE g == gapStart(map, i, align)
    <3>3. gapSize(map, i, align) \in Nat /\ gapSize(map, k, align) \in Nat
      BY GapType
    <3>4. gapSize(map, i, align) >= size /\ gapSize(map, i, align) <= map.end
      BY <1>1, <3>1, <3>2, <3>3 DEF gapFits
    <3>5. Place(map, g, size)
      BY <3>4, GapPlace
    <3>6. g \in Nat /\ (align = 0 \/ g % align = 0)
      BY GapBounds
    <3> HIDE DEF g
    <3>7. g # Anywhere
      BY <1>0, <1>1, <3>5, <3>6 DEF Place, Anywhere
    <3>8. best = g
      BY <3>2, <3>7 DEF g
    <3>9. QED
      BY <3>5, <3>6, <3>8
  <2>3. QED
    BY <2>1, <2>2
<1> HIDE DEF best
<1>5. \A i \in 1..n : map.entries[i].start \in Nat /\ map.entries[i].end \in Nat
  BY <1>1, EntryStarts
<1>6. best \in map.start..map.end /\ best + size <= map.end
  BY <1>1, <1>4 DEF Place
<1>7. ASSUME NEW i \in 1..n
      PROVE  ~overlaps(map.entries[i].start, map.entries[i].end, best, best + size)
  BY <1>4, <1>5 DEF Place, overlaps
<1>8. \A e \in entriesOf(map) : ~overlaps(e.start, e.end, best, best + size)
  BY <1>1, <1>7 DEF entriesOf
<1>9. best \in FreeAt(map, size, align)
  BY <1>4, <1>6, <1>8 DEF FreeAt
<1>10. QED
  BY <1>4, <1>9 DEF best

(* A fixed start inside the map that passes the test for an overlap is a     *)
(* place.                                                                    *)
LEMMA FixedPlace ==
  ASSUME NEW map \in Map, NEW mapName, NEW start \in Addr, NEW size \in Nat, NEW align \in Nat,
         fixedStart(map, mapName, start, size, align) # None,
         map.start <= fixedStart(map, mapName, start, size, align),
         fixedStart(map, mapName, start, size, align) + size <= map.end
  PROVE  Place(map, fixedStart(map, mapName, start, size, align), size)
<1> DEFINE s == fixedStart(map, mapName, start, size, align)
<1>0. AddrSpace \in Nat \ {0}
  BY SyspageAssumption
<1>1. map.start \in Nat /\ map.end \in Nat /\ map.end < AddrSpace /\ map.entries \in Seq(Entry)
  BY MapFields, SyspageAssumption DEF Addr
<1>2. s \in Nat
  BY FixedStartType, AddrNat
<1>3. \A i \in DOMAIN map.entries :
        ~overlaps(map.entries[i].start, map.entries[i].end, s, (s + size) % AddrSpace)
  BY DEF fixedStart
<1>4. s + size <= map.end
  OBVIOUS
<1> HIDE DEF s
<1>5. (s + size) % AddrSpace = s + size
  <2> DEFINE to == s + size
  <2>1. to \in Nat /\ to < AddrSpace
    BY <1>0, <1>1, <1>2, <1>4
  <2> HIDE DEF to
  <2>2. to % AddrSpace = to
    BY <1>0, <2>1
  <2>3. QED
    BY <2>2 DEF to
<1>6. ASSUME NEW i \in 1..Len(map.entries)
      PROVE  map.entries[i].end <= s \/ s + size <= map.entries[i].start
  <2>1. map.entries[i].start \in Nat /\ map.entries[i].end \in Nat /\ i \in DOMAIN map.entries
    BY <1>1, EntryStarts
  <2>2. ~overlaps(map.entries[i].start, map.entries[i].end, s, s + size)
    BY <1>3, <1>5, <2>1
  <2>3. QED
    BY <1>2, <2>1, <2>2 DEF overlaps
<1>7. QED
  BY <1>4, <1>6 DEF Place, s

(* What syspage_entryAdd settles on is a place, if the map could grant the   *)
(* request.                                                                  *)
LEMMA GrantedPlace ==
  ASSUME NEW map \in Map, GoodMap(map), NEW mapName, NEW start \in Addr, NEW size \in Nat,
         NEW align \in Nat, grantable(map, mapName, start, size, align),
         NEW s \in Addr,
         s = IF mapName # NULL /\ start = Anywhere THEN syspage_bestFit(map, size, align)
             ELSE fixedStart(map, mapName, start, size, align)
  PROVE  0 < size /\ Place(map, s, size)
<1>1. 0 < size
  BY DEF grantable
<1>2. s # None
  BY SyspageAssumption DEF Addr, None
<1>3. CASE mapName # NULL /\ start = Anywhere
  <2>1. alignable(map, align) /\ FreeAt(map, size, align) # {}
    BY <1>3 DEF grantable
  <2>2. Place(map, syspage_bestFit(map, size, align), size)
    BY <1>1, <2>1, BestFitFree
  <2>3. QED
    BY <1>1, <1>3, <2>2
<1>4. CASE ~(mapName # NULL /\ start = Anywhere)
  <2>1. s = fixedStart(map, mapName, start, size, align)
    BY <1>4
  <2>2. map.start <= s /\ s + size <= map.end
    BY <1>4, <2>1 DEF grantable
  <2>3. QED
    BY <1>1, <1>2, <2>1, <2>2, FixedPlace
<1>5. QED
  BY <1>3, <1>4

(* syspage_sortedInsert adds nothing but the new entry.                      *)
LEMMA InsertElements ==
  ASSUME NEW entries \in Seq(Entry), NEW e \in Entry, NEW i \in DOMAIN syspage_sortedInsert(entries, e)
  PROVE  \/ syspage_sortedInsert(entries, e)[i] = e
         \/ \E j \in DOMAIN entries : syspage_sortedInsert(entries, e)[i] = entries[j]
<1> DEFINE pos == insertPos(entries, e)
           n == Len(entries)
<1>1. n \in Nat /\ pos \in 1..n + 1 /\ DOMAIN entries = 1..n
  BY InsertPos
<1>2. syspage_sortedInsert(entries, e) =
        [k \in 1..n + 1 |-> IF k < pos THEN entries[k] ELSE IF k = pos THEN e ELSE entries[k - 1]]
  BY DEF syspage_sortedInsert
<1> HIDE DEF pos
<1>3. i \in 1..n + 1
  BY <1>2
<1>4. CASE i < pos
  BY <1>1, <1>2, <1>3, <1>4
<1>5. CASE i = pos
  BY <1>1, <1>2, <1>3, <1>5
<1>6. CASE i > pos
  <2>1. i - 1 \in 1..n /\ syspage_sortedInsert(entries, e)[i] = entries[i - 1]
    BY <1>1, <1>2, <1>3, <1>6
  <2>2. QED
    BY <1>1, <2>1
<1>7. QED
  BY <1>1, <1>3, <1>4, <1>5, <1>6

(* A map that was orderly before is so with a proper entry, and only then.   *)
LEMMA InsertOrderly ==
  ASSUME Inv, NEW m \in DOMAIN maps, NEW e \in Entry,
         maps' = [maps EXCEPT ![m].entries = syspage_sortedInsert(@, e)], orderly(maps'[m])
  PROVE  orderly(maps[m]) /\ e.proper
<1>1. MapsKept /\ m \in DOMAIN maps' /\ e \in entriesOf(maps'[m])
  BY KeptInsert
<1>2. entriesOf(maps[m]) \subseteq entriesOf(maps'[m])
  BY <1>1 DEF MapsKept
<1>3. QED
  BY <1>1, <1>2 DEF orderly

(* The inductive invariant on the layout; while the loop of syspage_mapAdd   *)
(* runs, what it has recorded is proper and lies below the cursor.           *)
LayoutInv ==
  /\ Inv
  /\ \A m \in DOMAIN maps :
       orderly(maps[m]) => GoodEntries(maps[m].start, maps[m].end, maps[m].entries)
  /\ cursor # None => /\ orderly(maps[last])
                      /\ \A i \in DOMAIN maps[last].entries : maps[last].entries[i].end <= cursor

(* In such a state an orderly map is good.                                   *)
LEMMA OrderlyGood ==
  ASSUME LayoutInv, NEW m \in DOMAIN maps, orderly(maps[m])
  PROVE  maps[m] \in Map /\ GoodMap(maps[m])
BY DEF LayoutInv, Inv, TypeOK, CursorInMap, GoodMap

(* Adding an entry that, if it is proper, is clear of the others keeps every *)
(* orderly map good.                                                         *)
LEMMA AddGood ==
  ASSUME LayoutInv, NEW m \in DOMAIN maps, NEW e \in Entry,
         maps' = [maps EXCEPT ![m].entries = syspage_sortedInsert(@, e)],
         orderly(maps[m]) /\ e.proper =>
           /\ maps[m].start <= e.start /\ e.start < e.end /\ e.end <= maps[m].end
           /\ \A i \in 1..Len(maps[m].entries) :
                maps[m].entries[i].end <= e.start \/ e.end <= maps[m].entries[i].start
  PROVE  \A k \in DOMAIN maps' :
           orderly(maps'[k]) => GoodEntries(maps'[k].start, maps'[k].end, maps'[k].entries)
<1> DEFINE new == syspage_sortedInsert(maps[m].entries, e)
<1>1. \A k \in DOMAIN maps : maps[k] \in Map
  BY DEF LayoutInv, Inv, TypeOK
<1>2. ASSUME orderly(maps'[m])
      PROVE  GoodEntries(maps[m].start, maps[m].end, new)
  <2>1. /\ maps[m].entries \in Seq(Entry) /\ maps[m].start \in Nat /\ maps[m].end \in Nat
    BY <1>1, MapFields
  <2>2. orderly(maps[m]) /\ e.proper
    BY <1>2, InsertOrderly DEF LayoutInv
  <2>3. GoodEntries(maps[m].start, maps[m].end, maps[m].entries)
    BY <2>2 DEF LayoutInv
  <2>4. QED
    BY <2>1, <2>2, <2>3, InsertGood
<1>3. maps' = [maps EXCEPT ![m] = [maps[m] EXCEPT !.entries = new]]
  OBVIOUS
<1> HIDE DEF new
<1>4. DOMAIN maps' = DOMAIN maps
  BY <1>3
<1>5. \A k \in DOMAIN maps : /\ maps'[k].start = maps[k].start
                             /\ maps'[k].end = maps[k].end
                             /\ maps'[k].entries = IF k = m THEN new ELSE maps[k].entries
                             /\ k # m => maps'[k] = maps[k]
  BY <1>1, <1>3 DEF Map
<1>6. ASSUME NEW k \in DOMAIN maps, orderly(maps'[k])
      PROVE  GoodEntries(maps'[k].start, maps'[k].end, maps'[k].entries)
  <2>1. CASE k = m
    BY <1>2, <1>5, <1>6, <2>1
  <2>2. CASE k # m
    BY <1>5, <1>6, <2>2 DEF LayoutInv
  <2>3. QED
    BY <2>1, <2>2
<1>7. QED
  BY <1>4, <1>6

(* Granting a request keeps every orderly map good.                          *)
LEMMA GrantEntry ==
  ASSUME LayoutInv, NEW m \in DOMAIN maps, NEW s \in Addr, NEW mapName, NEW start \in Addr,
         NEW size \in Nat, NEW align \in Nat, NEW proper \in BOOLEAN,
         proper = grantable(maps[m], mapName, start, size, align),
         s = IF mapName # NULL /\ start = Anywhere THEN syspage_bestFit(maps[m], size, align)
             ELSE fixedStart(maps[m], mapName, start, size, align),
         maps' = withEntry(m, s, size, proper)
  PROVE  \A k \in DOMAIN maps' :
           orderly(maps'[k]) => GoodEntries(maps'[k].start, maps'[k].end, maps'[k].entries)
<1> DEFINE e == [start |-> s, end |-> (s + size) % AddrSpace, type |-> "allocated", at |-> heapTop,
                 proper |-> proper]
<1>1. AddrSpace \in Nat \ {0} /\ s \in Nat
  BY SyspageAssumption, AddrNat
<1>2. (s + size) % AddrSpace \in Addr
  BY <1>1 DEF Addr
<1>3. e \in Entry /\ e.start = s /\ e.end = (s + size) % AddrSpace /\ e.proper = proper
  BY <1>2 DEF Entry, LayoutInv, Inv, TypeOK
<1>4. maps' = [maps EXCEPT ![m].entries = syspage_sortedInsert(@, e)]
  BY DEF withEntry
<1> HIDE DEF e
<1>5. ASSUME orderly(maps[m]), e.proper
      PROVE  /\ maps[m].start <= e.start /\ e.start < e.end /\ e.end <= maps[m].end
             /\ \A i \in 1..Len(maps[m].entries) :
                  maps[m].entries[i].end <= e.start \/ e.end <= maps[m].entries[i].start
  <2>1. maps[m] \in Map /\ GoodMap(maps[m])
    BY <1>5, OrderlyGood
  <2>2. grantable(maps[m], mapName, start, size, align)
    BY <1>3, <1>5
  <2>3. 0 < size /\ Place(maps[m], s, size)
    BY <2>1, <2>2, GrantedPlace
  <2>4. maps[m].end \in Nat /\ maps[m].end < AddrSpace
    BY <2>1, MapFields, SyspageAssumption DEF Addr
  <2>5. e.end = s + size
    <3> DEFINE to == s + size
    <3>1. to \in Nat /\ to < AddrSpace
      BY <1>1, <2>3, <2>4 DEF Place
    <3> HIDE DEF to
    <3>2. to % AddrSpace = to
      BY <1>1, <3>1
    <3>3. QED
      BY <1>3, <3>2 DEF to
  <2>6. QED
    BY <1>1, <1>3, <2>3, <2>5 DEF Place
<1>6. QED
  BY <1>3, <1>4, <1>5, AddGood

(* syspage_mapAdd up to the loop preserves it.                               *)
LEMMA LayoutMapAdd ==
  ASSUME LayoutInv, Inv', NEW name \in MapNames, NEW range \in MapRanges,
         NEW attrValid \in BOOLEAN, syspage_mapAdd(name, range[1], range[2], attrValid)
  PROVE  LayoutInv'
<1>1. CASE maps' = maps /\ cursor' = cursor
  BY <1>1 DEF LayoutInv, last
<1>2. CASE /\ maps' = Append(maps, [name |-> name, start |-> range[1], end |-> range[2],
                                    id |-> mapId, at |-> heapTop, entries |-> <<>>])
           /\ cursor' = range[1]
  <2> DEFINE new == [name |-> name, start |-> range[1], end |-> range[2],
                     id |-> mapId, at |-> heapTop, entries |-> <<>>]
  <2>1. new.entries = <<>>
    OBVIOUS
  <2>2. maps' = Append(maps, new)
    BY <1>2
  <2> HIDE DEF new
  <2>3. maps \in Seq(Map)
    BY DEF LayoutInv, Inv, TypeOK
  <2>4. /\ Len(maps') = Len(maps) + 1 /\ maps'[Len(maps) + 1] = new
        /\ \A k \in DOMAIN maps : maps'[k] = maps[k]
        /\ DOMAIN maps' = DOMAIN maps \cup {Len(maps) + 1}
    BY <2>2, <2>3
  <2>5. GoodEntries(new.start, new.end, new.entries) /\ orderly(new)
    BY <2>1 DEF GoodEntries, orderly, entriesOf
  <2>6. \A k \in DOMAIN maps' :
          orderly(maps'[k]) => GoodEntries(maps'[k].start, maps'[k].end, maps'[k].entries)
    BY <2>4, <2>5 DEF LayoutInv
  <2>7. maps'[last'] = new
    BY <2>4 DEF last
  <2>8. QED
    BY <2>1, <2>5, <2>6, <2>7 DEF LayoutInv
<1>3. QED
  BY <1>1, <1>2 DEF syspage_mapAdd

(* An iteration of the loop of syspage_mapAdd preserves it: the next area of *)
(* hal starts at or after the cursor.                                        *)
LEMMA LayoutMapAddEntry ==
  ASSUME LayoutInv, Inv', mapAddEntry
  PROVE  LayoutInv'
<1> DEFINE end == maps[last].end
           e == hal_memoryGetNextEntry(cursor, end)
           ent == [start |-> e.start, end |-> e.end, type |-> e.type, at |-> heapTop,
                   proper |-> TRUE]
<1>1. cursor # None /\ overlapped(cursor, end) # {}
  BY DEF mapAddEntry
<1>2. last \in DOMAIN maps /\ maps[last] \in Map /\ orderly(maps[last])
  BY <1>1 DEF LayoutInv, Inv, TypeOK, last
<1>3. /\ cursor \in Addr /\ end \in Addr /\ maps[last].start <= cursor /\ cursor <= end
      /\ maps[last].start \in Nat /\ cursor \in Nat /\ end \in Nat
  BY <1>1, <1>2, MapFields, AddrNat DEF LayoutInv, Inv, TypeOK, CursorInMap
<1>4. /\ e.start \in Addr /\ e.end \in Addr /\ e.type \in {"reserved", "temp"}
      /\ cursor <= e.start /\ e.start < e.end /\ e.end <= end
  <2> HIDE DEF end
  <2>1. QED
    BY <1>1, <1>3, HalEntry
<1>5. CASE ~fits(heapTop, SizeEntry)
  BY <1>5 DEF mapAddEntry, LayoutInv
<1>6. CASE fits(heapTop, SizeEntry)
  <2>1. /\ maps' = [maps EXCEPT ![last].entries = syspage_sortedInsert(@, ent)]
        /\ cursor' = e.end
    BY <1>6 DEF mapAddEntry
  <2>2. ent \in Entry /\ ent.start = e.start /\ ent.end = e.end /\ ent.proper
    <3> HIDE DEF e
    <3>1. QED
      BY <1>4 DEF Entry, LayoutInv, Inv, TypeOK
  <2> HIDE DEF ent, e
  <2>3. e.start \in Nat /\ e.end \in Nat
    BY <1>4, AddrNat
  <2> DEFINE ents == maps[last].entries
  <2>4. ents \in Seq(Entry) /\ \A i \in DOMAIN ents : ents[i].end \in Nat /\ ents[i].end <= cursor
    BY <1>1, <1>2, MapFields, EntryStarts DEF LayoutInv
  <2>5. \A i \in DOMAIN ents : ents[i].end <= e.start /\ ents[i].end <= e.end
    BY <1>3, <1>4, <2>3, <2>4
  <2>6. \A k \in DOMAIN maps' :
          orderly(maps'[k]) => GoodEntries(maps'[k].start, maps'[k].end, maps'[k].entries)
    <3>1. maps[last].start <= e.start
      BY <1>3, <1>4, <2>3
    <3>2. \A i \in 1..Len(ents) : ents[i].end <= ent.start
      BY <2>2, <2>4, <2>5
    <3>3. QED
      BY <1>2, <1>4, <2>1, <2>2, <3>1, <3>2, AddGood
  <2>7. last' = last
    <3>1. Len(maps') = Len(maps)
      BY <1>2, <2>1, <2>2, AddEntry DEF LayoutInv
    <3>2. QED
      BY <3>1 DEF last
  <2>8. maps'[last].entries = syspage_sortedInsert(ents, ent)
    BY <1>2, <2>1 DEF Map
  <2>9. ASSUME NEW i \in DOMAIN maps'[last].entries
        PROVE  maps'[last].entries[i].end <= cursor' /\ maps'[last].entries[i].proper
    <3>1. \A j \in DOMAIN ents : ents[j].proper
      BY <1>2 DEF orderly, entriesOf
    <3> HIDE DEF ents
    <3>2. i \in DOMAIN syspage_sortedInsert(ents, ent)
      BY <2>8
    <3>3. \/ syspage_sortedInsert(ents, ent)[i] = ent
          \/ \E j \in DOMAIN ents : syspage_sortedInsert(ents, ent)[i] = ents[j]
      BY <2>2, <2>4, <3>2, InsertElements
    <3>4. syspage_sortedInsert(ents, ent)[i].end <= e.end
      BY <2>2, <2>3, <2>5, <3>3
    <3>5. syspage_sortedInsert(ents, ent)[i].proper
      BY <2>2, <3>1, <3>3
    <3>6. QED
      BY <2>1, <2>8, <3>4, <3>5
  <2>10. orderly(maps'[last])
    BY <2>9 DEF orderly, entriesOf
  <2>11. QED
    BY <2>6, <2>7, <2>9, <2>10 DEF LayoutInv
<1>7. QED
  BY <1>5, <1>6

(* syspage_entryAdd preserves it.                                            *)
LEMMA LayoutEntryAdd ==
  ASSUME LayoutInv, Inv', NEW c \in EntryCalls,
         syspage_entryAdd(c.mapName, c.start, c.size, c.align)
  PROVE  LayoutInv'
<1> DEFINE m == entryMap(c.mapName, c.start, c.size)
           s == entryStart(c.mapName, c.start, c.size, c.align)
           proper == grantable(maps[m], c.mapName, c.start, c.size, c.align)
<1>0. proper \in BOOLEAN
  BY GrantableType
<1>1. c.start \in Addr /\ c.size \in Nat /\ c.align \in Nat
  <2>1. c \in [mapName : MapNames \cup {NULL}, start : Addr, size : Addr, align : Addr]
    BY SyspageAssumption
  <2>2. QED
    BY <2>1, AddrNat
<1>2. s \in Addr \cup {None} /\ (s # None => m \in DOMAIN maps)
  BY <1>1, EntryStartType DEF LayoutInv, Inv
<1>3. cursor = None /\ cursor' = cursor
  BY DEF syspage_entryAdd
<1>4. CASE maps' = maps
  BY <1>3, <1>4 DEF LayoutInv
<1>5. CASE s # None /\ maps' = withEntry(m, s, c.size, proper)
  <2>1. m \in DOMAIN maps /\ m # 0 /\ s \in Addr
    BY <1>2, <1>5 DEF LayoutInv, Inv, TypeOK
  <2>2. s = IF c.mapName # NULL /\ c.start = Anywhere THEN syspage_bestFit(maps[m], c.size, c.align)
            ELSE fixedStart(maps[m], c.mapName, c.start, c.size, c.align)
    BY <2>1 DEF entryStart
  <2> DEFINE p == proper
  <2>3. p = grantable(maps[m], c.mapName, c.start, c.size, c.align)
    OBVIOUS
  <2> HIDE DEF m, s, proper, p
  <2>4. p = proper
    BY DEF p
  <2>5. \A k \in DOMAIN maps' :
          orderly(maps'[k]) => GoodEntries(maps'[k].start, maps'[k].end, maps'[k].entries)
    BY <1>0, <1>1, <1>5, <2>1, <2>2, <2>3, <2>4, GrantEntry
  <2>6. QED
    BY <1>3, <2>5 DEF LayoutInv
<1>6. QED
  BY <1>4, <1>5 DEF syspage_entryAdd

(* syspage_progAllocateAndAdd preserves it.                                  *)
LEMMA LayoutProgAllocateAndAdd ==
  ASSUME LayoutInv, Inv', NEW mapName \in MapNames, NEW size \in ProgSizes,
         NEW argv \in Argvs, NEW exec \in BOOLEAN, NEW allowOverwrite \in BOOLEAN,
         syspage_progAllocateAndAdd(mapName, size, argv, exec, allowOverwrite)
  PROVE  LayoutInv'
<1> DEFINE m == syspage_mapGet(mapName)
           s == entryStart(mapName, Anywhere, size, SizePage)
           proper == grantable(maps[m], mapName, Anywhere, size, SizePage)
<1>0. proper \in BOOLEAN
  BY GrantableType
<1>1. Anywhere \in Addr /\ size \in Nat /\ SizePage \in Nat
  <2>1. Anywhere \in Addr
    BY SyspageAssumption DEF Anywhere, Addr
  <2>2. QED
    BY <2>1, AddrNat, SyspageAssumption, SizesNat
<1>2. m = entryMap(mapName, Anywhere, size) /\ mapName # NULL
  BY SyspageAssumption DEF entryMap
<1>3. s \in Addr \cup {None} /\ (s # None => m \in DOMAIN maps)
  BY <1>1, <1>2, EntryStartType DEF LayoutInv, Inv
<1>4. cursor = None /\ cursor' = cursor
  BY DEF syspage_progAllocateAndAdd
<1>5. CASE maps' = maps
  BY <1>4, <1>5 DEF LayoutInv
<1>6. CASE s # None /\ maps' = withEntry(m, s, size, proper)
  <2>1. m \in DOMAIN maps /\ m # 0 /\ s \in Addr
    BY <1>3, <1>6 DEF LayoutInv, Inv, TypeOK
  <2>2. s = IF mapName # NULL /\ Anywhere = Anywhere THEN syspage_bestFit(maps[m], size, SizePage)
            ELSE fixedStart(maps[m], mapName, Anywhere, size, SizePage)
    BY <1>2, <2>1 DEF entryStart
  <2> DEFINE p == proper
  <2>3. p = grantable(maps[m], mapName, Anywhere, size, SizePage)
    OBVIOUS
  <2> HIDE DEF m, s, proper, p
  <2>4. p = proper
    BY DEF p
  <2>5. \A k \in DOMAIN maps' :
          orderly(maps'[k]) => GoodEntries(maps'[k].start, maps'[k].end, maps'[k].entries)
    BY <1>0, <1>1, <1>6, <2>1, <2>2, <2>3, <2>4, GrantEntry
  <2>6. QED
    BY <1>4, <2>5 DEF LayoutInv
<1>7. QED
  BY <1>5, <1>6 DEF syspage_progAllocateAndAdd

(* LayoutInv gives the two properties.                                       *)
LEMMA LayoutInvImplies ==
  ASSUME LayoutInv PROVE EntriesDisjoint /\ EntriesInMap
<1>1. ASSUME NEW m \in DOMAIN maps, orderly(maps[m])
      PROVE  /\ maps[m].entries \in Seq(Entry)
             /\ GoodEntries(maps[m].start, maps[m].end, maps[m].entries)
             /\ \A i \in DOMAIN maps[m].entries :
                  maps[m].entries[i].start \in Nat /\ maps[m].entries[i].end \in Nat
  <2>1. maps[m] \in Map /\ GoodMap(maps[m])
    BY <1>1, OrderlyGood
  <2>2. maps[m].entries \in Seq(Entry)
    BY <2>1, MapFields
  <2>3. QED
    BY <2>1, <2>2, EntryStarts DEF GoodMap
<1>2. EntriesDisjoint
  <2> SUFFICES ASSUME NEW m \in DOMAIN maps, orderly(maps[m]), NEW i \in DOMAIN maps[m].entries,
                      NEW j \in DOMAIN maps[m].entries, i # j
               PROVE  ~overlaps(maps[m].entries[i].start, maps[m].entries[i].end,
                                maps[m].entries[j].start, maps[m].entries[j].end)
    BY DEF EntriesDisjoint
  <2> DEFINE e == maps[m].entries[i]  f == maps[m].entries[j]
  <2>1. e.start \in Nat /\ e.end \in Nat /\ f.start \in Nat /\ f.end \in Nat
    BY <1>1
  <2>2. i \in Nat /\ j \in Nat
    BY <1>1
  <2>3. e.end <= f.start \/ f.end <= e.start
    <3>1. CASE i < j
      BY <1>1, <3>1 DEF GoodEntries
    <3>2. CASE j < i
      BY <1>1, <3>2 DEF GoodEntries
    <3>3. QED
      BY <2>2, <3>1, <3>2
  <2>4. QED
    BY <2>1, <2>3 DEF overlaps
<1>3. EntriesInMap
  <2> SUFFICES ASSUME NEW m \in DOMAIN maps, orderly(maps[m]), NEW i \in DOMAIN maps[m].entries
               PROVE  /\ maps[m].start <= maps[m].entries[i].start
                      /\ maps[m].entries[i].start <= maps[m].entries[i].end
                      /\ maps[m].entries[i].end <= maps[m].end
    BY DEF EntriesInMap, entriesOf
  <2>1. QED
    BY <1>1 DEF GoodEntries
<1>4. QED
  BY <1>2, <1>3

(* syspage_init establishes LayoutInv.                                       *)
LEMMA LayoutInit == syspage_init => LayoutInv
<1>1. syspage_init => Inv
  BY InvInit
<1>2. QED
  BY <1>1 DEF syspage_init, LayoutInv

(* Every step preserves it.                                                  *)
LEMMA LayoutStep == LayoutInv /\ [Next]_vars => LayoutInv'
<1> SUFFICES ASSUME LayoutInv, [Next]_vars PROVE LayoutInv'
  OBVIOUS
<1>1. Inv'
  BY InvStep DEF LayoutInv
<1>2. CASE maps' = maps /\ (cursor' = cursor \/ cursor' = None)
  BY <1>1, <1>2 DEF LayoutInv, last
<1>3. CASE \/ \E name \in MapNames, range \in MapRanges, attrValid \in BOOLEAN :
                syspage_mapAdd(name, range[1], range[2], attrValid)
           \/ mapAddEntry
           \/ \E c \in EntryCalls : syspage_entryAdd(c.mapName, c.start, c.size, c.align)
           \/ \E mapName \in MapNames, size \in ProgSizes, argv \in Argvs,
                 exec, allowOverwrite \in BOOLEAN :
                syspage_progAllocateAndAdd(mapName, size, argv, exec, allowOverwrite)
  BY <1>1, <1>3, LayoutMapAdd, LayoutMapAddEntry, LayoutEntryAdd, LayoutProgAllocateAndAdd
<1>4. QED
  BY <1>2, <1>3 DEF Next, vars, mapAddDone, syspage_progAdd, syspage_alloc

(* For every layout of sections, heap size, address width and sequence of    *)
(* calls: a map that granted only what it had room for has no two entries on *)
(* a common address.                                                         *)
THEOREM EntriesApart == Spec => []EntriesDisjoint
<1>1. LayoutInv => EntriesDisjoint
  BY LayoutInvImplies
<1>2. QED
  BY LayoutInit, LayoutStep, <1>1, PTL DEF Spec

(* Nor has it one, or a part of one, outside itself.                         *)
THEOREM EntriesInside == Spec => []EntriesInMap
<1>1. LayoutInv => EntriesInMap
  BY LayoutInvImplies
<1>2. QED
  BY LayoutInit, LayoutStep, <1>1, PTL DEF Spec

(* In every reachable state syspage_bestFit, asked of such a map for a place *)
(* and an alignment it has free, returns a free one, though the size of some *)
(* gaps wraps.                                                               *)
THEOREM BestFitFindsFree == Spec => []BestFitCorrect
<1>1. ASSUME LayoutInv PROVE BestFitCorrect
  <2> SUFFICES ASSUME NEW m \in DOMAIN maps, NEW c \in EntryCalls, orderly(maps[m]), 0 < c.size,
                      alignable(maps[m], c.align), FreeAt(maps[m], c.size, c.align) # {}
               PROVE  syspage_bestFit(maps[m], c.size, c.align) \in FreeAt(maps[m], c.size, c.align)
    BY DEF BestFitCorrect
  <2>1. c.size \in Nat /\ c.align \in Nat
    <3>1. c \in [mapName : MapNames \cup {NULL}, start : Addr, size : Addr, align : Addr]
      BY SyspageAssumption
    <3>2. QED
      BY <3>1, AddrNat
  <2>2. maps[m] \in Map /\ GoodMap(maps[m])
    BY <1>1, OrderlyGood
  <2>3. QED
    BY <2>1, <2>2, BestFitFree
<1>2. QED
  BY LayoutInit, LayoutStep, <1>1, PTL DEF Spec
=============================================================================
