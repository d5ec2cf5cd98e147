------------------------------- MODULE Syspage -------------------------------
(***************************************************************************)
(* syspage.c: the structure plo hands to the kernel.  It lives at the base *)
(* of plo's heap, a bump allocator; it holds a circular list of memory     *)
(* maps, in each map a circular list of entries (the areas in use, in      *)
(* ascending order), and a circular list of programs.  A circular list is  *)
(* a sequence here, and a heap address is an offset from __heap_base.      *)
(***************************************************************************)
EXTENDS EntryList

CONSTANTS
  AddrSpace,   (* 2^w for w-bit addr_t and size_t *)
  UintSpace,   (* 2^w for the w bits of an unsigned int *)
  HeapLimit,   (* __heap_limit - __heap_base *)
  Word,        (* sizeof(long long), the alignment of a heap block *)
  SizePage,    (* SIZE_PAGE *)
  SizeSyspage, SizeMap, SizeName, SizeEntry, SizeProg, SizeArgv,
  HalRegions,  (* the areas hal_memoryGetNextEntry knows of, a sequence *)
  MapNames, MapRanges,        (* arguments of the command map *)
  EntryCalls,                 (* arguments of the calls of syspage_entryAdd *)
  ProgSizes, Argvs,           (* arguments of syspage_progAllocateAndAdd *)
  NULL                        (* no map name given *)

VARIABLES
  heapTop,  (* syspage_common.heapTop; syspage->size is always equal to it *)
  maps,     (* syspage->maps *)
  progs,    (* syspage->progs *)
  cursor,   (* inside the loop of syspage_mapAdd, its start; otherwise None *)
  ret       (* what the last call returned *)

vars == <<heapTop, maps, progs, cursor, ret>>

Addr == 0..AddrSpace - 1
Anywhere == AddrSpace - 1   (* (addr_t)-1 *)
None == AddrSpace           (* no address *)
MapIds == 256               (* map->id is a u8 *)

ASSUME SyspageAssumption ==
  /\ AddrSpace \in Nat \ {0}
  /\ UintSpace \in Nat \ {0} /\ UintSpace <= AddrSpace
  /\ HeapLimit \in Nat /\ Word \in Nat \ {0} /\ SizePage \in Nat \ {0}
  /\ {SizeSyspage, SizeMap, SizeName, SizeEntry, SizeProg, SizeArgv} \subseteq Nat \ {0}
  /\ HalRegions \in Seq([start : Addr, end : Addr, type : {"reserved", "temp"}])
  /\ MapRanges \subseteq Addr \X Addr
  /\ \A r \in MapRanges : r[1] < r[2]
  /\ NULL \notin MapNames
  /\ EntryCalls \subseteq
       [mapName : MapNames \cup {NULL}, start : Addr, size : Addr, align : Addr]
  /\ ProgSizes \subseteq Addr

(***************************************************************************)
(* The heap.                                                               *)
(***************************************************************************)
(* align, a power of two, is an unsigned int: the mask ~(align - 1) has no    *)
(* bits beyond its width, and a wider addr_t loses the upper ones.           *)
ALIGN_ADDR(addr, align) ==
  IF align = 0 THEN addr
  ELSE LET up == (addr + align - 1) % AddrSpace IN (up - (up % align)) % UintSpace

(* The first multiple of Word from n on: a heap address is never wrapped. *)
heapAlign(n) == (n + Word - 1) - ((n + Word - 1) % Word)

(* syspage_alloc(size) with heapTop = top: the new heapTop, and whether the  *)
(* block fits below __heap_limit.                                            *)
newTop(top, size) == heapAlign(top + size)
fits(top, size) == newTop(top, size) < HeapLimit

(* The linker script leaves room in the heap for the syspage itself, which   *)
(* syspage_init places without asking syspage_alloc.                         *)
ASSUME SyspageFits == heapAlign(SizeSyspage) < HeapLimit

syspage_init ==
  /\ heapTop = heapAlign(SizeSyspage)
  /\ maps = <<>> /\ progs = <<>>
  /\ cursor = None
  /\ ret = "EOK"

(***************************************************************************)
(* The list of maps.                                                       *)
(***************************************************************************)
(* The half-open areas [s1, e1) and [s2, e2) have an address in common, as   *)
(* syspage.c tests it.                                                       *)
overlaps(s1, e1, s2, e2) == s1 < e2 /\ e1 > s2

(* The map of that name, 0 when there is none. *)
syspage_mapGet(name) ==
  IF \E m \in DOMAIN maps : maps[m].name = name
  THEN CHOOSE m \in DOMAIN maps :
         maps[m].name = name /\ \A k \in 1..m - 1 : maps[k].name # name
  ELSE 0

(* The first map that contains [start, start + size), 0 when there is none. *)
mapAround(start, size) ==
  LET around(m) == maps[m].start <= start /\ maps[m].end >= (start + size) % AddrSpace
  IN IF \E m \in DOMAIN maps : around(m)
     THEN CHOOSE m \in DOMAIN maps : around(m) /\ \A k \in 1..m - 1 : ~around(k)
     ELSE 0

(***************************************************************************)
(* hal_memoryGetNextEntry(start, end): of the regions that overlap         *)
(* [start, end), clipped to it, the one that starts first.                 *)
(***************************************************************************)
overlapped(start, end) ==
  IF start = end THEN {}
  ELSE {i \in DOMAIN HalRegions :
          /\ HalRegions[i].start < HalRegions[i].end
          /\ overlaps(start, end, HalRegions[i].start, HalRegions[i].end)}

hal_getMinOverlappedRange(i, start, end) ==
  [start |-> IF start > HalRegions[i].start THEN start ELSE HalRegions[i].start,
   end   |-> IF end < HalRegions[i].end THEN end ELSE HalRegions[i].end,
   type  |-> HalRegions[i].type]

hal_memoryGetNextEntry(start, end) ==
  LET clip(i) == hal_getMinOverlappedRange(i, start, end)
  IN clip(CHOOSE i \in overlapped(start, end) :
            \A k \in overlapped(start, end) :
              \/ clip(i).start < clip(k).start
              \/ clip(i).start = clip(k).start /\ i <= k)

(***************************************************************************)
(* syspage_mapAdd.  The map is linked before the loop that records the     *)
(* areas hal reports in it, one mapAddEntry per iteration; no other call   *)
(* runs in between.                                                        *)
(***************************************************************************)
(* Mutant: only the start of the new map is looked for in the others. *)
ClashAtStart(name, start, end) ==
  \E m \in DOMAIN maps :
    (maps[m].start <= start /\ maps[m].end > start) \/ maps[m].name = name

clash(name, start, end) ==
  \E m \in DOMAIN maps :
    overlaps(maps[m].start, maps[m].end, start, end) \/ maps[m].name = name

mapId == IF maps = <<>> THEN 0 ELSE (maps[Len(maps)].id + 1) % MapIds

syspage_mapAdd(name, start, end, attrValid) ==
  LET nameAt == newTop(heapTop, SizeMap)
      top    == newTop(nameAt, SizeName)
      failed(err) == ret' = err /\ UNCHANGED <<maps, progs, cursor>>
  IN /\ cursor = None
     /\ \/ clash(name, start, end) /\ failed("EINVAL") /\ UNCHANGED heapTop
        \/ /\ ~clash(name, start, end)
           /\ \/ ~fits(heapTop, SizeMap) /\ failed("ENOMEM") /\ UNCHANGED heapTop
              \/ /\ fits(heapTop, SizeMap)
                 /\ ~fits(nameAt, SizeName)
                 /\ failed("ENOMEM") /\ heapTop' = nameAt
              \/ /\ fits(heapTop, SizeMap) /\ fits(nameAt, SizeName)
                 /\ ~attrValid
                 /\ failed("EINVAL") /\ heapTop' = top
              \/ /\ fits(heapTop, SizeMap) /\ fits(nameAt, SizeName)
                 /\ attrValid
                 /\ heapTop' = top
                 /\ maps' = Append(maps, [name |-> name, start |-> start, end |-> end,
                                          id |-> mapId, at |-> heapTop, entries |-> <<>>])
                 /\ cursor' = start
                 /\ UNCHANGED <<progs, ret>>

last == Len(maps)

mapAddEntry ==
  /\ cursor # None
  /\ overlapped(cursor, maps[last].end) # {}
  /\ LET e == hal_memoryGetNextEntry(cursor, maps[last].end)
     IN \/ /\ ~fits(heapTop, SizeEntry)
           /\ cursor' = None
           /\ ret' = "ENOMEM"
           /\ UNCHANGED <<heapTop, maps, progs>>
        \/ /\ fits(heapTop, SizeEntry)
           /\ heapTop' = newTop(heapTop, SizeEntry)
           /\ maps' = [maps EXCEPT ![last].entries = syspage_sortedInsert(@,
                         [start |-> e.start, end |-> e.end, type |-> e.type, at |-> heapTop,
                          proper |-> TRUE])]
           /\ cursor' = e.end
           /\ UNCHANGED <<progs, ret>>

(* The loop is over: hal_memoryAddMap accepts the map or refuses it, and the *)
(* map stays linked either way.                                              *)
mapAddDone ==
  /\ cursor # None
  /\ overlapped(cursor, maps[last].end) = {}
  /\ cursor' = None
  /\ \E res \in {"EOK", "EPERM"} : ret' = res
  /\ UNCHANGED <<heapTop, maps, progs>>

(***************************************************************************)
(* syspage_entryAdd.                                                       *)
(***************************************************************************)
(* The free area before entry i of a map (after the last one when i is       *)
(* beyond it) as syspage_bestFit sees it: from the aligned end of what comes *)
(* before, and with a size computed modulo AddrSpace.                        *)
gapStart(map, i, align) ==
  ALIGN_ADDR(IF i = 1 THEN map.start ELSE map.entries[i - 1].end, align)

gapSize(map, i, align) ==
  ((IF i <= Len(map.entries) THEN map.entries[i].start ELSE map.end)
     + AddrSpace - gapStart(map, i, align)) % AddrSpace

(* Mutant: an area of exactly the size asked for is refused. *)
GapFitsStrict(map, i, size, align) ==
  LET start == gapStart(map, i, align)
  IN /\ gapSize(map, i, align) > size
     /\ gapSize(map, i, align) < AddrSpace - 1
     /\ i <= Len(map.entries) =>
          ~overlaps(map.entries[i].start, map.entries[i].end, start, (start + size) % AddrSpace)

gapFits(map, i, size, align) ==
  LET start == gapStart(map, i, align)
  IN /\ gapSize(map, i, align) >= size
     /\ gapSize(map, i, align) < AddrSpace - 1
     /\ i <= Len(map.entries) =>
          ~overlaps(map.entries[i].start, map.entries[i].end, start, (start + size) % AddrSpace)

(* Mutant: a gap is not compared with the best one so far. *)
LastFit(map, size, align) ==
  LET fit == {i \in 1..Len(map.entries) + 1 : gapFits(map, i, size, align)}
  IN IF map.entries = <<>> THEN gapStart(map, 1, align)
     ELSE IF fit = {} THEN None
     ELSE gapStart(map, CHOOSE i \in fit : \A k \in fit : k <= i, align)

(* The first of the smallest areas that are large enough, None when there is *)
(* none.  A map without entries is not measured.                             *)
syspage_bestFit(map, size, align) ==
  LET fit  == {i \in 1..Len(map.entries) + 1 : gapFits(map, i, size, align)}
      best == CHOOSE i \in fit : \A k \in fit :
                \/ gapSize(map, i, align) < gapSize(map, k, align)
                \/ gapSize(map, i, align) = gapSize(map, k, align) /\ i <= k
  IN IF map.entries = <<>> THEN gapStart(map, 1, align)
     ELSE IF fit = {} THEN None
     ELSE IF gapStart(map, best, align) = Anywhere THEN None
     ELSE gapStart(map, best, align)

(* Mutant: no check against the entries of the map. *)
FixedUnchecked(map, mapName, start, size, align) ==
  ALIGN_ADDR(IF mapName = NULL THEN start ELSE (map.start + start) % AddrSpace, align)

(* A fixed start: an address, or an offset in the map when one is named. *)
fixedStart(map, mapName, start, size, align) ==
  LET at == ALIGN_ADDR(IF mapName = NULL THEN start ELSE (map.start + start) % AddrSpace, align)
  IN IF \E i \in DOMAIN map.entries :
          overlaps(map.entries[i].start, map.entries[i].end, at, (at + size) % AddrSpace)
     THEN None ELSE at

(* The map and the start syspage_entryAdd settles on, before it allocates. *)
entryMap(mapName, start, size) ==
  IF mapName = NULL THEN mapAround(start, size) ELSE syspage_mapGet(mapName)

entryStart(mapName, start, size, align) ==
  LET m == entryMap(mapName, start, size)
  IN IF m = 0 THEN None
     ELSE IF mapName # NULL /\ start = Anywhere THEN syspage_bestFit(maps[m], size, align)
     ELSE fixedStart(maps[m], mapName, start, size, align)

entriesOf(map) == {map.entries[i] : i \in DOMAIN map.entries}

(* The reference for the allocator: the aligned addresses at which size      *)
(* bytes of a map are free.                                                  *)
FreeAt(map, size, align) ==
  {a \in map.start..map.end :
     /\ align = 0 \/ a % align = 0
     /\ a + size <= map.end
     /\ \A e \in entriesOf(map) : ~overlaps(e.start, e.end, a, a + size)}

(* Aligning up anywhere in the map stays within an unsigned int. *)
alignable(map, align) == map.end + align <= UintSpace

(* History: the map could grant what was asked for.  The size is not 0, and  *)
(* the map has a free place to choose, or the start given is inside the map. *)
grantable(map, mapName, start, size, align) ==
  /\ 0 < size
  /\ IF mapName # NULL /\ start = Anywhere
     THEN alignable(map, align) /\ FreeAt(map, size, align) # {}
     ELSE LET at == fixedStart(map, mapName, start, size, align)
          IN map.start <= at /\ at + size <= map.end

(* The maps with the new entry; proper is its history field. *)
withEntry(m, start, size, proper) ==
  [maps EXCEPT ![m].entries = syspage_sortedInsert(@,
     [start |-> start, end |-> (start + size) % AddrSpace, type |-> "allocated", at |-> heapTop,
      proper |-> proper])]

syspage_entryAdd(mapName, start, size, align) ==
  LET m == entryMap(mapName, start, size)
      s == entryStart(mapName, start, size, align)
  IN /\ cursor = None
     /\ UNCHANGED <<progs, cursor>>
     /\ \/ /\ s = None \/ ~fits(heapTop, SizeEntry)
           /\ ret' = "NULL"
           /\ UNCHANGED <<heapTop, maps>>
        \/ /\ s # None /\ fits(heapTop, SizeEntry)
           /\ heapTop' = newTop(heapTop, SizeEntry)
           /\ maps' = withEntry(m, s, size, grantable(maps[m], mapName, start, size, align))
           /\ ret' = "EOK"

(***************************************************************************)
(* Programs.  size of argv: the name, its terminator, and 'X' when the     *)
(* program is to be executed.  Program names do not start with 'X'.        *)
(***************************************************************************)
argvSize(exec) == IF exec THEN SizeArgv + 1 ELSE SizeArgv

(* syspage_progAdd called with heapTop = top: a failed second allocation     *)
(* keeps the first.  start and end are the caller's to set.                  *)
progFits(top, exec) == fits(top, SizeProg) /\ fits(newTop(top, SizeProg), argvSize(exec))

(* Mutant: the byte for 'X' is not counted. *)
ProgTopNoX(top, exec) ==
  IF ~fits(top, SizeProg) THEN top
  ELSE IF ~fits(newTop(top, SizeProg), SizeArgv) THEN newTop(top, SizeProg)
  ELSE newTop(newTop(top, SizeProg), SizeArgv)

progTop(top, exec) ==
  IF ~fits(top, SizeProg) THEN top
  ELSE IF ~fits(newTop(top, SizeProg), argvSize(exec)) THEN newTop(top, SizeProg)
  ELSE newTop(newTop(top, SizeProg), argvSize(exec))

prog(argv, exec, top, start, end) ==
  [argv |-> argv, exec |-> exec, at |-> top, start |-> start, end |-> end]

syspage_progAdd(argv, exec) ==
  /\ cursor = None
  /\ heapTop' = progTop(heapTop, exec)
  /\ progs' = IF progFits(heapTop, exec)
              THEN Append(progs, prog(argv, exec, heapTop, None, None)) ELSE progs
  /\ ret' = IF progFits(heapTop, exec) THEN "EOK" ELSE "NULL"
  /\ UNCHANGED <<maps, cursor>>

progExists(argv) == \E i \in DOMAIN progs : progs[i].argv = argv

(* Mutant: the program is recorded in place of the entry, not with it. *)
ProgNoEntry(mapName, size, argv, exec, allowOverwrite) ==
  LET s == entryStart(mapName, Anywhere, size, SizePage)
  IN /\ cursor = None /\ UNCHANGED <<cursor, maps>>
     /\ s # None /\ progFits(heapTop, exec)
     /\ heapTop' = progTop(heapTop, exec)
     /\ progs' = Append(progs, prog(argv, exec, heapTop, s, (s + size) % AddrSpace))
     /\ ret' = "EOK"

syspage_progAllocateAndAdd(mapName, size, argv, exec, allowOverwrite) ==
  LET m   == syspage_mapGet(mapName)
      s   == entryStart(mapName, Anywhere, size, SizePage)
      top == newTop(heapTop, SizeEntry)
  IN /\ cursor = None
     /\ UNCHANGED cursor
     /\ \/ /\ \/ ~allowOverwrite /\ progExists(argv)
              \/ s = None \/ ~fits(heapTop, SizeEntry)
           /\ ret' = "NULL"
           /\ UNCHANGED <<heapTop, maps, progs>>
        \/ /\ allowOverwrite \/ ~progExists(argv)
           /\ s # None /\ fits(heapTop, SizeEntry)
           /\ maps' = withEntry(m, s, size, grantable(maps[m], mapName, Anywhere, size, SizePage))
           /\ heapTop' = progTop(top, exec)
           /\ \/ ~progFits(top, exec) /\ ret' = "NULL" /\ UNCHANGED progs
              \/ /\ progFits(top, exec)
                 /\ progs' = Append(progs, prog(argv, exec, top, s, (s + size) % AddrSpace))
                 /\ ret' = "EOK"

(* syspage_alloc called by a loader for the map lists of a program. *)
syspage_alloc(size) ==
  /\ cursor = None
  /\ heapTop' = IF fits(heapTop, size) THEN newTop(heapTop, size) ELSE heapTop
  /\ ret' = IF fits(heapTop, size) THEN "EOK" ELSE "NULL"
  /\ UNCHANGED <<maps, progs, cursor>>

Next ==
  \/ \E name \in MapNames, range \in MapRanges, attrValid \in BOOLEAN :
       syspage_mapAdd(name, range[1], range[2], attrValid)
  \/ mapAddEntry
  \/ mapAddDone
  \/ \E c \in EntryCalls : syspage_entryAdd(c.mapName, c.start, c.size, c.align)
  \/ \E argv \in Argvs, exec \in BOOLEAN : syspage_progAdd(argv, exec)
  \/ \E mapName \in MapNames, size \in ProgSizes, argv \in Argvs, exec, allowOverwrite \in BOOLEAN :
       syspage_progAllocateAndAdd(mapName, size, argv, exec, allowOverwrite)
  \/ \E size \in {0, SizeArgv} : syspage_alloc(size)

Spec == syspage_init /\ [][Next]_vars

(***************************************************************************)
(* Properties.                                                             *)
(***************************************************************************)
Entry == [start : Addr, end : Addr, type : {"reserved", "temp", "allocated"}, at : Nat,
          proper : BOOLEAN]

Map == [name : MapNames, start : Addr, end : Addr, id : 0..MapIds - 1, at : Nat, entries : Seq(Entry)]

Prog == [argv : Argvs, exec : BOOLEAN, at : Nat, start : Addr \cup {None}, end : Addr \cup {None}]

(* The types of the fields; the loop of syspage_mapAdd runs only while the   *)
(* map it has linked is there.                                               *)
TypeOK ==
  /\ heapTop \in Nat
  /\ maps \in Seq(Map)
  /\ progs \in Seq(Prog)
  /\ cursor \in Addr \cup {None}
  /\ cursor # None => Len(maps) > 0

(* The entries of a map are in ascending order of start, which the walk of   *)
(* syspage_bestFit over the gaps between neighbours relies on, whatever      *)
(* order they were added in (syspage_sortedInsert).                          *)
EntriesSorted ==
  \A m \in DOMAIN maps : \A i, j \in DOMAIN maps[m].entries :
    i < j => maps[m].entries[i].start <= maps[m].entries[j].start

(* No two maps share an address or a name (the scan at the top of            *)
(* syspage_mapAdd), even when an earlier syspage_mapAdd failed half way.     *)
MapsDisjoint ==
  \A m, k \in DOMAIN maps :
    m # k => /\ ~overlaps(maps[m].start, maps[m].end, maps[k].start, maps[k].end)
             /\ maps[m].name # maps[k].name

(* The heap blocks the lists are made of. *)
mapBlocks ==
  UNION {{[of |-> <<"map", m>>, at |-> maps[m].at, size |-> SizeMap],
          [of |-> <<"name", m>>, at |-> newTop(maps[m].at, SizeMap), size |-> SizeName]}
           : m \in DOMAIN maps}

entryBlocks ==
  UNION {{[of |-> <<"entry", m, i>>, at |-> maps[m].entries[i].at, size |-> SizeEntry]
            : i \in DOMAIN maps[m].entries} : m \in DOMAIN maps}

progBlocks ==
  UNION {{[of |-> <<"prog", p>>, at |-> progs[p].at, size |-> SizeProg],
          [of |-> <<"argv", p>>, at |-> newTop(progs[p].at, SizeProg),
           size |-> argvSize(progs[p].exec)]}
           : p \in DOMAIN progs}

Blocks == mapBlocks \cup entryBlocks \cup progBlocks

(* Nothing reachable from the syspage shares heap with anything else, and    *)
(* all of it lies inside the size bytes the kernel is told to take over and  *)
(* below __heap_limit, with allocations failing at every possible point.     *)
HeapBlocksDisjoint ==
  /\ \A b, c \in Blocks : b.of # c.of => b.at + b.size <= c.at \/ c.at + c.size <= b.at
  /\ \A b \in Blocks : SizeSyspage <= b.at /\ b.at + b.size <= heapTop
  /\ heapTop < HeapLimit

(* Maps and entries are never moved, changed or dropped: a pointer that      *)
(* syspage_entryAdd returned, and an id a program refers to, stay good.      *)
EntriesKept ==
  [][\A m \in DOMAIN maps :
       /\ m \in DOMAIN maps'
       /\ [maps'[m] EXCEPT !.entries = <<>>] = [maps[m] EXCEPT !.entries = <<>>]
       /\ entriesOf(maps[m]) \subseteq entriesOf(maps'[m])]_vars

(* The memory of every program created by syspage_progAllocateAndAdd is held *)
(* by an entry, so that no later allocation may take it.                     *)
ProgramsReserved ==
  \A p \in DOMAIN progs : progs[p].start # None =>
    \E m \in DOMAIN maps : \E e \in entriesOf(maps[m]) :
      e.type = "allocated" /\ e.start = progs[p].start /\ e.end = progs[p].end

(* Every entry of the map was one it could grant. *)
orderly(map) == \A e \in entriesOf(map) : e.proper

(* No two entries of a map share an address, however its sections are packed *)
(* and whatever was asked for, as long as every request it granted was one   *)
(* it had room for: a request beyond that may be given memory in use.        *)
EntriesDisjoint ==
  \A m \in DOMAIN maps : orderly(maps[m]) =>
    \A i, j \in DOMAIN maps[m].entries :
      LET e == maps[m].entries[i]  f == maps[m].entries[j]
      IN i # j => ~overlaps(e.start, e.end, f.start, f.end)

(* An entry lies inside its map, on the same condition: aligning a start up  *)
(* and looking for the smallest gap never leave the map while it has room.   *)
EntriesInMap ==
  \A m \in DOMAIN maps : orderly(maps[m]) =>
    \A e \in entriesOf(maps[m]) :
      maps[m].start <= e.start /\ e.start <= e.end /\ e.end <= maps[m].end

(* Asked for a place in a map that has a free one, syspage_bestFit returns a *)
(* free one: where aligning passes the next entry and the size of a gap      *)
(* wraps, the real gap is still the smaller.                                 *)
BestFitCorrect ==
  \A m \in DOMAIN maps : \A c \in EntryCalls :
    LET free == FreeAt(maps[m], c.size, c.align)
    IN /\ orderly(maps[m]) /\ alignable(maps[m], c.align)
       /\ c.start = Anywhere /\ 0 < c.size /\ free # {}
       => syspage_bestFit(maps[m], c.size, c.align) \in free
=============================================================================
