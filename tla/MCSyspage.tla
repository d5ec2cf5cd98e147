----------------------------- MODULE MCSyspage -----------------------------
(***************************************************************************)
(* Constants for TLC.  A page is 4 bytes of a 64-byte address space, and   *)
(* an unsigned int covers half of it.                                      *)
(***************************************************************************)
EXTENDS EntryLinks

area(start, end, type) == [start |-> start, end |-> end, type |-> type]

(* Sections packed by the linker: two short ones in one page, then the heap. *)
PackedRegions == <<area(8, 14, "reserved"), area(5, 6, "temp"), area(7, 8, "temp")>>

(* Maps that end off the page grid, two that overlap, and one beyond the     *)
(* reach of an unsigned int.                                                 *)
PackedRanges == {<<4, 18>>, <<15, 23>>, <<20, 26>>, <<36, 47>>}

calls(names, starts, sizes, aligns) ==
  [mapName : names, start : starts, size : sizes, align : aligns]

(* The loaders name a map and leave the place to plo, with the alignment of  *)
(* a page, of an ELF segment or none, or they give an offset or an address.  *)
PackedCalls ==
  calls(MapNames, {Anywhere}, {0, 3}, {4}) \cup calls(MapNames, {Anywhere}, {2}, {0})
    \cup calls({CHOOSE name \in MapNames : TRUE}, {4}, {2}, {4})
    \cup calls({NULL}, {6}, {2}, {1, 4})
=============================================================================
