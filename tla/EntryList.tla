------------------------------ MODULE EntryList ------------------------------
(***************************************************************************)
(* syspage_sortedInsert on the list of a map's entries as a sequence: what *)
(* Syspage works with, and what the relinking of EntryLinks comes down to. *)
(***************************************************************************)
EXTENDS Naturals, Sequences

(* Mutant: every entry goes to the end of the list. *)
InsertLast(entries, e) == Len(entries) + 1

(* Where syspage_sortedInsert links an entry: before the first entry that    *)
(* starts after it, at the end when there is none.                           *)
insertPos(entries, e) ==
  CHOOSE i \in 1..Len(entries) + 1 :
    /\ i <= Len(entries) => e.start < entries[i].start
    /\ \A j \in 1..i - 1 : entries[j].start <= e.start

(* Mutant: a new first entry is linked only to itself. *)
InsertHeadOnly(entries, e) ==
  IF insertPos(entries, e) = 1 THEN <<e>>
  ELSE [i \in 1..Len(entries) + 1 |->
          IF i < insertPos(entries, e) THEN entries[i]
          ELSE IF i = insertPos(entries, e) THEN e ELSE entries[i - 1]]

syspage_sortedInsert(entries, e) ==
  LET pos == insertPos(entries, e)
  IN [i \in 1..Len(entries) + 1 |->
        IF i < pos THEN entries[i] ELSE IF i = pos THEN e ELSE entries[i - 1]]
=============================================================================
