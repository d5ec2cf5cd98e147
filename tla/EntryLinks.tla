------------------------------ MODULE EntryLinks ------------------------------
(***************************************************************************)
(* syspage_sortedInsert on the pointers.  The entries of a map are a       *)
(* circular doubly linked list, and map->entries points at the first one;  *)
(* Syspage has the sequence that a walk from there meets.                  *)
(***************************************************************************)
EXTENDS Syspage, FiniteSets, TLC

(* The ring of a list of entries.  An entry is known by its heap address. *)
ring(entries) ==
  LET n == Len(entries)
      at(i) == entries[((i - 1) % n) + 1].at
      pos(a) == CHOOSE i \in 1..n : entries[i].at = a
      nodes == {entries[i].at : i \in 1..n}
  IN [head  |-> IF n = 0 THEN NULL ELSE at(1),
      next  |-> [a \in nodes |-> at(pos(a) + 1)],
      prev  |-> [a \in nodes |-> at(pos(a) + n - 1)],
      start |-> [a \in nodes |-> entries[pos(a)].start]]

(* The four assignments that put node n in front of node e. *)
linkBefore(r, e, n) ==
  [r EXCEPT !.next = (n :> e) @@ [@ EXCEPT ![r.prev[e]] = n],
            !.prev = (n :> r.prev[e]) @@ [@ EXCEPT ![e] = n]]

(* Mutant: the new entry is not made the head. *)
HeadStays(r, e, n) == linkBefore(r, e, n)

(* In the loop the new entry becomes the head if e was. *)
insertBefore(r, e, n) ==
  [linkBefore(r, e, n) EXCEPT !.head = IF e = r.head THEN n ELSE r.head]

(* The list of one entry; or the loop, from the head to the first entry that *)
(* starts later or back to the head, and the test for the end of the list,   *)
(* which compares with the head as the loop has left it.                     *)
sortedInsertLinks(r, n, start) ==
  LET count == Cardinality(DOMAIN r.next)
      visit[k \in 0..count] == IF k = 0 THEN r.head ELSE r.next[visit[k - 1]]
      later == {k \in 0..count - 1 : start < r.start[visit[k]]}
      e == IF later = {} THEN r.head
           ELSE visit[CHOOSE k \in later : \A j \in later : k <= j]
      looped == IF later = {} THEN r ELSE insertBefore(r, e, n)
      linked == IF e = looped.head THEN linkBefore(looped, e, n) ELSE looped
      alone == [r EXCEPT !.head = n, !.next = (n :> n), !.prev = (n :> n)]
  IN [(IF r.head = NULL THEN alone ELSE linked) EXCEPT !.start = (n :> start) @@ @]

(* However the calls follow each other, relinking the pointers gives the     *)
(* ring of the longer list: an entry in front of the head moves it and is    *)
(* not appended as well, one with the start of another goes behind it, and   *)
(* both directions of the ring hold every entry once.                        *)
LinksFollowList ==
  [][\A m \in DOMAIN maps :
       LET old == maps[m].entries  new == maps'[m].entries
       IN \A i \in DOMAIN new : (\A j \in DOMAIN old : old[j].at # new[i].at) =>
            ring(new) = sortedInsertLinks(ring(old), new[i].at, new[i].start)]_vars
=============================================================================
