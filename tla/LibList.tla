------------------------------- MODULE LibList -------------------------------
(***************************************************************************)
(* lib/list.c, and its copy in riscv-sbi/core/list.c: circular doubly      *)
(* linked lists threaded through the nodes.  The memory is a function from *)
(* locations to pointers, because a caller may pass as the list any        *)
(* location that holds a pointer to a node, a field of a node included:    *)
(* sbi_ipiSend passes &tasks->prev.                                        *)
(***************************************************************************)
CONSTANTS Nodes, NULL   (* NULL is not a node *)

(* The variable that holds the list, and the two fields of a node. *)
list == <<"list", NULL>>
next(t) == <<"next", t>>
prev(t) == <<"prev", t>>

Locations == {list} \cup {next(t) : t \in Nodes} \cup {prev(t) : t \in Nodes}

Pointers == Nodes \cup {NULL}

empty == [l \in Locations |-> NULL]

(* lib_listAdd(l, t), in the order of its assignments. *)
lib_listAdd(mem, l, t) ==
  IF t = NULL THEN mem
  ELSE IF mem[l] = NULL THEN [mem EXCEPT ![next(t)] = t, ![prev(t)] = t, ![l] = t]
  ELSE LET m1 == [mem EXCEPT ![prev(t)] = mem[prev(mem[l])]]
           m2 == [m1 EXCEPT ![next(m1[prev(m1[l])])] = t]
           m3 == [m2 EXCEPT ![next(t)] = m2[l]]
       IN [m3 EXCEPT ![prev(m3[l])] = t]

lib_listRemove(mem, l, t) ==
  IF t = NULL THEN mem
  ELSE LET m1 == [mem EXCEPT ![next(mem[prev(t)])] = mem[next(t)]]
           m2 == [m1 EXCEPT ![prev(m1[next(t)])] = m1[prev(t)]]
           m3 == IF mem[next(t)] = t /\ mem[prev(t)] = t THEN [mem EXCEPT ![l] = NULL]
                 ELSE IF t = m2[l] THEN [m2 EXCEPT ![l] = m2[next(t)]] ELSE m2
       IN [m3 EXCEPT ![next(t)] = NULL, ![prev(t)] = NULL]
=============================================================================
