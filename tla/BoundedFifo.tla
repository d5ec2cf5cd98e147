---------------------------- MODULE BoundedFifo ----------------------------
(***************************************************************************)
(* What a user of lib/cbuffer.c is promised: a first-in first-out queue of *)
(* at most Capacity bytes.  A write stores the longest prefix that fits, a *)
(* read returns the longest prefix that is there.  The variable io is the  *)
(* last call with its result, so that an implementation must agree with    *)
(* the queue on every value it returns.                                    *)
(***************************************************************************)
EXTENDS Naturals, Sequences

CONSTANTS
  Byte,      (* the bytes a caller writes *)
  Capacity,  (* how many bytes the queue holds *)
  MaxIO      (* the longest transfer a caller asks for *)

VARIABLES queue, io

least(a, b) == IF a < b THEN a ELSE b

Transfers == UNION {[1..n -> Byte] : n \in 0..MaxIO}

FifoInit ==
  /\ queue = <<>>
  /\ io = [op |-> "init", bytes |-> <<>>]

FifoWrite(bytes) ==
  LET n == least(Len(bytes), Capacity - Len(queue)) IN
    /\ queue' = queue \o SubSeq(bytes, 1, n)
    /\ io' = [op |-> "write", bytes |-> SubSeq(bytes, 1, n)]

FifoRead(sz) ==
  LET n == least(sz, Len(queue)) IN
    /\ queue' = SubSeq(queue, n + 1, Len(queue))
    /\ io' = [op |-> "read", bytes |-> SubSeq(queue, 1, n)]

FifoNext ==
  \/ \E bytes \in Transfers : FifoWrite(bytes)
  \/ \E sz \in 0..MaxIO : FifoRead(sz)

FifoSpec == FifoInit /\ [][FifoNext]_<<queue, io>>
=============================================================================
