------------------------------ MODULE CBuffer ------------------------------
(***************************************************************************)
(* lib/cbuffer.c: the circular buffer between interrupt handlers and the   *)
(* main loop.  head is the next byte to read, tail the next free slot, and *)
(* full tells apart the two cases of head = tail.                          *)
(***************************************************************************)
EXTENDS Naturals, Sequences

CONSTANTS
  Byte,      (* the values a byte of the buffer takes *)
  Capacity,  (* cbuffer_t.capacity *)
  MaxIO      (* bound: the longest sz a caller passes *)

ASSUME CBufferAssumption ==
  /\ Capacity \in Nat \ {0}
  /\ MaxIO \in Nat \ {0}
  /\ Byte # {}

VARIABLES data, head, tail, full, io

vars == <<data, head, tail, full, io>>

Index == 0..Capacity - 1

least(a, b) == IF a < b THEN a ELSE b

Transfers == UNION {[1..n -> Byte] : n \in 0..MaxIO}

(***************************************************************************)
(* Observers.                                                              *)
(***************************************************************************)
lib_cbufSize ==
  IF tail = head THEN IF full THEN Capacity ELSE 0
  ELSE (tail + Capacity - head) % Capacity

lib_cbufEmpty == head = tail /\ ~full

(***************************************************************************)
(* hal_memcpy into the buffer at offset at of the n bytes that follow the  *)
(* first from bytes of the transfer, and out of the buffer.                *)
(***************************************************************************)
copyIn(d, at, bytes, from, n) ==
  [i \in Index |-> IF i \in at..(at + n - 1) THEN bytes[from + i - at + 1] ELSE d[i]]

copyOut(at, n) == [i \in 1..n |-> data[at + i - 1]]

(***************************************************************************)
(* Operations.                                                             *)
(***************************************************************************)
lib_cbufInit ==
  /\ data \in [Index -> Byte]
  /\ head = 0 /\ tail = 0 /\ full = FALSE
  /\ io = [op |-> "init", bytes |-> <<>>]

(* The two pieces a transfer of sz bytes is copied in: up to the end of the  *)
(* free (stored) run at tail (head), then from the start of the buffer.      *)
writeFirst(sz) ==
  IF head > tail THEN least(sz, head - tail) ELSE least(sz, Capacity - tail)

writeSecond(sz) ==
  IF head > tail THEN 0 ELSE least(sz - writeFirst(sz), head)

readFirst(sz) ==
  IF tail > head THEN least(sz, tail - head) ELSE least(sz, Capacity - head)

readSecond(sz) ==
  IF tail > head THEN 0 ELSE least(sz - readFirst(sz), tail)

lib_cbufWrite(bytes) ==
  LET first  == writeFirst(Len(bytes))
      second == writeSecond(Len(bytes))
  IN \/ /\ Len(bytes) = 0 \/ full
        /\ io' = [op |-> "write", bytes |-> <<>>]
        /\ UNCHANGED <<data, head, tail, full>>
     \/ /\ Len(bytes) > 0 /\ ~full
        /\ io' = [op |-> "write", bytes |-> SubSeq(bytes, 1, first + second)]
        /\ data' = copyIn(copyIn(data, tail, bytes, 0, first), 0, bytes, first, second)
        /\ tail' = (tail + first + second) % Capacity
        /\ full' = (tail' = head)
        /\ UNCHANGED head

lib_cbufRead(sz) ==
  LET first  == readFirst(sz)
      second == readSecond(sz)
  IN \/ /\ sz = 0 \/ lib_cbufEmpty
        /\ io' = [op |-> "read", bytes |-> <<>>]
        /\ UNCHANGED <<data, head, tail, full>>
     \/ /\ sz > 0 /\ ~lib_cbufEmpty
        /\ io' = [op |-> "read", bytes |-> copyOut(head, first) \o copyOut(0, second)]
        /\ head' = (head + first + second) % Capacity
        /\ full' = FALSE
        /\ UNCHANGED <<data, tail>>

(* Mutant: full is never raised by a single-byte write. *)
WriteByteNeverFull(b) ==
  /\ ~full
  /\ io' = [op |-> "write", bytes |-> <<b>>]
  /\ data' = [data EXCEPT ![tail] = b]
  /\ tail' = (tail + 1) % Capacity
  /\ UNCHANGED <<head, full>>

lib_cbufWriteByte(b) ==
  \/ /\ full
     /\ io' = [op |-> "write", bytes |-> <<>>]
     /\ UNCHANGED <<data, head, tail, full>>
  \/ /\ ~full
     /\ io' = [op |-> "write", bytes |-> <<b>>]
     /\ data' = [data EXCEPT ![tail] = b]
     /\ tail' = (tail + 1) % Capacity
     /\ full' = (tail' = head)
     /\ UNCHANGED head

(* Mutant: the read index is not reduced modulo the capacity. *)
ReadByteNoWrap ==
  /\ ~lib_cbufEmpty
  /\ io' = [op |-> "read", bytes |-> <<data[head]>>]
  /\ head' = head + 1
  /\ full' = FALSE
  /\ UNCHANGED <<data, tail>>

lib_cbufReadByte ==
  \/ /\ lib_cbufEmpty
     /\ io' = [op |-> "read", bytes |-> <<>>]
     /\ UNCHANGED <<data, head, tail, full>>
  \/ /\ ~lib_cbufEmpty
     /\ io' = [op |-> "read", bytes |-> <<data[head]>>]
     /\ head' = (head + 1) % Capacity
     /\ full' = FALSE
     /\ UNCHANGED <<data, tail>>

Next ==
  \/ \E bytes \in Transfers : lib_cbufWrite(bytes)
  \/ \E sz \in 0..MaxIO : lib_cbufRead(sz)
  \/ \E b \in Byte : lib_cbufWriteByte(b)
  \/ lib_cbufReadByte

Spec == lib_cbufInit /\ [][Next]_vars

(***************************************************************************)
(* Properties.                                                             *)
(***************************************************************************)
(* Every field stays in its range: the indices inside the buffer. *)
TypeOK ==
  /\ data \in [Index -> Byte]
  /\ head \in Index
  /\ tail \in Index
  /\ full \in BOOLEAN
  /\ io.op \in {"init", "read", "write"}

(* The bytes stored, oldest first: lib_cbufSize of them from head, wrapping. *)
content == [i \in 1..lib_cbufSize |-> data[(head + i - 1) % Capacity]]

Fifo == INSTANCE BoundedFifo WITH queue <- content

(* Every operation of lib/cbuffer.c, with its wrap-around copies in two    *)
(* pieces, acts on the stored bytes as the same operation on a bounded     *)
(* first-in first-out queue and returns the same bytes.                    *)
ImplementsFifo == Fifo!FifoSpec
=============================================================================
