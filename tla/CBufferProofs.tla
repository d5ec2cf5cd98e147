--------------------------- MODULE CBufferProofs ---------------------------
(***************************************************************************)
(* Proofs about lib/cbuffer.c for every capacity and every byte alphabet:  *)
(* the indices stay inside the buffer, and the buffer implements a bounded *)
(* first-in first-out queue.  The invariant of the refinement is TypeOK    *)
(* with "full => head = tail", which tells an empty buffer from a full one *)
(* with equal indices.                                                     *)
(***************************************************************************)
EXTENDS CBuffer, SequenceTheorems, TLAPS

(* An index advanced modulo the capacity is again an index.                *)
LEMMA WrapIndex == ASSUME NEW k \in Nat PROVE k % Capacity \in Index
BY CBufferAssumption DEF Index

(* A piece of a transfer copied into the buffer leaves an array of bytes.  *)
LEMMA CopyInType ==
  ASSUME NEW d \in [Index -> Byte], NEW m \in Nat, NEW bytes \in [1..m -> Byte],
         NEW at \in Nat, NEW from \in Nat, NEW n \in Nat, from + n <= m
  PROVE  copyIn(d, at, bytes, from, n) \in [Index -> Byte]
BY CBufferAssumption DEF copyIn, Index

(* The two pieces of a write never exceed the transfer.                    *)
LEMMA WritePieces ==
  ASSUME TypeOK, NEW sz \in Nat
  PROVE  /\ writeFirst(sz) \in Nat
         /\ writeSecond(sz) \in Nat
         /\ writeFirst(sz) + writeSecond(sz) <= sz
BY CBufferAssumption DEF TypeOK, Index, writeFirst, writeSecond, least

(* The two pieces of a read never exceed the request.                      *)
LEMMA ReadPieces ==
  ASSUME TypeOK, NEW sz \in Nat
  PROVE  /\ readFirst(sz) \in Nat
         /\ readSecond(sz) \in Nat
         /\ readFirst(sz) + readSecond(sz) <= sz
BY CBufferAssumption DEF TypeOK, Index, readFirst, readSecond, least

(* The indices of a well-typed buffer are numbers.                         *)
LEMMA IndicesNat == ASSUME TypeOK PROVE head \in Nat /\ tail \in Nat
BY CBufferAssumption DEF TypeOK, Index

(* A copy in two pieces of a transfer of any length ends inside the buffer. *)
LEMMA WriteKeepsType ==
  ASSUME TypeOK, NEW bytes \in Transfers, lib_cbufWrite(bytes)
  PROVE  TypeOK'
<1>1. PICK m \in 0..MaxIO : bytes \in [1..m -> Byte]
  BY DEF Transfers
<1>2. Len(bytes) = m /\ m \in Nat
  BY <1>1, CBufferAssumption
<1> DEFINE first == writeFirst(m)
           second == writeSecond(m)
           once == copyIn(data, tail, bytes, 0, first)
<1>3. first \in Nat /\ second \in Nat /\ first + second <= m
  BY <1>2, WritePieces
<1>4. once \in [Index -> Byte]
  BY <1>1, <1>2, <1>3, IndicesNat, CopyInType DEF TypeOK
<1>5. copyIn(once, 0, bytes, first, second) \in [Index -> Byte]
  BY <1>1, <1>2, <1>3, <1>4, CopyInType
<1>6. (tail + first + second) % Capacity \in Index
  BY <1>3, IndicesNat, WrapIndex
<1>7. data' \in [Index -> Byte] /\ head' \in Index /\ tail' \in Index
  BY <1>2, <1>5, <1>6 DEF lib_cbufWrite, TypeOK
<1>8. full' \in BOOLEAN
  BY DEF lib_cbufWrite, TypeOK
<1>9. io'.op = "write"
  BY DEF lib_cbufWrite, TypeOK
<1>10. QED
  BY <1>7, <1>8, <1>9 DEF TypeOK

(* Reading advances head by the two pieces, modulo the capacity.           *)
LEMMA ReadKeepsType ==
  ASSUME TypeOK, NEW sz \in 0..MaxIO, lib_cbufRead(sz)
  PROVE  TypeOK'
<1>1. readFirst(sz) \in Nat /\ readSecond(sz) \in Nat
  BY CBufferAssumption, ReadPieces
<1>2. (head + readFirst(sz) + readSecond(sz)) % Capacity \in Index
  BY <1>1, IndicesNat, WrapIndex
<1>3. data' \in [Index -> Byte] /\ head' \in Index /\ tail' \in Index
  BY <1>2 DEF lib_cbufRead, TypeOK
<1>4. full' \in BOOLEAN
  BY DEF lib_cbufRead, TypeOK
<1>5. io'.op = "read"
  BY DEF lib_cbufRead, TypeOK
<1>6. QED
  BY <1>3, <1>4, <1>5 DEF TypeOK

(* The single-byte write stores at tail and advances it.                   *)
LEMMA WriteByteKeepsType ==
  ASSUME TypeOK, NEW b \in Byte, lib_cbufWriteByte(b)
  PROVE  TypeOK'
<1>1. (tail + 1) % Capacity \in Index
  BY IndicesNat, WrapIndex
<1>2. data' \in [Index -> Byte] /\ head' \in Index /\ tail' \in Index
  BY <1>1 DEF lib_cbufWriteByte, TypeOK
<1>3. full' \in BOOLEAN
  BY DEF lib_cbufWriteByte, TypeOK
<1>4. io'.op = "write"
  BY DEF lib_cbufWriteByte, TypeOK
<1>5. QED
  BY <1>2, <1>3, <1>4 DEF TypeOK

(* The single-byte read takes at head and advances it.                     *)
LEMMA ReadByteKeepsType ==
  ASSUME TypeOK, lib_cbufReadByte
  PROVE  TypeOK'
<1>1. (head + 1) % Capacity \in Index
  BY IndicesNat, WrapIndex
<1>2. data' \in [Index -> Byte] /\ head' \in Index /\ tail' \in Index
  BY <1>1 DEF lib_cbufReadByte, TypeOK
<1>3. full' \in BOOLEAN
  BY DEF lib_cbufReadByte, TypeOK
<1>4. io'.op = "read"
  BY DEF lib_cbufReadByte, TypeOK
<1>5. QED
  BY <1>2, <1>3, <1>4 DEF TypeOK

(* Whatever a caller does next, the fields stay in their ranges.           *)
LEMMA CallKeepsType ==
  ASSUME TypeOK, [Next]_vars
  PROVE  TypeOK'
<1>same. CASE UNCHANGED vars
  BY <1>same DEF vars, TypeOK
<1>call. CASE Next
  BY <1>call, WriteKeepsType, ReadKeepsType, WriteByteKeepsType, ReadByteKeepsType DEF Next
<1> QED
  BY <1>same, <1>call

(* The indices of the buffer and the bytes it stores never leave their     *)
(* ranges, whatever sequence of calls is made.                             *)
THEOREM TypeCorrect == Spec => []TypeOK
<1>init. lib_cbufInit => TypeOK
  BY CBufferAssumption DEF lib_cbufInit, TypeOK, Index
<1> QED
  BY <1>init, CallKeepsType, PTL DEF Spec

(***************************************************************************)
(* The refinement of BoundedFifo.  Offsets from head are below twice the   *)
(* capacity, so going round the buffer is one subtraction.                 *)
(***************************************************************************)
wrap(x) == IF x < Capacity THEN x ELSE x - Capacity

(* full is only raised where the indices have met. *)
FullMet == full => head = tail

(* How many bytes are stored, by cases. *)
used == IF tail > head THEN tail - head
        ELSE IF tail < head THEN tail + Capacity - head
        ELSE IF full THEN Capacity ELSE 0

(* The n bytes of the array d from offset h on. *)
stored(d, h, n) == [i \in 1..n |-> d[wrap(h + i - 1)]]

(* The arrays d and e agree on the n bytes from h on. *)
sameRun(d, e, h, n) == \A i \in 1..n : e[wrap(h + i - 1)] = d[wrap(h + i - 1)]

(* The m bytes of e from offset at on are the first m of the transfer. *)
prefixAt(e, at, bytes, m) == \A j \in 1..m : e[wrap(at + j - 1)] = bytes[j]

(* The remainder of such an offset is the subtraction.                      *)
LEMMA ModWrap == ASSUME NEW x \in 0..(Capacity + Capacity - 1) PROVE x % Capacity = wrap(x)
<1>1. Capacity \in Nat /\ Capacity > 0 /\ x \in Nat /\ x < Capacity + Capacity
  BY CBufferAssumption
<1>2. CASE x < Capacity
  BY <1>1, <1>2 DEF wrap
<1>3. CASE x >= Capacity
  BY <1>1, <1>3 DEF wrap
<1>4. QED
  BY <1>1, <1>2, <1>3

(* lib_cbufSize counts the bytes between head and tail, going round.        *)
LEMMA SizeUsed ==
  ASSUME TypeOK
  PROVE  /\ lib_cbufSize = used /\ used \in 0..Capacity
         /\ wrap(head + used) = tail
         /\ ~full => used < Capacity
         /\ (used = 0) <=> lib_cbufEmpty
<1>1. head \in Nat /\ tail \in Nat /\ head < Capacity /\ tail < Capacity /\ Capacity \in Nat \ {0}
  BY CBufferAssumption DEF TypeOK, Index
<1>2. tail + Capacity - head \in 0..(Capacity + Capacity - 1)
  BY <1>1
<1>3. (tail + Capacity - head) % Capacity = wrap(tail + Capacity - head)
  BY <1>2, ModWrap
<1>4. lib_cbufSize = used
  BY <1>1, <1>3 DEF lib_cbufSize, used, wrap
<1>5. QED
  BY <1>1, <1>4 DEF used, wrap, lib_cbufEmpty

(* The bytes read from an offset on are a sequence of bytes.                *)
LEMMA StoredSeq ==
  ASSUME NEW d \in [Index -> Byte], NEW h \in Index, NEW n \in 0..Capacity
  PROVE  /\ stored(d, h, n) \in Seq(Byte) /\ Len(stored(d, h, n)) = n
         /\ \A i \in 1..n : stored(d, h, n)[i] = d[wrap(h + i - 1)]
<1>1. \A i \in 1..n : wrap(h + i - 1) \in Index
  BY CBufferAssumption DEF wrap, Index
<1>2. stored(d, h, n) \in [1..n -> Byte]
  BY <1>1 DEF stored
<1>3. n \in Nat
  BY CBufferAssumption
<1>4. QED
  BY <1>2, <1>3 DEF stored

(* The refinement mapping. *)
LEMMA ContentStored == TypeOK => content = stored(data, head, used)
<1> SUFFICES ASSUME TypeOK PROVE content = stored(data, head, used)
  OBVIOUS
<1>1. head \in Nat /\ head < Capacity /\ Capacity \in Nat \ {0}
  BY CBufferAssumption DEF TypeOK, Index
<1>2. lib_cbufSize = used /\ used \in 0..Capacity
  BY SizeUsed
<1>3. ASSUME NEW i \in 1..used PROVE (head + i - 1) % Capacity = wrap(head + i - 1)
  BY <1>1, <1>2, <1>3, ModWrap
<1>4. QED
  BY <1>2, <1>3 DEF content, stored

(* A prefix put behind the n stored bytes is appended to them.              *)
LEMMA StoredAppend ==
  ASSUME NEW d \in [Index -> Byte], NEW e \in [Index -> Byte], NEW h \in Index,
         NEW n \in 0..Capacity, NEW m \in 0..(Capacity - n),
         NEW bytes \in Seq(Byte), m <= Len(bytes),
         sameRun(d, e, h, n), NEW at, at = wrap(h + n), prefixAt(e, at, bytes, m),
         NEW k, k = n + m
  PROVE  stored(e, h, k) = stored(d, h, n) \o SubSeq(bytes, 1, m)
<1> DEFINE s == stored(d, h, n)
           t == SubSeq(bytes, 1, m)
           r == stored(e, h, n + m)
<1>1. /\ Capacity \in Nat \ {0} /\ n \in Nat /\ m \in Nat /\ n + m \in 0..Capacity
      /\ h \in Nat /\ h < Capacity
  BY CBufferAssumption DEF Index
<1>2. s \in Seq(Byte) /\ Len(s) = n /\ \A i \in 1..n : s[i] = d[wrap(h + i - 1)]
  BY StoredSeq
<1>3. r \in Seq(Byte) /\ Len(r) = n + m /\ \A i \in 1..n + m : r[i] = e[wrap(h + i - 1)]
  BY <1>1, StoredSeq
<1>4. t \in Seq(Byte) /\ Len(t) = m /\ \A j \in 1..m : t[j] = bytes[j]
  BY <1>1
<1> HIDE DEF s, t, r
<1>5. s \o t \in Seq(Byte) /\ Len(s \o t) = n + m
  BY <1>2, <1>4, ConcatProperties
<1>6. ASSUME NEW i \in 1..n + m PROVE r[i] = (s \o t)[i]
  <2>1. (s \o t)[i] = IF i <= n THEN s[i] ELSE t[i - n]
    BY <1>2, <1>4, ConcatProperties
  <2>2. CASE i <= n
    <3>1. i \in 1..n
      BY <1>1, <2>2
    <3>2. e[wrap(h + i - 1)] = d[wrap(h + i - 1)]
      BY <3>1 DEF sameRun
    <3>3. QED
      BY <1>2, <1>3, <2>1, <2>2, <3>1, <3>2
  <2>3. CASE i > n
    <3>1. i - n \in 1..m
      BY <1>1, <2>3
    <3>2. wrap(wrap(h + n) + (i - n) - 1) = wrap(h + i - 1)
      BY <1>1, <2>3 DEF wrap
    <3>3. e[wrap(wrap(h + n) + (i - n) - 1)] = bytes[i - n]
      BY <3>1 DEF prefixAt
    <3>4. r[i] = bytes[i - n] /\ t[i - n] = bytes[i - n]
      BY <1>3, <1>4, <3>1, <3>2, <3>3
    <3>5. ~(i <= n)
      BY <1>1, <2>3
    <3>6. QED
      BY <2>1, <3>4, <3>5
  <2>4. i \in Nat
    BY <1>1
  <2>5. i <= n \/ i > n
    BY <1>1, <2>4
  <2>6. QED
    BY <2>2, <2>3, <2>5
<1>7. r = s \o t
  BY <1>3, <1>5, <1>6, SeqEqual
<1>8. QED
  BY <1>7 DEF r, s, t

(* Moving the head m bytes on drops the first m of the stored bytes.        *)
LEMMA StoredDrop ==
  ASSUME NEW d \in [Index -> Byte], NEW h \in Index, NEW n \in 0..Capacity, NEW m \in 0..n
  PROVE  stored(d, wrap(h + m), n - m) = SubSeq(stored(d, h, n), m + 1, n)
<1> DEFINE s == stored(d, h, n)
           r == stored(d, wrap(h + m), n - m)
           t == SubSeq(s, m + 1, n)
<1>1. /\ Capacity \in Nat \ {0} /\ n \in Nat /\ m \in Nat /\ n <= Capacity /\ m <= n
      /\ h \in Nat /\ h < Capacity /\ n - m \in 0..Capacity
  BY CBufferAssumption DEF Index
<1>2. s \in Seq(Byte) /\ Len(s) = n /\ \A i \in 1..n : s[i] = d[wrap(h + i - 1)]
  BY StoredSeq
<1>3. wrap(h + m) \in Index
  BY <1>1 DEF wrap, Index
<1>4. r \in Seq(Byte) /\ Len(r) = n - m /\ \A i \in 1..n - m : r[i] = d[wrap(wrap(h + m) + i - 1)]
  BY <1>1, <1>3, StoredSeq
<1> HIDE DEF s, r
<1>5. t \in Seq(Byte) /\ Len(t) = n - m /\ \A i \in 1..n - m : t[i] = s[m + i]
  BY <1>1, <1>2
<1> HIDE DEF t
<1>6. ASSUME NEW i \in 1..n - m PROVE r[i] = t[i]
  <2>1. wrap(wrap(h + m) + i - 1) = wrap(h + (m + i) - 1) /\ m + i \in 1..n
    BY <1>1 DEF wrap
  <2>2. QED
    BY <1>2, <1>4, <1>5, <2>1
<1>7. r = t
  BY <1>4, <1>5, <1>6, SeqEqual
<1>8. QED
  BY <1>7 DEF r, s, t

(* lib_cbufWrite copies the longest prefix that fits, in at most two pieces. *)
LEMMA WriteSplit ==
  ASSUME TypeOK, ~full, NEW sz \in Nat
  PROVE  /\ writeFirst(sz) + writeSecond(sz) = least(sz, Capacity - used)
         /\ tail + writeFirst(sz) <= Capacity
         /\ writeSecond(sz) > 0 => tail + writeFirst(sz) = Capacity /\ tail >= head
         /\ writeSecond(sz) <= head
         /\ writeSecond(sz) = 0 \/ head + used = tail
         /\ head > tail => tail + writeFirst(sz) <= head /\ writeSecond(sz) = 0
BY CBufferAssumption DEF TypeOK, Index, writeFirst, writeSecond, least, used

(* What the two copies of lib_cbufWrite leave in the buffer.                *)
LEMMA WriteData ==
  ASSUME TypeOK, ~full, NEW bytes \in Seq(Byte), NEW first, NEW second, NEW new,
         first = writeFirst(Len(bytes)), second = writeSecond(Len(bytes)),
         new = copyIn(copyIn(data, tail, bytes, 0, first), 0, bytes, first, second)
  PROVE  sameRun(data, new, head, used) /\ prefixAt(new, tail, bytes, first + second)
<1>1. /\ head \in Nat /\ tail \in Nat /\ head < Capacity /\ tail < Capacity /\ Capacity \in Nat \ {0}
      /\ Len(bytes) \in Nat /\ used \in 0..Capacity
  BY CBufferAssumption, SizeUsed DEF TypeOK, Index
<1>2. first \in Nat /\ second \in Nat
  BY <1>1, WritePieces
<1>3. /\ first + second <= Capacity - used
      /\ tail + first <= Capacity
      /\ second > 0 => tail + first = Capacity /\ tail >= head
      /\ second <= head
      /\ head > tail => tail + first <= head /\ second = 0
  BY <1>1, WriteSplit DEF least
<1>4. ASSUME NEW k \in Index
      PROVE  new[k] = IF k < second THEN bytes[first + k + 1]
                      ELSE IF tail <= k /\ k < tail + first THEN bytes[k - tail + 1] ELSE data[k]
  <2>1. k \in Nat
    BY <1>1 DEF Index
  <2>2. k \in 0..(0 + second - 1) <=> k < second
    BY <1>2, <2>1
  <2>3. k \in tail..(tail + first - 1) <=> tail <= k /\ k < tail + first
    BY <1>1, <1>2, <2>1
  <2>4. first + k - 0 + 1 = first + k + 1 /\ 0 + k - tail + 1 = k - tail + 1
    BY <1>1, <1>2, <2>1
  <2>5. QED
    BY <2>2, <2>3, <2>4 DEF copyIn
<1>5. ASSUME NEW i \in 1..used PROVE new[wrap(head + i - 1)] = data[wrap(head + i - 1)]
  <2>1. wrap(head + i - 1) \in Index
    BY <1>1 DEF wrap, Index
  <2>2. /\ ~(wrap(head + i - 1) < second)
        /\ ~(tail <= wrap(head + i - 1) /\ wrap(head + i - 1) < tail + first)
    BY <1>1, <1>2, <1>3 DEF wrap, used
  <2>3. QED
    BY <1>4, <2>1, <2>2
<1>6. ASSUME NEW j \in 1..first + second PROVE new[wrap(tail + j - 1)] = bytes[j]
  <2>1. wrap(tail + j - 1) \in Index
    BY <1>1, <1>2, <1>3 DEF wrap, Index
  <2>2. CASE j <= first
    <3>1. wrap(tail + j - 1) = tail + j - 1
      BY <1>1, <1>2, <1>3, <2>2 DEF wrap
    <3>2. ~(tail + j - 1 < second) /\ tail <= tail + j - 1 /\ tail + j - 1 < tail + first
      BY <1>1, <1>2, <1>3, <2>2
    <3>3. (tail + j - 1) - tail + 1 = j
      BY <1>1, <1>2
    <3>4. QED
      BY <1>4, <2>1, <3>1, <3>2, <3>3
  <2>3. CASE j > first
    <3>1. wrap(tail + j - 1) = j - first - 1 /\ j - first - 1 < second
      BY <1>1, <1>2, <1>3, <2>3 DEF wrap
    <3>2. first + (j - first - 1) + 1 = j
      BY <1>1, <1>2
    <3>3. QED
      BY <1>4, <2>1, <3>1, <3>2
  <2>4. j <= first \/ j > first
    BY <1>2
  <2>5. QED
    BY <2>2, <2>3, <2>4
<1>7. QED
  BY <1>5, <1>6 DEF sameRun, prefixAt

(* After a write of n bytes the indices are n further apart.                *)
LEMMA UsedGrows ==
  ASSUME TypeOK, ~full, NEW n \in 1..(Capacity - used),
         head' = head, tail' = (tail + n) % Capacity, full' = (tail' = head)
  PROVE  used' = used + n
<1>1. /\ head \in Nat /\ tail \in Nat /\ head < Capacity /\ tail < Capacity /\ Capacity \in Nat \ {0}
      /\ used \in 0..Capacity
  BY CBufferAssumption, SizeUsed DEF TypeOK, Index
<1>2. tail' = wrap(tail + n)
  BY <1>1, ModWrap
<1>3. used' = IF tail' > head THEN tail' - head
              ELSE IF tail' < head THEN tail' + Capacity - head
              ELSE Capacity
  <2>1. tail' \in Nat
    BY <1>1, <1>2 DEF wrap
  <2>2. CASE tail' = head
    <3>1. full'
      BY <2>2, Zenon
    <3>2. QED
      BY <1>1, <2>2, <3>1 DEF used
  <2>3. CASE tail' # head
    BY <1>1, <2>1, <2>3 DEF used
  <2>4. QED
    BY <2>2, <2>3
<1>4. QED
  BY <1>1, <1>2, <1>3 DEF used, wrap

(* After a read of n bytes the indices are n closer.                        *)
LEMMA UsedShrinks ==
  ASSUME TypeOK, FullMet, NEW n \in 1..used,
         tail' = tail, head' = (head + n) % Capacity, full' = FALSE
  PROVE  used' = used - n /\ head' = wrap(head + n)
<1>1. /\ head \in Nat /\ tail \in Nat /\ head < Capacity /\ tail < Capacity /\ Capacity \in Nat \ {0}
      /\ used \in 0..Capacity
  BY CBufferAssumption, SizeUsed DEF TypeOK, Index
<1>2. head' = wrap(head + n)
  BY <1>1, ModWrap
<1>3. used' = IF tail > head' THEN tail - head'
              ELSE IF tail < head' THEN tail + Capacity - head'
              ELSE 0
  BY <1>1, <1>2 DEF used, wrap
<1>4. QED
  BY <1>1, <1>2, <1>3 DEF used, wrap, FullMet

(* A transfer is a sequence of bytes.                                       *)
LEMMA TransferSeq == ASSUME NEW bytes \in Transfers PROVE bytes \in Seq(Byte) /\ Len(bytes) \in Nat
<1>1. PICK m \in 0..MaxIO : bytes \in [1..m -> Byte]
  BY DEF Transfers
<1>2. m \in Nat
  BY CBufferAssumption
<1>3. QED
  BY <1>1, <1>2

(* The queue holds as many bytes as are used.                               *)
LEMMA QueueIs ==
  ASSUME TypeOK
  PROVE  content \in Seq(Byte) /\ Len(content) = used /\ used \in 0..Capacity
BY SizeUsed, ContentStored, StoredSeq DEF TypeOK

(* A call that leaves the fields alone leaves the queue alone.              *)
LEMMA SameQueue ==
  ASSUME UNCHANGED <<data, head, tail, full>>
  PROVE  content' = content
BY DEF content, lib_cbufSize

(* A write that is refused, or that has nothing to write, is a write of the *)
(* empty prefix.                                                            *)
LEMMA RefusedWrite ==
  ASSUME TypeOK, FullMet, NEW bytes \in Seq(Byte), Len(bytes) = 0 \/ full,
         io' = [op |-> "write", bytes |-> <<>>], UNCHANGED <<data, head, tail, full>>
  PROVE  Fifo!FifoWrite(bytes)
<1>1. content \in Seq(Byte) /\ Len(content) = used /\ used \in 0..Capacity /\ Len(bytes) \in Nat
  BY QueueIs
<1>2. Capacity \in Nat /\ (full => used = Capacity)
  BY CBufferAssumption DEF used, FullMet, TypeOK, Index
<1>3. Fifo!least(Len(bytes), Capacity - Len(content)) = 0
  BY <1>1, <1>2 DEF Fifo!least
<1>4. SubSeq(bytes, 1, 0) = <<>>
  BY SubSeqEmpty, <1>1
<1>5. content' = content \o <<>>
  BY <1>1, SameQueue, ConcatEmptySeq
<1>6. QED
  BY <1>3, <1>4, <1>5 DEF Fifo!FifoWrite

(* n bytes of a transfer were stored behind the tail.                       *)
LEMMA StoresPrefix ==
  ASSUME TypeOK, TypeOK', ~full, NEW bytes \in Seq(Byte), NEW n,
         n = least(Len(bytes), Capacity - used), n > 0,
         head' = head, tail' = (tail + n) % Capacity, full' = (tail' = head),
         io' = [op |-> "write", bytes |-> SubSeq(bytes, 1, n)],
         sameRun(data, data', head, used), prefixAt(data', tail, bytes, n)
  PROVE  Fifo!FifoWrite(bytes)
<1>1. content \in Seq(Byte) /\ Len(content) = used /\ used \in 0..Capacity /\ Len(bytes) \in Nat
  BY QueueIs
<1>2. Capacity \in Nat \ {0}
  BY CBufferAssumption
<1>3. n \in 1..(Capacity - used) /\ n \in 0..(Capacity - used) /\ n <= Len(bytes)
  BY <1>1, <1>2 DEF least
<1>4. used' = used + n
  BY <1>3, UsedGrows
<1>5. wrap(head + used) = tail
  BY SizeUsed
<1>6. data \in [Index -> Byte] /\ data' \in [Index -> Byte] /\ head \in Index
  BY DEF TypeOK
<1>7. stored(data', head, used') = stored(data, head, used) \o SubSeq(bytes, 1, n)
  <2>1. /\ data \in [Index -> Byte] /\ data' \in [Index -> Byte] /\ head \in Index
        /\ used \in 0..Capacity /\ n \in 0..(Capacity - used) /\ bytes \in Seq(Byte)
        /\ n <= Len(bytes) /\ sameRun(data, data', head, used) /\ tail = wrap(head + used)
        /\ prefixAt(data', tail, bytes, n) /\ used' = used + n
    BY <1>1, <1>3, <1>4, <1>5, <1>6
  <2>2. QED
    BY ONLY <2>1, StoredAppend
<1>8. content = stored(data, head, used)
  BY ContentStored
<1>9. content' = stored(data', head', used')
  <2>1. (content = stored(data, head, used))'
    BY ContentStored, PTL
  <2>2. QED
    BY <2>1
<1>10. content' = content \o SubSeq(bytes, 1, n)
  BY <1>4, <1>7, <1>8, <1>9
<1>11. Fifo!least(Len(bytes), Capacity - Len(content)) = n
  BY <1>1 DEF Fifo!least, least
<1>12. QED
  BY <1>10, <1>11 DEF Fifo!FifoWrite

(* lib_cbufWrite acts on the queue as FifoWrite.                            *)
LEMMA WriteImplements ==
  ASSUME TypeOK, TypeOK', FullMet, NEW bytes \in Transfers, lib_cbufWrite(bytes)
  PROVE  Fifo!FifoWrite(bytes)
<1>1. bytes \in Seq(Byte) /\ Len(bytes) \in Nat
  BY TransferSeq
<1>2. CASE Len(bytes) = 0 \/ full
  <2>1. io' = [op |-> "write", bytes |-> <<>>] /\ UNCHANGED <<data, head, tail, full>>
    BY <1>1, <1>2 DEF lib_cbufWrite
  <2>2. QED
    BY <1>1, <1>2, <2>1, RefusedWrite
<1>3. CASE Len(bytes) > 0 /\ ~full
  <2> DEFINE first == writeFirst(Len(bytes))
             second == writeSecond(Len(bytes))
             n == first + second
  <2>1. /\ io' = [op |-> "write", bytes |-> SubSeq(bytes, 1, n)]
        /\ data' = copyIn(copyIn(data, tail, bytes, 0, first), 0, bytes, first, second)
        /\ tail' = (tail + first + second) % Capacity
        /\ full' = (tail' = head)
        /\ head' = head
    BY <1>1, <1>3 DEF lib_cbufWrite
  <2>2. first \in Nat /\ second \in Nat
    BY <1>1, WritePieces
  <2>3. n = least(Len(bytes), Capacity - used)
    BY <1>1, <1>3, WriteSplit
  <2>4. sameRun(data, data', head, used) /\ prefixAt(data', tail, bytes, n)
    BY <1>1, <1>3, <2>1, WriteData
  <2> HIDE DEF first, second
  <2>5. tail + first + second = tail + n
    BY <2>2, IndicesNat
  <2>6. n > 0
    BY <1>1, <1>3, <2>3, SizeUsed, CBufferAssumption DEF least
  <2>7. tail' = (tail + n) % Capacity
    BY <2>1, <2>5
  <2> HIDE DEF n
  <2>8. QED
    BY <1>1, <1>3, <2>1, <2>3, <2>4, <2>6, <2>7, StoresPrefix
<1>4. QED
  BY <1>1, <1>2, <1>3

(* lib_cbufWriteByte is a write of one byte.                                *)
LEMMA WriteByteImplements ==
  ASSUME TypeOK, TypeOK', FullMet, NEW b \in Byte, lib_cbufWriteByte(b)
  PROVE  Fifo!FifoWrite(<<b>>)
<1>1. <<b>> \in Seq(Byte) /\ Len(<<b>>) = 1 /\ <<b>>[1] = b
  OBVIOUS
<1>2. CASE full
  <2>1. io' = [op |-> "write", bytes |-> <<>>] /\ UNCHANGED <<data, head, tail, full>>
    BY <1>2 DEF lib_cbufWriteByte
  <2>2. QED
    BY <1>1, <1>2, <2>1, RefusedWrite
<1>3. CASE ~full
  <2>1. /\ io' = [op |-> "write", bytes |-> <<b>>]
        /\ data' = [data EXCEPT ![tail] = b]
        /\ tail' = (tail + 1) % Capacity
        /\ full' = (tail' = head)
        /\ head' = head
    BY <1>3 DEF lib_cbufWriteByte
  <2>2. /\ head \in Nat /\ tail \in Nat /\ head < Capacity /\ tail < Capacity /\ Capacity \in Nat \ {0}
        /\ used \in 0..Capacity /\ used < Capacity /\ data \in [Index -> Byte]
    BY <1>3, CBufferAssumption, SizeUsed DEF TypeOK, Index
  <2>3. least(Len(<<b>>), Capacity - used) = 1
    BY <1>1, <2>2 DEF least
  <2>4. SubSeq(<<b>>, 1, 1) = <<b>>
    BY <1>1, SubSeqFull
  <2>5. ASSUME NEW i \in 1..used PROVE data'[wrap(head + i - 1)] = data[wrap(head + i - 1)]
    <3>1. wrap(head + i - 1) \in Index /\ wrap(head + i - 1) # tail
      BY <1>3, <2>2 DEF wrap, used, Index
    <3>2. QED
      BY <2>1, <2>2, <3>1
  <2>6. ASSUME NEW j \in 1..1 PROVE data'[wrap(tail + j - 1)] = <<b>>[j]
    <3>1. j = 1 /\ wrap(tail + j - 1) = tail /\ tail \in Index
      BY <2>2 DEF wrap, Index
    <3>2. QED
      BY <1>1, <2>1, <2>2, <3>1
  <2>7. sameRun(data, data', head, used) /\ prefixAt(data', tail, <<b>>, 1)
    BY <2>5, <2>6 DEF sameRun, prefixAt
  <2> DEFINE bytes == <<b>>
             n == 1
  <2>8. /\ bytes \in Seq(Byte) /\ n = least(Len(bytes), Capacity - used) /\ n > 0
        /\ tail' = (tail + n) % Capacity
        /\ io' = [op |-> "write", bytes |-> SubSeq(bytes, 1, n)]
        /\ prefixAt(data', tail, bytes, n)
    BY <1>1, <2>1, <2>3, <2>4, <2>7
  <2> HIDE DEF bytes, n
  <2>9. Fifo!FifoWrite(bytes)
    BY <1>3, <2>1, <2>7, <2>8, StoresPrefix
  <2>10. QED
    BY <2>9 DEF bytes
<1>4. QED
  BY <1>2, <1>3

(* The two pieces of lib_cbufRead are the longest prefix that is there.     *)
LEMMA ReadSplit ==
  ASSUME TypeOK, FullMet, ~lib_cbufEmpty, NEW sz \in Nat
  PROVE  /\ readFirst(sz) + readSecond(sz) = least(sz, used)
         /\ head + readFirst(sz) <= Capacity
         /\ readSecond(sz) > 0 => head + readFirst(sz) = Capacity
         /\ readSecond(sz) <= tail
BY CBufferAssumption DEF TypeOK, Index, readFirst, readSecond, least, used, lib_cbufEmpty, FullMet

(* n bytes were taken from the head.                                        *)
LEMMA TakesPrefix ==
  ASSUME TypeOK, TypeOK', FullMet, NEW sz \in Nat, NEW n, NEW out \in Seq(Byte),
         n = least(sz, used), n > 0, Len(out) = n,
         \A i \in 1..n : out[i] = data[wrap(head + i - 1)],
         data' = data, tail' = tail, head' = (head + n) % Capacity, full' = FALSE,
         io' = [op |-> "read", bytes |-> out]
  PROVE  Fifo!FifoRead(sz)
<1>1. content \in Seq(Byte) /\ Len(content) = used /\ used \in 0..Capacity
  BY QueueIs
<1>2. Capacity \in Nat \ {0}
  BY CBufferAssumption
<1>3. n \in 1..used /\ n \in 0..used /\ n \in Nat /\ used \in Nat
  BY <1>1, <1>2 DEF least
<1>4. used' = used - n /\ head' = wrap(head + n)
  BY <1>3, UsedShrinks
<1>5. data \in [Index -> Byte] /\ head \in Index
  BY DEF TypeOK
<1>6. content = stored(data, head, used)
  BY ContentStored
<1>7. (content = stored(data, head, used))'
  BY ContentStored, PTL
<1>8. content' = SubSeq(content, n + 1, used)
  <2>1. stored(data, wrap(head + n), used - n) = SubSeq(stored(data, head, used), n + 1, used)
    BY <1>1, <1>3, <1>5, StoredDrop
  <2>2. content' = stored(data, wrap(head + n), used - n)
    BY <1>4, <1>7
  <2>3. QED
    BY <1>6, <2>1, <2>2
<1>9. out = SubSeq(content, 1, n)
  <2> DEFINE s == SubSeq(content, 1, n)
  <2>1. s \in Seq(Byte) /\ Len(s) = n /\ \A i \in 1..n : s[i] = content[i]
    BY <1>1, <1>3
  <2>2. \A i \in 1..used : content[i] = data[wrap(head + i - 1)]
    BY <1>1, <1>5, <1>6, StoredSeq, SMTT(30)
  <2>3. ASSUME NEW i \in 1..n PROVE out[i] = s[i]
    <3>1. i \in 1..used
      BY <1>3
    <3>2. QED
      BY <2>1, <2>2, <3>1
  <2> HIDE DEF s
  <2>4. out = s
    BY <2>1, <2>3, SeqEqual
  <2>5. QED
    BY <2>4 DEF s
<1>10. Fifo!least(sz, Len(content)) = n
  BY <1>1 DEF Fifo!least, least
<1>11. QED
  BY <1>1, <1>8, <1>9, <1>10 DEF Fifo!FifoRead

(* A read of nothing, or of an empty buffer, returns the empty prefix.      *)
LEMMA EmptyRead ==
  ASSUME TypeOK, NEW sz \in Nat, sz = 0 \/ lib_cbufEmpty,
         io' = [op |-> "read", bytes |-> <<>>], UNCHANGED <<data, head, tail, full>>
  PROVE  Fifo!FifoRead(sz)
<1>1. content \in Seq(Byte) /\ Len(content) = used /\ used \in 0..Capacity
  BY QueueIs
<1>2. used \in Nat /\ (lib_cbufEmpty => used = 0)
  BY <1>1, SizeUsed, CBufferAssumption
<1>3. Fifo!least(sz, Len(content)) = 0
  BY <1>1, <1>2 DEF Fifo!least
<1>4. SubSeq(content, 1, 0) = <<>>
  BY <1>1, SubSeqEmpty
<1>5. SubSeq(content, 0 + 1, Len(content)) = content
  BY <1>1, SubSeqFull
<1>6. content' = content
  BY SameQueue
<1>7. QED
  BY <1>3, <1>4, <1>5, <1>6 DEF Fifo!FifoRead

(* lib_cbufRead acts on the queue as FifoRead.                              *)
LEMMA ReadImplements ==
  ASSUME TypeOK, TypeOK', FullMet, NEW sz \in Nat, lib_cbufRead(sz)
  PROVE  Fifo!FifoRead(sz)
<1>1. CASE sz = 0 \/ lib_cbufEmpty
  <2>1. io' = [op |-> "read", bytes |-> <<>>] /\ UNCHANGED <<data, head, tail, full>>
    BY <1>1 DEF lib_cbufRead
  <2>2. QED
    BY <1>1, <2>1, EmptyRead
<1>2. CASE sz > 0 /\ ~lib_cbufEmpty
  <2> DEFINE first == readFirst(sz)
             second == readSecond(sz)
             n == first + second
             one == copyOut(head, first)
             two == copyOut(0, second)
  <2>1. /\ io' = [op |-> "read", bytes |-> one \o two]
        /\ head' = (head + first + second) % Capacity
        /\ full' = FALSE /\ data' = data /\ tail' = tail
    BY <1>2 DEF lib_cbufRead
  <2>2. /\ head \in Nat /\ tail \in Nat /\ head < Capacity /\ tail < Capacity /\ Capacity \in Nat \ {0}
        /\ used \in 0..Capacity /\ used # 0 /\ data \in [Index -> Byte]
    BY <1>2, CBufferAssumption, SizeUsed DEF TypeOK, Index
  <2>3. first \in Nat /\ second \in Nat
    BY ReadPieces
  <2>4. n = least(sz, used)
    BY <1>2, ReadSplit
  <2>5. head + first <= Capacity /\ (second > 0 => head + first = Capacity) /\ second <= tail
    BY <1>2, ReadSplit
  <2> HIDE DEF first, second
  <2>6. one \in Seq(Byte) /\ Len(one) = first /\ \A i \in 1..first : one[i] = data[head + i - 1]
    <3>1. one \in [1..first -> Byte]
      BY <2>2, <2>3, <2>5 DEF copyOut, Index
    <3>2. QED
      BY <2>3, <3>1 DEF copyOut
  <2>7. two \in Seq(Byte) /\ Len(two) = second /\ \A i \in 1..second : two[i] = data[i - 1]
    <3>1. \A i \in 1..second : 0 + i - 1 = i - 1 /\ i - 1 \in Index
      BY <2>2, <2>3, <2>5 DEF Index
    <3>2. two \in [1..second -> Byte]
      BY <2>2, <3>1 DEF copyOut
    <3>3. QED
      BY <2>3, <3>1, <3>2 DEF copyOut
  <2> HIDE DEF one, two
  <2>8. one \o two \in Seq(Byte) /\ Len(one \o two) = n
    BY <2>6, <2>7, ConcatProperties
  <2>9. ASSUME NEW i \in 1..n PROVE (one \o two)[i] = data[wrap(head + i - 1)]
    <3>1. (one \o two)[i] = IF i <= first THEN one[i] ELSE two[i - first]
      BY <2>6, <2>7, ConcatProperties
    <3>2. CASE i <= first
      <4>1. wrap(head + i - 1) = head + i - 1 /\ i \in 1..first
        BY <2>2, <2>3, <2>5, <3>2 DEF wrap
      <4>2. QED
        BY <2>6, <3>1, <3>2, <4>1
    <3>3. CASE ~(i <= first)
      <4>1. wrap(head + i - 1) = i - first - 1 /\ i - first \in 1..second
        BY <2>2, <2>3, <2>5, <3>3 DEF wrap
      <4>2. QED
        BY <2>7, <3>1, <3>3, <4>1
    <3>4. QED
      BY <3>2, <3>3
  <2>10. n > 0 /\ n \in Nat
    BY <1>2, <2>2, <2>3, <2>4 DEF least
  <2>11. head' = (head + n) % Capacity
    <3>1. head + first + second = head + n
      BY <2>2, <2>3
    <3>2. QED
      BY <2>1, <3>1
  <2> HIDE DEF n
  <2>12. QED
    BY <2>1, <2>4, <2>8, <2>9, <2>10, <2>11, TakesPrefix
<1>3. QED
  BY <1>1, <1>2

(* lib_cbufReadByte is a read of one byte.                                  *)
LEMMA ReadByteImplements ==
  ASSUME TypeOK, TypeOK', FullMet, lib_cbufReadByte
  PROVE  Fifo!FifoRead(1)
<1>1. CASE lib_cbufEmpty
  <2>1. io' = [op |-> "read", bytes |-> <<>>] /\ UNCHANGED <<data, head, tail, full>>
    BY <1>1 DEF lib_cbufReadByte
  <2>2. QED
    BY <1>1, <2>1, EmptyRead
<1>2. CASE ~lib_cbufEmpty
  <2> DEFINE out == <<data[head]>>
             n == 1
  <2>1. /\ io' = [op |-> "read", bytes |-> out]
        /\ head' = (head + n) % Capacity
        /\ full' = FALSE /\ data' = data /\ tail' = tail
    BY <1>2 DEF lib_cbufReadByte
  <2>2. /\ head \in Nat /\ head < Capacity /\ head \in Index /\ Capacity \in Nat \ {0}
        /\ used \in 0..Capacity /\ used # 0 /\ data \in [Index -> Byte]
    BY <1>2, CBufferAssumption, SizeUsed DEF TypeOK, Index
  <2>3. n = least(1, used) /\ n > 0
    BY <2>2 DEF least
  <2>4. out \in Seq(Byte) /\ Len(out) = n
    BY <2>2
  <2>5. ASSUME NEW i \in 1..n PROVE out[i] = data[wrap(head + i - 1)]
    <3>1. i = 1 /\ wrap(head + i - 1) = head
      BY <2>2 DEF wrap
    <3>2. QED
      BY <3>1
  <2> HIDE DEF out, n
  <2>6. QED
    BY <2>1, <2>3, <2>4, <2>5, TakesPrefix
<1>3. QED
  BY <1>1, <1>2

(* full is assigned the outcome of the comparison of the indices.           *)
LEMMA RaisedWhereMet ==
  ASSUME full' = (tail' = head), head' = head
  PROVE  FullMet'
<1>1. CASE tail' = head
  BY <1>1 DEF FullMet
<1>2. CASE tail' # head
  <2>1. ~full'
    BY <1>2, Zenon
  <2>2. QED
    BY <2>1 DEF FullMet
<1>3. QED
  BY <1>1, <1>2

(* Every call keeps full a flag of the indices having met, and is a call of *)
(* the queue.                                                               *)
LEMMA CallImplements ==
  ASSUME TypeOK, TypeOK', FullMet, [Next]_vars
  PROVE  FullMet' /\ [Fifo!FifoNext]_<<content, io>>
<1>1. CASE UNCHANGED vars
  BY <1>1 DEF vars, FullMet, content, lib_cbufSize
<1>2. ASSUME NEW bytes \in Transfers, lib_cbufWrite(bytes)
      PROVE  FullMet' /\ Fifo!FifoNext
  <2>1. FullMet'
    <3>1. \/ UNCHANGED <<head, tail, full>>
          \/ full' = (tail' = head) /\ head' = head
      BY <1>2 DEF lib_cbufWrite
    <3>2. QED
      BY <3>1, RaisedWhereMet DEF FullMet
  <2>2. bytes \in Fifo!Transfers
    BY DEF Transfers, Fifo!Transfers
  <2>3. QED
    BY <1>2, <2>1, <2>2, WriteImplements DEF Fifo!FifoNext
<1>3. ASSUME NEW sz \in 0..MaxIO, lib_cbufRead(sz)
      PROVE  FullMet' /\ Fifo!FifoNext
  <2>1. FullMet'
    BY <1>3 DEF lib_cbufRead, FullMet
  <2>2. sz \in Nat
    BY CBufferAssumption
  <2>3. QED
    BY <1>3, <2>1, <2>2, ReadImplements DEF Fifo!FifoNext
<1>4. ASSUME NEW b \in Byte, lib_cbufWriteByte(b)
      PROVE  FullMet' /\ Fifo!FifoNext
  <2>1. FullMet'
    <3>1. \/ UNCHANGED <<head, tail, full>>
          \/ full' = (tail' = head) /\ head' = head
      BY <1>4 DEF lib_cbufWriteByte
    <3>2. QED
      BY <3>1, RaisedWhereMet DEF FullMet
  <2>2. <<b>> \in Fifo!Transfers
    <3>1. <<b>> \in [1..1 -> Byte] /\ 1 \in 0..MaxIO
      BY CBufferAssumption
    <3>2. QED
      BY <3>1 DEF Fifo!Transfers
  <2>3. QED
    BY <1>4, <2>1, <2>2, WriteByteImplements DEF Fifo!FifoNext
<1>5. CASE lib_cbufReadByte
  <2>1. FullMet'
    BY <1>5 DEF lib_cbufReadByte, FullMet
  <2>2. 1 \in 0..MaxIO
    BY CBufferAssumption
  <2>3. QED
    BY <1>5, <2>1, <2>2, ReadByteImplements DEF Fifo!FifoNext
<1>6. QED
  BY <1>1, <1>2, <1>3, <1>4, <1>5 DEF Next

(* lib/cbuffer.c implements a bounded first-in first-out queue, for every    *)
(* capacity and every length of transfer: each call stores and returns the   *)
(* bytes the queue would, wherever head and tail are when it wraps around.   *)
THEOREM CBufferRefines == Spec => ImplementsFifo
<1>1. lib_cbufInit => TypeOK /\ FullMet /\ Fifo!FifoInit
  <2> SUFFICES ASSUME lib_cbufInit PROVE TypeOK /\ FullMet /\ Fifo!FifoInit
    OBVIOUS
  <2>1. TypeOK
    BY CBufferAssumption DEF lib_cbufInit, TypeOK, Index
  <2>2. lib_cbufSize = 0 /\ FullMet
    BY DEF lib_cbufInit, lib_cbufSize, FullMet
  <2>3. content = <<>>
    BY <2>2 DEF content
  <2>4. QED
    BY <2>1, <2>2, <2>3 DEF lib_cbufInit, Fifo!FifoInit
<1>2. TypeOK /\ FullMet /\ [Next]_vars => (TypeOK /\ FullMet)' /\ [Fifo!FifoNext]_<<content, io>>
  BY CallKeepsType, CallImplements
<1>3. QED
  BY <1>1, <1>2, PTL DEF Spec, ImplementsFifo, Fifo!FifoSpec
=============================================================================
