--------------------------- MODULE MsgFrameProofs ---------------------------
(***************************************************************************)
(* Proofs about the frames of phfs/msg.c, for every size of a byte, every  *)
(* set of replies and every way devs_read cuts the stream: msg_read stays  *)
(* inside its buffer whatever comes; and on a line that loses and changes  *)
(* nothing it is inside a frame only in step with a reply of the host, and *)
(* hands out nothing but whole replies, also after timeouts in mid-frame.  *)
(* As long as mishaps are fewer than attempts msg_send does not fail.      *)
(*                                                                         *)
(* The loops of msg.c are recursive functions in the model.  What holds of *)
(* them is shown by induction over sets of numbers (Induction) and needs   *)
(* first that they exist (Recursion).                                      *)
(***************************************************************************)
EXTENDS MsgFrame, TLAPS, WellFoundedInduction, SequenceTheorems

(***************************************************************************)
(* Induction and recursion up to a number.                                 *)
(***************************************************************************)
(* A set with 0 and, up to n, the successors of its elements.               *)
LEMMA Induction ==
  ASSUME NEW n \in Nat, NEW P, 0 \in P, \A i \in 1..n : i - 1 \in P => i \in P
  PROVE  0..n \subseteq P
<1> SUFFICES ASSUME 0..n \ P # {} PROVE FALSE
  OBVIOUS
<1>1. 0..n \ P \in SUBSET Nat
  OBVIOUS
<1>2. PICK k \in 0..n \ P : \A j \in 0..n \ P : <<j, k>> \notin OpToRel(<, Nat)
  BY <1>1, NatLessThanWellFounded, WFMin, Zenon
<1>3. \A j \in 0..n \ P : ~(j < k)
  BY <1>1, <1>2, Zenon DEF OpToRel
<1>4. k \in 1..n /\ k - 1 \in 0..n /\ k - 1 < k
  OBVIOUS
<1>5. QED
  BY <1>3, <1>4

(* f begins with a and F[i] makes f[i] of the element before it. *)
Computes(f, n, S, a, F) ==
  f \in [0..n -> S] /\ f[0] = a /\ \A i \in 1..n : f[i] = F[i][f[i - 1]]

(* Such an f exists: a loop over n values has a result.                     *)
LEMMA Recursion ==
  ASSUME NEW n \in Nat, NEW S, NEW a \in S, NEW F \in [1..n -> [S -> S]]
  PROVE  \E f : Computes(f, n, S, a, F)
<1> DEFINE P == {k \in 0..n : \E f : Computes(f, k, S, a, F)}
<1>1. 0 \in P
  <2> DEFINE g == [i \in 0..0 |-> a]
  <2>1. Computes(g, 0, S, a, F)
    BY DEF Computes
  <2>2. QED
    BY <2>1
<1>2. ASSUME NEW k \in 1..n, k - 1 \in P PROVE k \in P
  <2>1. PICK g : Computes(g, k - 1, S, a, F)
    BY <1>2
  <2> DEFINE h == [i \in 0..k |-> IF i < k THEN g[i] ELSE F[k][g[k - 1]]]
  <2>2. k - 1 \in 0..k - 1 /\ g[k - 1] \in S /\ F[k] \in [S -> S]
    BY <2>1 DEF Computes
  <2>3. F[k][g[k - 1]] \in S
    BY <2>2
  <2>4. h \in [0..k -> S] /\ h[0] = a
    BY <2>1, <2>3 DEF Computes
  <2>5. ASSUME NEW i \in 1..k PROVE h[i] = F[i][h[i - 1]]
    <3>1. i - 1 \in 0..k /\ i - 1 < k /\ i \in 0..k
      OBVIOUS
    <3>2. h[i - 1] = g[i - 1]
      BY <3>1
    <3>3. CASE i < k
      <4>1. i \in 1..k - 1 /\ h[i] = g[i]
        BY <3>1, <3>3
      <4>2. QED
        BY <2>1, <3>2, <4>1 DEF Computes
    <3>4. CASE i = k
      BY <3>1, <3>2, <3>4
    <3>5. QED
      BY <3>3, <3>4
  <2> HIDE DEF h
  <2>6. Computes(h, k, S, a, F)
    BY <2>4, <2>5 DEF Computes
  <2>7. QED
    BY <2>6
<1> HIDE DEF P
<1>3. 0..n \subseteq P
  BY <1>1, <1>2, Induction
<1>4. n \in P
  BY <1>3
<1>5. QED
  BY <1>4 DEF P

(* One step of it.                                                          *)
LEMMA ComputesStep ==
  ASSUME NEW n \in Nat, NEW S, NEW a, NEW F, NEW f, Computes(f, n, S, a, F), NEW i \in 1..n
  PROVE  f[i - 1] \in S /\ f[i] \in S /\ f[i] = F[i][f[i - 1]]
<1>1. i - 1 \in 0..n /\ i \in 0..n
  OBVIOUS
<1>2. QED
  BY <1>1 DEF Computes

(***************************************************************************)
(* Messages as bytes.                                                      *)
(***************************************************************************)
(* The sum of bytes is a number.                                            *)
LEMMA SumIsNat ==
  ASSUME NEW b \in Seq(Bytes)
  PROVE  sum(b) \in Nat
<1> DEFINE F == [i \in 1..Len(b) |-> [x \in Nat |-> x + b[i]]]
           Eq(s) == s = [i \in 0..Len(b) |-> IF i = 0 THEN 0 ELSE s[i - 1] + b[i]]
<1>1. Len(b) \in Nat /\ \A i \in 1..Len(b) : b[i] \in Nat
  <2>1. Len(b) \in Nat
    BY LenProperties
  <2>2. \A i \in 1..Len(b) : b[i] \in Bytes
    BY ElementOfSeq
  <2>3. QED
    BY <2>1, <2>2, MsgAssumption DEF Bytes
<1>2. F \in [1..Len(b) -> [Nat -> Nat]]
  BY <1>1
<1> HIDE DEF F
<1>3. PICK f : Computes(f, Len(b), Nat, 0, F)
  BY <1>1, <1>2, Recursion
<1>4. ASSUME NEW i \in 1..Len(b) PROVE f[i] = f[i - 1] + b[i]
  <2>1. f[i - 1] \in Nat /\ f[i] = F[i][f[i - 1]]
    BY <1>1, <1>3, ComputesStep
  <2>2. QED
    BY <2>1 DEF F
<1>6. Eq(f)
  <2>1. ASSUME NEW i \in 0..Len(b) PROVE f[i] = IF i = 0 THEN 0 ELSE f[i - 1] + b[i]
    BY <1>1, <1>3, <1>4 DEF Computes
  <2>2. QED
    BY <1>3, <2>1 DEF Computes
<1>7. PICK s : Eq(s) /\ sum(b) = s[Len(b)]
  <2>1. Eq(CHOOSE s : Eq(s))
    BY <1>6
  <2>2. sum(b) = (CHOOSE s : Eq(s))[Len(b)]
    BY DEF sum
  <2>3. QED
    BY <2>1, <2>2
<1>8. s[0] = 0 /\ \A i \in 1..Len(b) : s[i] = s[i - 1] + b[i]
  <2>1. \A i \in 0..Len(b) : s[i] = IF i = 0 THEN 0 ELSE s[i - 1] + b[i]
    BY <1>7
  <2>2. QED
    BY <1>1, <2>1
<1> DEFINE P == {i \in 0..Len(b) : s[i] \in Nat}
<1>9. 0 \in P
  BY <1>1, <1>8
<1>10. ASSUME NEW i \in 1..Len(b), i - 1 \in P PROVE i \in P
  <2>1. s[i] = s[i - 1] + b[i] /\ s[i - 1] \in Nat /\ b[i] \in Nat
    BY <1>1, <1>8, <1>10
  <2>2. QED
    BY <2>1
<1> HIDE DEF P
<1>11. 0..Len(b) \subseteq P
  BY <1>1, <1>9, <1>10, Induction
<1>12. Len(b) \in P
  BY <1>1, <1>11
<1>13. QED
  BY <1>7, <1>12 DEF P

(* The length and the type of a message come out of the word they share.    *)
LEMMA WordFields ==
  ASSUME NEW m \in Replies
  PROVE  /\ word(m) \in Bytes
         /\ msg_getlen(word(m)) = Len(m.data) /\ msg_gettype(word(m)) = m.type
<1>1. /\ m.type \in Nat /\ m.type < Types /\ Types \in Nat \ {0} /\ Base \in Nat
      /\ m.type + Types * Len(m.data) < Base
  BY MsgAssumption, ReplyAssumption
<1>2. Len(m.data) \in Nat
  BY ReplyAssumption, LenProperties
<1>3. \A t, n, T \in Nat : t < T =>
        (t + T * n) \div T = n /\ (t + T * n) % T = t
  <2> SUFFICES ASSUME NEW t \in Nat, NEW n \in Nat, NEW T \in Nat, t < T
               PROVE  (t + T * n) \div T = n /\ (t + T * n) % T = t
    OBVIOUS
  <2> DEFINE x == t + T * n
             q == x \div T
  <2>1. x \in Nat /\ T > 0
    OBVIOUS
  <2>2. q \in Int /\ x = T * q + (x % T) /\ x % T \in 0..T - 1
    BY <2>1
  <2> HIDE DEF x, q
  <2>3. T * n + t = T * q + (x % T)
    BY <2>2 DEF x
  <2>4. q = n
    <3>1. CASE q < n
      <4>1. T * (q + 1) <= T * n
        BY <2>1, <2>2, <3>1, SMTT(30)
      <4>2. QED
        BY <2>1, <2>2, <2>3, <4>1
    <3>2. CASE n < q
      <4>1. T * (n + 1) <= T * q
        BY <2>1, <2>2, <3>2, SMTT(30)
      <4>2. QED
        BY <2>1, <2>2, <2>3, <4>1
    <3>3. QED
      BY <2>2, <3>1, <3>2
  <2>5. x % T = t
    BY <2>2, <2>3, <2>4
  <2>6. QED
    BY <2>4, <2>5 DEF x, q
<1>4. Types * Len(m.data) \in Nat
  BY <1>1, <1>2
<1>5. word(m) \in Bytes
  BY <1>1, <1>2, <1>4 DEF word, Bytes
<1>6. QED
  BY <1>1, <1>2, <1>3, <1>5 DEF word, msg_getlen, msg_gettype

(* What bytesOf makes of a reply: its fields in their places, and a         *)
(* checksum that msg_read accepts; msgOf undoes it.                         *)
LEMMA ReplyBytes ==
  ASSUME NEW m \in Replies
  PROVE  LET b == bytesOf(m)
         IN /\ b \in Seq(Bytes) /\ Len(b) \in Nat /\ Len(b) = MSG_HDRSZ + Len(m.data)
            /\ Len(m.data) \in Nat /\ Len(b) <= MSG_HDRSZ + MSG_MAXLEN
            /\ b[3] = word(m)
            /\ msg_getcsum(b) = msg_csum(b)
            /\ msgOf(b) = m
<1> DEFINE h == <<0, m.seq, word(m)>>
           a == h \o m.data
           c == msg_csum(a)
           b == [a EXCEPT ![1] = c]
<1>1. /\ m \in [seq : Bytes, type : 0..Types - 1, data : Seq(Bytes)]
      /\ Len(m.data) <= MSG_MAXLEN
  BY ReplyAssumption DEF Bytes
<1>2. m.data \in Seq(Bytes) /\ Len(m.data) \in Nat /\ m.seq \in Bytes
  BY <1>1, LenProperties
<1>3. 0 \in Bytes /\ word(m) \in Bytes
  BY WordFields, MsgAssumption DEF Bytes
<1>4. h \in Seq(Bytes) /\ Len(h) = 3 /\ h[1] = 0 /\ h[2] = m.seq /\ h[3] = word(m)
  BY <1>2, <1>3
<1> HIDE DEF h
<1>5. /\ a \in Seq(Bytes) /\ Len(a) = 3 + Len(m.data)
      /\ \A i \in 1..3 + Len(m.data) : a[i] = IF i <= 3 THEN h[i] ELSE m.data[i - 3]
  <2>1. /\ h \o m.data \in Seq(Bytes) /\ Len(h \o m.data) = Len(h) + Len(m.data)
        /\ \A i \in 1..Len(h) + Len(m.data) :
             (h \o m.data)[i] = IF i <= Len(h) THEN h[i] ELSE m.data[i - Len(h)]
    BY <1>2, <1>4, ConcatProperties
  <2>2. QED
    BY <1>4, <2>1
<1>6. bytesOf(m) = b
  BY DEF bytesOf, h
<1> HIDE DEF a
<1>7. a # <<>> /\ Len(a) \in Nat /\ 1 \in 1..Len(a)
  BY <1>2, <1>5
<1>8. Tail(a) \in Seq(Bytes)
  BY <1>5, <1>7, HeadTailProperties
<1>9. c \in Bytes
  <2>1. sum(Tail(a)) \in Nat
    BY <1>8, SumIsNat
  <2>2. QED
    BY <2>1, MsgAssumption DEF msg_csum, Bytes
<1> HIDE DEF c
<1>10. /\ b \in Seq(Bytes) /\ Len(b) = Len(a)
       /\ \A i \in 1..Len(a) : b[i] = IF i = 1 THEN c ELSE a[i]
  BY <1>5, <1>7, <1>9, ExceptSeq
<1> HIDE DEF b
<1>11. Tail(b) = Tail(a)
  <2>1. b # <<>>
    BY <1>5, <1>7, <1>10
  <2>2. /\ Tail(b) \in Seq(Bytes) /\ Len(Tail(b)) = Len(b) - 1
        /\ \A i \in 1..Len(Tail(b)) : Tail(b)[i] = b[i + 1]
    BY <1>10, <2>1, HeadTailProperties
  <2>3. /\ Len(Tail(a)) = Len(a) - 1
        /\ \A i \in 1..Len(Tail(a)) : Tail(a)[i] = a[i + 1]
    BY <1>5, <1>7, HeadTailProperties
  <2>4. ASSUME NEW i \in 1..Len(Tail(b)) PROVE Tail(b)[i] = Tail(a)[i]
    <3>1. i + 1 \in 1..Len(a) /\ i + 1 # 1 /\ i \in 1..Len(Tail(a))
      BY <1>7, <1>10, <2>2, <2>3
    <3>2. QED
      BY <1>10, <2>2, <2>3, <3>1
  <2>5. QED
    BY <1>8, <1>10, <2>2, <2>3, <2>4, SeqEqual
<1>12. msg_getcsum(b) = msg_csum(b)
  <2>1. b[1] = c
    BY <1>7, <1>10
  <2>2. QED
    BY <1>11, <2>1 DEF msg_getcsum, msg_csum, c
<1>13. b[2] = m.seq /\ b[3] = word(m)
  <2>1. 2 \in 1..Len(a) /\ 3 \in 1..Len(a) /\ 2 \in 1..3 + Len(m.data) /\ 3 \in 1..3 + Len(m.data)
    BY <1>2, <1>5
  <2>2. QED
    BY <1>4, <1>5, <1>10, <2>1
<1>14. SubSeq(b, MSG_HDRSZ + 1, Len(b)) = m.data
  <2> DEFINE d == SubSeq(b, 4, Len(b))
  <2>1. Len(b) = 3 + Len(m.data) /\ Len(b) \in Int /\ 4 \in Int
    BY <1>2, <1>5, <1>10
  <2>2. \A i \in 4..Len(b) : b[i] \in Bytes
    BY <1>10, <2>1, ElementOfSeq
  <2>3. /\ d \in Seq(Bytes)
        /\ Len(d) = IF 4 <= Len(b) THEN Len(b) - 4 + 1 ELSE 0
        /\ \A i \in 1..Len(b) - 4 + 1 : d[i] = b[4 + i - 1]
    BY <2>1, <2>2, SubSeqProperties
  <2> HIDE DEF d
  <2>4. Len(d) = Len(m.data)
    BY <1>2, <2>1, <2>3
  <2>5. ASSUME NEW i \in 1..Len(d) PROVE d[i] = m.data[i]
    <3>1. /\ i \in 1..Len(b) - 4 + 1 /\ 4 + i - 1 = i + 3 /\ i + 3 \in 1..Len(a) /\ i + 3 # 1
          /\ ~(i + 3 <= 3) /\ i + 3 - 3 = i /\ i + 3 \in 1..3 + Len(m.data)
      BY <1>2, <1>5, <2>1, <2>4
    <3>2. d[i] = b[i + 3]
      BY <2>3, <3>1
    <3>3. b[i + 3] = a[i + 3]
      BY <1>10, <3>1
    <3>4. a[i + 3] = m.data[i + 3 - 3]
      BY <1>5, <3>1
    <3>5. QED
      BY <3>1, <3>2, <3>3, <3>4
  <2>6. d = m.data
    BY <1>2, <2>3, <2>4, <2>5, SeqEqual
  <2>7. QED
    BY <2>6 DEF d, MSG_HDRSZ
<1>15. msgOf(b) = m
  BY <1>1, <1>13, <1>14, WordFields DEF msgOf
<1>16. Len(b) = MSG_HDRSZ + Len(m.data) /\ Len(b) \in Nat /\ Len(b) <= MSG_HDRSZ + MSG_MAXLEN
  <2>1. Len(b) = 3 + Len(m.data)
    BY <1>5, <1>10
  <2>2. QED
    BY <1>1, <1>2, <2>1, MsgAssumption DEF MSG_HDRSZ
<1>17. QED
  BY <1>2, <1>6, <1>10, <1>12, <1>13, <1>15, <1>16

(***************************************************************************)
(* The reader stays inside its buffer.                                     *)
(***************************************************************************)
Full == MSG_HDRSZ + MSG_MAXLEN

InBuffer ==
  {r \in Reader : Len(r.bytes) <= Full /\ (r.res = "frame" => Len(r.bytes) >= MSG_HDRSZ)}

(* A byte more.                                                             *)
LEMMA ReadByteInBuffer ==
  ASSUME NEW r \in InBuffer, NEW c \in Bytes
  PROVE  readByte(r, c) \in InBuffer
<1>1. /\ r.state \in {"DESYN", "FRAME"} /\ r.escfl \in BOOLEAN /\ r.bytes \in Seq(Bytes)
      /\ r.res \in {"more", "ENXIO", "frame"} /\ Len(r.bytes) <= Full
      /\ r = [state |-> r.state, escfl |-> r.escfl, bytes |-> r.bytes, res |-> r.res]
  BY DEF InBuffer, Reader
<1>2. Len(r.bytes) \in Nat /\ Full \in Nat
  BY <1>1, LenProperties, MsgAssumption DEF Full, MSG_HDRSZ
<1>3. CASE r.res # "more"
  BY <1>3 DEF readByte
<1>4. CASE r.res = "more" /\ r.state = "DESYN"
  BY <1>1, <1>4 DEF readByte, InBuffer, Reader
<1>5. CASE r.res = "more" /\ r.state # "DESYN" /\ tooLong(r, c)
  BY <1>1, <1>5 DEF readByte, InBuffer, Reader
<1>6. CASE r.res = "more" /\ r.state # "DESYN" /\ ~tooLong(r, c)
  <2>1. CASE c = MSG_MARK
    BY <1>1, <1>6, <2>1 DEF readByte, InBuffer, Reader
  <2>2. CASE c # MSG_MARK /\ ~r.escfl /\ c = MSG_ESC
    BY <1>1, <1>6, <2>2 DEF readByte, InBuffer, Reader
  <2>3. CASE c # MSG_MARK /\ ~(~r.escfl /\ c = MSG_ESC)
    <3> DEFINE d == IF r.escfl THEN unescape(c) ELSE c
               b == Append(r.bytes, d)
    <3>1. readByte(r, c) = store(r, c)
      BY <1>6, <2>3 DEF readByte
    <3>2. d \in Bytes
      BY MsgAssumption DEF unescape, Bytes
    <3> HIDE DEF d
    <3>3. b \in Seq(Bytes) /\ Len(b) = Len(r.bytes) + 1
      BY <1>1, <3>2, AppendProperties
    <3> HIDE DEF b
    <3>4. Len(b) <= Full
      BY <1>1, <1>2, <1>6, <3>3 DEF tooLong, Full
    <3>5. store(r, c) = [state |-> IF received(r, b) THEN "DESYN" ELSE "FRAME",
                         escfl |-> FALSE, bytes |-> b,
                         res |-> IF ~received(r, b) THEN "more"
                                 ELSE IF msg_getcsum(b) = msg_csum(b) THEN "frame" ELSE "ENXIO"]
      BY DEF store, b, d
    <3>6. store(r, c) \in Reader
      BY <3>3, <3>5 DEF Reader
    <3>7. store(r, c).bytes = b /\ (store(r, c).res = "frame" => received(r, b))
      BY <3>5
    <3>8. QED
      BY <3>1, <3>4, <3>6, <3>7 DEF InBuffer, received
  <2>4. QED
    BY <2>1, <2>2, <2>3
<1>7. QED
  BY <1>3, <1>4, <1>5, <1>6

(* The steps of the loop in msg_read over n bytes: they exist, and all of   *)
(* them stay inside the buffer.                                             *)
Scan(s, r, w, n) ==
  /\ s \in [0..n -> InBuffer] /\ s[0] = r
  /\ \A i \in 1..n : s[i] = readByte(s[i - 1], w[i])

(* What the loop leaves is the last of its steps.                           *)
LEMMA ScanExists ==
  ASSUME rx \in InBuffer, wire \in Seq(Bytes), NEW n \in 1..Len(wire)
  PROVE  \E s : Scan(s, rx, wire, n) /\ scanned(n) = s[n]
<1> DEFINE F == [i \in 1..n |-> [r \in InBuffer |-> readByte(r, wire[i])]]
           Eq(s) == s = [i \in 0..n |-> IF i = 0 THEN rx ELSE readByte(s[i - 1], wire[i])]
<1>1. n \in Nat
  BY LenProperties
<1>2. ASSUME NEW i \in 1..n PROVE wire[i] \in Bytes
  <2>1. Len(wire) \in Nat
    BY LenProperties
  <2>2. i \in 1..Len(wire)
    BY <2>1
  <2>3. QED
    BY <2>2, ElementOfSeq
<1>3. F \in [1..n -> [InBuffer -> InBuffer]]
  BY <1>2, ReadByteInBuffer
<1> HIDE DEF F
<1>4. PICK f : Computes(f, n, InBuffer, rx, F)
  BY <1>1, <1>3, Recursion
<1>5. ASSUME NEW i \in 1..n PROVE f[i] = readByte(f[i - 1], wire[i])
  <2>1. f[i - 1] \in InBuffer /\ f[i] = F[i][f[i - 1]]
    BY <1>1, <1>4, ComputesStep
  <2>2. QED
    BY <2>1 DEF F
<1>6. Eq(f)
  <2>1. ASSUME NEW i \in 0..n PROVE f[i] = IF i = 0 THEN rx ELSE readByte(f[i - 1], wire[i])
    BY <1>1, <1>4, <1>5 DEF Computes
  <2>2. QED
    BY <1>4, <2>1 DEF Computes
<1>7. PICK s : Eq(s) /\ scanned(n) = s[n]
  <2>1. Eq(CHOOSE s : Eq(s))
    BY <1>6
  <2>2. scanned(n) = (CHOOSE s : Eq(s))[n]
    BY DEF scanned
  <2>3. QED
    BY <2>1, <2>2
<1>8. s[0] = rx /\ \A i \in 1..n : s[i] = readByte(s[i - 1], wire[i])
  <2>1. \A i \in 0..n : s[i] = IF i = 0 THEN rx ELSE readByte(s[i - 1], wire[i])
    BY <1>7
  <2>2. QED
    BY <1>1, <2>1
<1> DEFINE P == {i \in 0..n : s[i] \in InBuffer}
<1>9. 0 \in P
  BY <1>1, <1>8
<1>10. ASSUME NEW i \in 1..n, i - 1 \in P PROVE i \in P
  <2>1. s[i] = readByte(s[i - 1], wire[i]) /\ s[i - 1] \in InBuffer
    BY <1>8, <1>10
  <2>2. QED
    BY <1>2, <2>1, ReadByteInBuffer
<1> HIDE DEF P
<1>11. 0..n \subseteq P
  BY <1>1, <1>9, <1>10, Induction
<1>12. s \in [0..n -> InBuffer]
  <2>1. \A i \in 0..n : s[i] \in InBuffer
    BY <1>11 DEF P
  <2>2. QED
    BY <1>7, <2>1
<1>13. Scan(s, rx, wire, n)
  BY <1>8, <1>12 DEF Scan
<1>14. QED
  BY <1>7, <1>13

(***************************************************************************)
(* Bytes of frames.  A tag says what a byte on the wire is: after k bytes  *)
(* of the reply m, the next one, its escape (e is FALSE and the byte needs *)
(* one), or what follows the escape; k = -1 is the mark in front.          *)
(***************************************************************************)
special(c) == c \in {MSG_MARK, MSG_ESC}
nextByte(t) == bytesOf(t.m)[t.k + 1]
tag(m, k, e) == [m |-> m, k |-> k, e |-> e]

Tags ==
  {t \in [m : Replies, k : Int, e : BOOLEAN] :
     /\ t.k \in -1..Len(bytesOf(t.m)) - 1
     /\ t.e => t.k >= 0 /\ special(nextByte(t))}

byteAt(t) ==
  IF t.k = -1 THEN MSG_MARK
  ELSE IF t.e THEN IF nextByte(t) = MSG_MARK THEN MSG_ESCMARK ELSE MSG_ESCESC
  ELSE IF special(nextByte(t)) THEN MSG_ESC ELSE nextByte(t)

(* Where the reader is after the byte; the frame may end there. *)
after(t) ==
  IF t.k >= 0 /\ ~t.e /\ special(nextByte(t)) THEN tag(t.m, t.k, TRUE) ELSE tag(t.m, t.k + 1, FALSE)
ends(t) == after(t).k = Len(bytesOf(t.m))

follows(t, u) == IF ends(t) THEN u.k = -1 ELSE u = after(t)

Tagged(w, t) ==
  /\ w \in Seq(Bytes) /\ t \in [1..Len(w) -> Tags]
  /\ \A i \in 1..Len(w) : w[i] = byteAt(t[i])
  /\ \A i \in 1..Len(w) - 1 : follows(t[i], t[i + 1])

(* The beginning of the frame of m, k bytes long without mark and escapes. *)
Begun(w, m, k) ==
  \E t : /\ Tagged(w, t) /\ Len(w) > 0 /\ t[1].k = -1
         /\ after(t[Len(w)]) = tag(m, k, FALSE)

(* The fields of a tag.                                                     *)
LEMMA TagFields ==
  ASSUME NEW t \in Tags
  PROVE  /\ t.m \in Replies /\ t.e \in BOOLEAN /\ t.k \in -1..Len(bytesOf(t.m)) - 1
         /\ t = tag(t.m, t.k, t.e)
         /\ t.e => t.k >= 0 /\ special(nextByte(t))
         /\ Len(bytesOf(t.m)) \in Nat
<1>1. t.m \in Replies
  BY DEF Tags
<1>2. Len(bytesOf(t.m)) \in Nat
  BY <1>1, ReplyBytes
<1>3. QED
  BY <1>2 DEF Tags, tag

(* The byte of a tag is a byte, and only the first byte of a frame is a     *)
(* mark.                                                                    *)
LEMMA ByteOfTag ==
  ASSUME NEW t \in Tags
  PROVE  byteAt(t) \in Bytes /\ (byteAt(t) = MSG_MARK <=> t.k = -1)
<1>1. CASE t.k = -1
  BY <1>1, MsgAssumption DEF byteAt, Bytes
<1>2. CASE t.k # -1
  <2>1. t.k + 1 \in 1..Len(bytesOf(t.m)) /\ bytesOf(t.m) \in Seq(Bytes)
    BY <1>2, TagFields, ReplyBytes
  <2>2. nextByte(t) \in Bytes
    BY <2>1, ElementOfSeq DEF nextByte
  <2>3. QED
    BY <1>2, <2>2, MsgAssumption DEF byteAt, special, Bytes
<1>3. QED
  BY <1>1, <1>2

(* One byte more on the wire.                                               *)
LEMMA TagOneMore ==
  ASSUME NEW w, NEW t, Tagged(w, t), Len(w) > 0, NEW u \in Tags, follows(t[Len(w)], u)
  PROVE  \E v : /\ Tagged(Append(w, byteAt(u)), v)
                /\ v[1] = t[1] /\ v[Len(w) + 1] = u /\ Len(Append(w, byteAt(u))) = Len(w) + 1
<1> DEFINE c == byteAt(u)
           x == Append(w, c)
           v == [i \in 1..Len(w) + 1 |-> IF i <= Len(w) THEN t[i] ELSE u]
<1>1. w \in Seq(Bytes) /\ Len(w) \in Nat /\ t \in [1..Len(w) -> Tags] /\ c \in Bytes
  BY LenProperties, ByteOfTag DEF Tagged
<1>2. /\ x \in Seq(Bytes) /\ Len(x) = Len(w) + 1
      /\ \A i \in 1..Len(w) : x[i] = w[i]
      /\ x[Len(w) + 1] = c
  BY <1>1, AppendProperties
<1> HIDE DEF x
<1>3. v \in [1..Len(x) -> Tags]
  BY <1>1, <1>2
<1>4. (\A i \in 1..Len(w) : v[i] = t[i]) /\ v[Len(w) + 1] = u
  BY <1>1
<1> HIDE DEF v
<1>5. \A i \in 1..Len(x) : x[i] = byteAt(v[i])
  <2> SUFFICES ASSUME NEW i \in 1..Len(x) PROVE x[i] = byteAt(v[i])
    OBVIOUS
  <2>1. CASE i \in 1..Len(w)
    BY <1>2, <1>4, <2>1 DEF Tagged
  <2>2. CASE i = Len(w) + 1
    BY <1>2, <1>4, <2>2
  <2>3. QED
    BY <1>1, <1>2, <2>1, <2>2
<1>6. \A i \in 1..Len(x) - 1 : follows(v[i], v[i + 1])
  <2> SUFFICES ASSUME NEW i \in 1..Len(x) - 1 PROVE follows(v[i], v[i + 1])
    OBVIOUS
  <2>1. CASE i \in 1..Len(w) - 1
    <3>1. i \in 1..Len(w) /\ i + 1 \in 1..Len(w)
      BY <1>1, <2>1
    <3>2. QED
      BY <1>4, <2>1, <3>1 DEF Tagged
  <2>2. CASE i = Len(w)
    BY <1>1, <1>4, <2>2
  <2>3. QED
    BY <1>1, <1>2, <2>1, <2>2
<1>7. Tagged(x, v)
  BY <1>2, <1>3, <1>5, <1>6 DEF Tagged
<1>8. v[1] = t[1]
  BY <1>1, <1>4
<1>9. QED
  BY <1>2, <1>4, <1>7, <1>8 DEF x

(* Two bytes appended one after the other.                                  *)
LEMMA AppendTwo ==
  ASSUME NEW w \in Seq(Bytes), NEW a \in Bytes, NEW d \in Bytes
  PROVE  w \o <<a, d>> = Append(Append(w, a), d)
<1> DEFINE x == <<a>>
           y == <<d>>
<1>1. x \in Seq(Bytes) /\ y \in Seq(Bytes)
  OBVIOUS
<1>2. <<a, d>> = x \o y
  <2> DEFINE z == <<a, d>>
             c == x \o y
  <2>1. z \in Seq(Bytes) /\ Len(z) = 2 /\ z[1] = a /\ z[2] = d
    OBVIOUS
  <2>2. Len(x) = 1 /\ Len(y) = 1 /\ x[1] = a /\ y[1] = d
    OBVIOUS
  <2> HIDE DEF x, y, z
  <2>3. /\ c \in Seq(Bytes) /\ Len(c) = Len(x) + Len(y)
        /\ \A i \in 1..Len(x) + Len(y) : c[i] = IF i <= Len(x) THEN x[i] ELSE y[i - Len(x)]
    BY <1>1, ConcatProperties
  <2> HIDE DEF c
  <2>4. Len(c) = 2 /\ c[1] = a /\ c[2] = d
    BY <2>2, <2>3
  <2>5. \A i \in 1..Len(z) : z[i] = c[i]
    BY <2>1, <2>4
  <2>6. z = c
    BY <2>1, <2>3, <2>4, <2>5, SeqEqual
  <2>7. QED
    BY <2>6 DEF z, c
<1>3. Append(w, a) = w \o x /\ Append(w, a) \in Seq(Bytes)
  BY AppendIsConcat, AppendProperties
<1>4. Append(Append(w, a), d) = Append(w, a) \o y
  BY <1>3, AppendIsConcat
<1> HIDE DEF x, y
<1>5. w \o (x \o y) = (w \o x) \o y
  BY <1>1, ConcatAssociative
<1>6. QED
  BY <1>2, <1>3, <1>4, <1>5

(* msg_write puts one byte of the message on the wire, escaped if need be.  *)
LEMMA BegunOneMore ==
  ASSUME NEW m \in Replies, NEW k \in 1..Len(bytesOf(m)), NEW w, Begun(w, m, k - 1)
  PROVE  Begun(w \o escape(bytesOf(m)[k]), m, k)
<1> DEFINE b == bytesOf(m)
           c == b[k]
           u == tag(m, k - 1, FALSE)
           u2 == tag(m, k - 1, TRUE)
<1>1. b \in Seq(Bytes) /\ Len(b) \in Nat
  BY ReplyBytes
<1>2. PICK t : Tagged(w, t) /\ Len(w) > 0 /\ t[1].k = -1 /\ after(t[Len(w)]) = u
  BY DEF Begun
<1>3. w \in Seq(Bytes) /\ Len(w) \in Nat /\ t[Len(w)] \in Tags
  BY <1>2, LenProperties DEF Tagged
<1>4. t[Len(w)].m = m
  BY <1>2 DEF after, tag
<1>5. u.m = m /\ u.k = k - 1 /\ ~u.e /\ nextByte(u) = c
  BY <1>1 DEF tag, nextByte
<1>6. u \in Tags
  BY <1>1, <1>5 DEF Tags, tag
<1>0. k - 1 # -1 /\ k - 1 >= 0 /\ k - 1 # Len(b) /\ (k - 1) + 1 = k
  BY <1>1
<1> HIDE DEF u
<1>7. follows(t[Len(w)], u)
  <2>1. ~ends(t[Len(w)])
    BY <1>0, <1>2, <1>4, <1>5 DEF ends
  <2>2. QED
    BY <1>2, <2>1 DEF follows
<1>8. PICK v : /\ Tagged(Append(w, byteAt(u)), v)
               /\ v[1] = t[1] /\ v[Len(w) + 1] = u /\ Len(Append(w, byteAt(u))) = Len(w) + 1
  BY <1>2, <1>6, <1>7, TagOneMore
<1>9. c \in Bytes
  BY <1>1, ElementOfSeq
<1> HIDE DEF c
<1>10. CASE ~special(c)
  <2>1. byteAt(u) = c /\ escape(c) = <<c>>
    BY <1>0, <1>5, <1>10 DEF byteAt, special, escape
  <2>2. w \o escape(c) = Append(w, byteAt(u))
    BY <1>3, <1>9, <2>1, AppendIsConcat
  <2>3. after(u) = tag(m, k, FALSE)
    BY <1>0, <1>5, <1>10 DEF after, tag
  <2> DEFINE x == Append(w, byteAt(u))
  <2>0. Tagged(x, v) /\ v[1] = t[1] /\ v[Len(w) + 1] = u /\ Len(x) = Len(w) + 1
    BY <1>8
  <2> HIDE DEF x
  <2>4. /\ Tagged(x, v) /\ Len(x) > 0 /\ v[1].k = -1 /\ after(v[Len(x)]) = tag(m, k, FALSE)
    <3>1. Len(x) > 0
      BY <1>3, <2>0
    <3>2. v[1].k = -1
      BY <1>2, <2>0
    <3>3. after(v[Len(x)]) = tag(m, k, FALSE)
      BY <2>0, <2>3
    <3>4. QED
      BY <2>0, <3>1, <3>2, <3>3
  <2>5. Begun(x, m, k)
    BY <2>4 DEF Begun
  <2>6. QED
    BY <2>2, <2>5 DEF x, c
<1>11. CASE special(c)
  <2> DEFINE w1 == Append(w, byteAt(u))
             d == IF c = MSG_MARK THEN MSG_ESCMARK ELSE MSG_ESCESC
  <2>1. byteAt(u) = MSG_ESC /\ escape(c) = <<MSG_ESC, d>> /\ MSG_ESC \in Bytes /\ d \in Bytes
    BY <1>0, <1>5, <1>11, MsgAssumption DEF byteAt, special, escape, Bytes
  <2>2. u2.m = m /\ u2.k = k - 1 /\ u2.e /\ nextByte(u2) = c
    BY <1>1 DEF tag, nextByte, c
  <2>3. u2 \in Tags /\ byteAt(u2) = d
    BY <1>0, <1>1, <1>11, <2>2 DEF Tags, tag, byteAt
  <2> HIDE DEF d
  <2>4. after(u) = u2 /\ after(u2) = tag(m, k, FALSE)
    BY <1>0, <1>5, <1>11, <2>2 DEF after, tag
  <2>5. follows(u, u2)
    <3>1. ~ends(u)
      BY <1>0, <1>5, <2>2, <2>4 DEF ends
    <3>2. QED
      BY <2>4, <3>1 DEF follows
  <2>6. w1 \in Seq(Bytes) /\ Len(w1) = Len(w) + 1 /\ Tagged(w1, v) /\ v[Len(w1)] = u
    BY <1>3, <1>8, <2>1, AppendProperties
  <2> HIDE DEF w1
  <2>7. Len(w1) > 0 /\ follows(v[Len(w1)], u2)
    <3>1. Len(w1) > 0
      BY <1>3, <2>6
    <3>2. v[Len(w1)] = u
      BY <2>6
    <3>3. QED
      BY <2>5, <3>1, <3>2
  <2>8. PICK x : /\ Tagged(Append(w1, byteAt(u2)), x)
                 /\ x[1] = v[1] /\ x[Len(w1) + 1] = u2
                 /\ Len(Append(w1, byteAt(u2))) = Len(w1) + 1
    BY <2>3, <2>6, <2>7, TagOneMore
  <2>9. w \o escape(c) = Append(w1, byteAt(u2))
    <3>1. w \o <<MSG_ESC, d>> = Append(Append(w, MSG_ESC), d)
      BY <1>3, <2>1, AppendTwo
    <3>2. QED
      BY <2>1, <2>3, <3>1 DEF w1
  <2>10. QED
    <3>1. Len(w1) + 1 > 0
      BY <1>3, <2>6
    <3>2. QED
      BY <1>2, <1>8, <2>4, <2>6, <2>8, <2>9, <3>1 DEF Begun, c
<1>12. QED
  BY <1>10, <1>11

(* Frames that follow each other: a whole one begins with its mark, and the *)
(* last one on the wire is there to its end.                                *)
Framed(w) == \E t : Tagged(w, t) /\ (Len(w) > 0 => ends(t[Len(w)]))

(* Only the first byte may be a mark. *)
MarkedOnce(w) == \A j \in 2..Len(w) : w[j] # MSG_MARK

(* Escaped bytes are no marks.                                              *)
LEMMA EscapedOnce ==
  ASSUME NEW w \in Seq(Bytes), MarkedOnce(w), Len(w) > 0, NEW c \in Bytes
  PROVE  MarkedOnce(w \o escape(c))
<1> DEFINE e == escape(c)
           z == w \o e
<1>1. e \in Seq(Bytes) /\ Len(e) \in Nat /\ \A i \in 1..Len(e) : e[i] # MSG_MARK
  <2>1. CASE c = MSG_MARK
    <3>1. e = <<MSG_ESC, MSG_ESCMARK>>
      BY <2>1 DEF escape
    <3> HIDE DEF e
    <3>2. QED
      BY <3>1, MsgAssumption DEF Bytes
  <2>2. CASE c # MSG_MARK /\ c = MSG_ESC
    <3>1. e = <<MSG_ESC, MSG_ESCESC>>
      BY <2>2 DEF escape
    <3> HIDE DEF e
    <3>2. QED
      BY <3>1, MsgAssumption DEF Bytes
  <2>3. CASE c # MSG_MARK /\ c # MSG_ESC
    <3>1. e = <<c>>
      BY <2>3 DEF escape
    <3> HIDE DEF e
    <3>2. QED
      BY <2>3, <3>1
  <2>4. QED
    BY <2>1, <2>2, <2>3
<1> HIDE DEF e
<1>2. /\ Len(w) \in Nat /\ Len(z) = Len(w) + Len(e)
      /\ \A i \in 1..Len(w) + Len(e) : z[i] = IF i <= Len(w) THEN w[i] ELSE e[i - Len(w)]
  BY <1>1, ConcatProperties, LenProperties
<1> HIDE DEF z
<1>3. ASSUME NEW j \in 2..Len(z) PROVE z[j] # MSG_MARK
  <2>1. j \in 1..Len(w) + Len(e)
    BY <1>1, <1>2
  <2>2. CASE j <= Len(w)
    BY <1>2, <2>1, <2>2 DEF MarkedOnce
  <2>3. CASE j > Len(w)
    <3>1. j - Len(w) \in 1..Len(e) /\ ~(j <= Len(w))
      BY <1>1, <1>2, <2>1, <2>3
    <3>2. z[j] = e[j - Len(w)]
      BY <1>2, <2>1, <3>1
    <3>3. QED
      BY <1>1, <3>1, <3>2
  <2>4. QED
    BY <1>2, <2>2, <2>3
<1>4. QED
  BY <1>3 DEF MarkedOnce, z, e

(* What msg_write puts on the wire is a frame.                              *)
LEMMA FrameIsFramed ==
  ASSUME NEW m \in Replies
  PROVE  \E t : /\ Tagged(frame(m), t) /\ Len(frame(m)) > 0 /\ t[1].k = -1
                /\ ends(t[Len(frame(m))]) /\ MarkedOnce(frame(m))
<1> DEFINE b == bytesOf(m)
           F == [i \in 1..Len(b) |-> [w \in Seq(Bytes) |-> w \o escape(b[i])]]
           Eq(f) == f = [i \in 0..Len(b) |-> IF i = 0 THEN <<MSG_MARK>> ELSE f[i - 1] \o escape(b[i])]
<1>1. b \in Seq(Bytes) /\ Len(b) \in Nat /\ Len(b) > 0
  <2>1. /\ b \in Seq(Bytes) /\ Len(b) \in Nat /\ Len(b) = MSG_HDRSZ + Len(m.data) /\ Len(m.data) \in Nat
    BY ReplyBytes
  <2> HIDE DEF b
  <2>2. QED
    BY <2>1 DEF MSG_HDRSZ
<1>2. <<MSG_MARK>> \in Seq(Bytes)
  BY MsgAssumption DEF Bytes
<1>3. F \in [1..Len(b) -> [Seq(Bytes) -> Seq(Bytes)]]
  <2>1. ASSUME NEW i \in 1..Len(b) PROVE escape(b[i]) \in Seq(Bytes)
    <3>1. b[i] \in Bytes
      BY <1>1, ElementOfSeq
    <3> HIDE DEF b
    <3>2. <<b[i]>> \in Seq(Bytes) /\ <<MSG_ESC, MSG_ESCMARK>> \in Seq(Bytes)
          /\ <<MSG_ESC, MSG_ESCESC>> \in Seq(Bytes)
      BY <3>1, MsgAssumption DEF Bytes
    <3>3. QED
      BY <3>2 DEF escape
  <2> HIDE DEF b
  <2>2. ASSUME NEW i \in 1..Len(b), NEW w \in Seq(Bytes) PROVE w \o escape(b[i]) \in Seq(Bytes)
    BY <2>1, ConcatProperties
  <2>3. QED
    BY <2>2
<1> HIDE DEF b, F
<1>4. PICK g : Computes(g, Len(b), Seq(Bytes), <<MSG_MARK>>, F)
  BY <1>1, <1>2, <1>3, Recursion
<1>5. ASSUME NEW i \in 1..Len(b) PROVE g[i] = g[i - 1] \o escape(b[i])
  <2>1. g[i - 1] \in Seq(Bytes) /\ g[i] = F[i][g[i - 1]]
    BY <1>1, <1>4, ComputesStep
  <2>2. QED
    BY <2>1 DEF F
<1>6. Eq(g)
  <2>1. ASSUME NEW i \in 0..Len(b)
        PROVE  g[i] = IF i = 0 THEN <<MSG_MARK>> ELSE g[i - 1] \o escape(b[i])
    <3>1. CASE i = 0
      BY <1>4, <3>1 DEF Computes
    <3>2. CASE i # 0
      <4>1. i \in 1..Len(b)
        BY <1>1, <3>2
      <4>2. g[i] = g[i - 1] \o escape(b[i])
        BY <1>5, <4>1, Zenon
      <4>3. QED
        BY <3>2, <4>2
    <3>3. QED
      BY <3>1, <3>2
  <2>2. QED
    BY <1>4, <2>1, Zenon DEF Computes
<1>7. PICK f : Eq(f) /\ frame(m) = f[Len(b)]
  <2>1. Eq(CHOOSE f : Eq(f))
    BY <1>6, Zenon
  <2>2. frame(m) = (CHOOSE f : Eq(f))[Len(b)]
    BY Zenon DEF frame, b
  <2>3. QED
    BY <2>1, <2>2, Zenon
<1>8. f[0] = <<MSG_MARK>>
  <2>1. 0 \in 0..Len(b)
    BY <1>1
  <2>2. QED
    BY <1>7, <2>1
<1> DEFINE P == {i \in 0..Len(b) : Begun(f[i], m, i) /\ MarkedOnce(f[i])}
<1>9. 0 \in P
  <2> DEFINE w == <<MSG_MARK>>
             u == tag(m, -1, FALSE)
             t == [i \in 1..1 |-> u]
  <2>1. u.m = m /\ u.k = -1 /\ ~u.e /\ u \in Tags
    BY <1>1 DEF tag, Tags, b
  <2>2. byteAt(u) = MSG_MARK /\ after(u) = tag(m, 0, FALSE)
    BY <2>1 DEF byteAt, after, tag
  <2> HIDE DEF u
  <2>3. Len(w) = 1 /\ w[1] = MSG_MARK
    OBVIOUS
  <2>4. t \in [1..1 -> Tags] /\ t[1] = u
    BY <2>1
  <2> HIDE DEF w, t
  <2>5. Tagged(w, t)
    BY <1>2, <2>2, <2>3, <2>4 DEF Tagged, w
  <2>6. Begun(w, m, 0)
    <3>1. Len(w) > 0 /\ t[1].k = -1 /\ t[Len(w)] = u
      BY <2>1, <2>3, <2>4
    <3>2. QED
      BY <2>2, <2>5, <3>1 DEF Begun
  <2>7. MarkedOnce(w)
    BY <2>3 DEF MarkedOnce
  <2>8. QED
    BY <1>1, <1>8, <2>6, <2>7 DEF w
<1>10. ASSUME NEW i \in 1..Len(b), i - 1 \in P PROVE i \in P
  <2>1. Begun(f[i - 1], m, i - 1) /\ MarkedOnce(f[i - 1])
    BY <1>10
  <2>2. Begun(f[i - 1] \o escape(b[i]), m, i)
    BY <2>1, BegunOneMore DEF b
  <2>3. f[i] = f[i - 1] \o escape(b[i]) /\ i \in 0..Len(b)
    <3>1. i \in 0..Len(b) /\ i # 0
      BY <1>1
    <3>2. f[i] = [j \in 0..Len(b) |-> IF j = 0 THEN <<MSG_MARK>> ELSE f[j - 1] \o escape(b[j])][i]
      BY <1>7
    <3>3. QED
      BY <3>1, <3>2
  <2>4. Begun(f[i], m, i)
    BY <2>2, <2>3
  <2>5. f[i - 1] \in Seq(Bytes) /\ Len(f[i - 1]) > 0 /\ b[i] \in Bytes
    BY <1>1, <2>1, ElementOfSeq DEF Begun, Tagged
  <2>6. MarkedOnce(f[i])
    BY <2>1, <2>3, <2>5, EscapedOnce
  <2>7. QED
    BY <2>3, <2>4, <2>6
<1> HIDE DEF P
<1>11. 0..Len(b) \subseteq P
  BY <1>1, <1>9, <1>10, Induction
<1>12. Len(b) \in P
  BY <1>1, <1>11
<1>13. Begun(frame(m), m, Len(b)) /\ MarkedOnce(frame(m))
  BY <1>7, <1>12 DEF P
<1>14. PICK t : /\ Tagged(frame(m), t) /\ Len(frame(m)) > 0 /\ t[1].k = -1
                /\ after(t[Len(frame(m))]) = tag(m, Len(b), FALSE)
  BY <1>13 DEF Begun
<1>15. ends(t[Len(frame(m))])
  <2> DEFINE u == t[Len(frame(m))]
  <2>1. after(u).k = Len(b) /\ after(u).m = m /\ after(u).m = u.m
    BY <1>14 DEF tag, after
  <2>2. QED
    BY <2>1 DEF ends, b
<1>16. QED
  BY <1>13, <1>14, <1>15

(* Two pieces of wire after each other.                                     *)
LEMMA JoinTags ==
  ASSUME NEW w, NEW t, Tagged(w, t), Len(w) > 0 => ends(t[Len(w)]),
         NEW v, NEW u, Tagged(v, u), Len(v) > 0, u[1].k = -1, ends(u[Len(v)])
  PROVE  \E x : /\ Tagged(w \o v, x) /\ ends(x[Len(w \o v)]) /\ Len(w \o v) > 0
                /\ Len(w) > 0 => x[1] = t[1]
<1> DEFINE z == w \o v
           x == [i \in 1..Len(w) + Len(v) |-> IF i <= Len(w) THEN t[i] ELSE u[i - Len(w)]]
<1>1. /\ w \in Seq(Bytes) /\ v \in Seq(Bytes) /\ Len(w) \in Nat /\ Len(v) \in Nat
      /\ t \in [1..Len(w) -> Tags] /\ u \in [1..Len(v) -> Tags]
  BY LenProperties DEF Tagged
<1>2. /\ z \in Seq(Bytes) /\ Len(z) = Len(w) + Len(v)
      /\ \A i \in 1..Len(w) + Len(v) : z[i] = IF i <= Len(w) THEN w[i] ELSE v[i - Len(w)]
  BY <1>1, ConcatProperties
<1> HIDE DEF z
<1>0. Len(z) = Len(w) + Len(v)
  BY <1>2
<1>3. x \in [1..Len(z) -> Tags]
  BY <1>1, <1>2
<1>4. ASSUME NEW i \in 1..Len(w) PROVE i \in 1..Len(w) + Len(v) /\ i <= Len(w) /\ x[i] = t[i] /\ z[i] = w[i]
  BY <1>1, <1>2
<1>5. ASSUME NEW i \in 1..Len(v)
      PROVE  x[Len(w) + i] = u[i] /\ z[Len(w) + i] = v[i]
  <2>1. Len(w) + i \in 1..Len(w) + Len(v) /\ ~(Len(w) + i <= Len(w)) /\ (Len(w) + i) - Len(w) = i
    BY <1>1
  <2>2. QED
    BY <1>2, <2>1
<1> HIDE DEF x
<1>6. \A i \in 1..Len(z) : z[i] = byteAt(x[i])
  <2> SUFFICES ASSUME NEW i \in 1..Len(z) PROVE z[i] = byteAt(x[i])
    OBVIOUS
  <2>1. CASE i \in 1..Len(w)
    BY <1>4, <2>1 DEF Tagged
  <2>2. CASE i \notin 1..Len(w)
    <3>1. i - Len(w) \in 1..Len(v) /\ Len(w) + (i - Len(w)) = i
      BY <1>1, <1>2, <2>2
    <3>2. x[i] = u[i - Len(w)] /\ z[i] = v[i - Len(w)]
      BY <1>5, <3>1
    <3>3. QED
      BY <3>1, <3>2 DEF Tagged
  <2>3. QED
    BY <2>1, <2>2
<1>7. \A i \in 1..Len(z) - 1 : follows(x[i], x[i + 1])
  <2> SUFFICES ASSUME NEW i \in 1..Len(z) - 1 PROVE follows(x[i], x[i + 1])
    OBVIOUS
  <2>1. CASE i \in 1..Len(w) - 1
    <3>1. i \in 1..Len(w) /\ i + 1 \in 1..Len(w)
      BY <1>1, <2>1
    <3>2. QED
      BY <1>4, <2>1, <3>1 DEF Tagged
  <2>2. CASE i = Len(w)
    <3>1. Len(w) > 0 /\ i \in 1..Len(w) /\ 1 \in 1..Len(v)
      BY <1>1, <2>2
    <3>2. x[i] = t[Len(w)] /\ x[i + 1] = u[1]
      BY <1>4, <1>5, <2>2, <3>1
    <3>3. QED
      BY <3>1, <3>2 DEF follows
  <2>3. CASE i \notin 1..Len(w)
    <3> DEFINE j == i - Len(w)
    <3>1. j \in 1..Len(v) - 1 /\ j \in 1..Len(v) /\ j + 1 \in 1..Len(v) /\ Len(w) + j = i /\ Len(w) + (j + 1) = i + 1
      BY <1>0, <1>1, <2>3
    <3> HIDE DEF j
    <3>2. x[i] = u[j] /\ x[i + 1] = u[j + 1]
      BY <1>5, <3>1
    <3>3. QED
      BY <3>1, <3>2 DEF Tagged
  <2>4. QED
    BY <1>1, <2>1, <2>2, <2>3
<1>8. Tagged(z, x)
  BY <1>2, <1>3, <1>6, <1>7 DEF Tagged
<1>9. Len(z) > 0 /\ x[Len(z)] = u[Len(v)]
  <2>1. Len(v) \in 1..Len(v) /\ Len(z) > 0
    BY <1>0, <1>1
  <2>2. x[Len(w) + Len(v)] = u[Len(v)]
    BY <1>5, <2>1
  <2>3. QED
    BY <1>0, <2>1, <2>2
<1>10. Len(w) > 0 => x[1] = t[1]
  <2>1. Len(w) > 0 => 1 \in 1..Len(w)
    BY <1>1
  <2>2. QED
    BY <1>4, <2>1
<1>11. QED
  BY <1>8, <1>9, <1>10 DEF z

(* The wire without its first n bytes.                                      *)
LEMMA DropTags ==
  ASSUME NEW w, NEW t, Tagged(w, t), Len(w) > 0 => ends(t[Len(w)]), NEW n \in 1..Len(w)
  PROVE  LET z == SubSeq(w, n + 1, Len(w))
         IN \E x : /\ Tagged(z, x) /\ (Len(z) > 0 => ends(x[Len(z)]))
                   /\ Len(z) = Len(w) - n
                   /\ n < Len(w) => x[1] = t[n + 1]
<1> DEFINE z == SubSeq(w, n + 1, Len(w))
           x == [i \in 1..Len(w) - n |-> t[n + i]]
<1>1. w \in Seq(Bytes) /\ Len(w) \in Nat /\ t \in [1..Len(w) -> Tags] /\ n + 1 \in Int
  BY LenProperties DEF Tagged
<1>2. \A i \in n + 1..Len(w) : w[i] \in Bytes
  BY <1>1, ElementOfSeq
<1>3. /\ z \in Seq(Bytes) /\ Len(z) = IF n + 1 <= Len(w) THEN Len(w) - (n + 1) + 1 ELSE 0
      /\ \A i \in 1..Len(w) - (n + 1) + 1 : z[i] = w[(n + 1) + i - 1]
  BY <1>1, <1>2, SubSeqProperties
<1> HIDE DEF z
<1>4. Len(z) = Len(w) - n
  BY <1>1, <1>3
<1>5. ASSUME NEW i \in 1..Len(z) PROVE z[i] = w[n + i] /\ x[i] = t[n + i] /\ n + i \in 1..Len(w)
  <2>1. i \in 1..Len(w) - (n + 1) + 1 /\ (n + 1) + i - 1 = n + i /\ i \in 1..Len(w) - n /\ n + i \in 1..Len(w)
    BY <1>1, <1>4
  <2>2. QED
    BY <1>3, <2>1
<1>6. x \in [1..Len(z) -> Tags]
  BY <1>1, <1>4
<1> HIDE DEF x
<1>7. \A i \in 1..Len(z) : z[i] = byteAt(x[i])
  BY <1>5 DEF Tagged
<1>8. \A i \in 1..Len(z) - 1 : follows(x[i], x[i + 1])
  <2> SUFFICES ASSUME NEW i \in 1..Len(z) - 1 PROVE follows(x[i], x[i + 1])
    OBVIOUS
  <2>1. i \in 1..Len(z) /\ i + 1 \in 1..Len(z) /\ n + i \in 1..Len(w) - 1 /\ n + (i + 1) = (n + i) + 1
    BY <1>1, <1>4
  <2>2. x[i] = t[n + i] /\ x[i + 1] = t[(n + i) + 1]
    BY <1>5, <2>1
  <2>3. QED
    BY <2>1, <2>2 DEF Tagged
<1>9. Tagged(z, x)
  BY <1>3, <1>6, <1>7, <1>8 DEF Tagged
<1>10. Len(z) > 0 => x[Len(z)] = t[Len(w)] /\ Len(w) > 0
  <2>1. Len(z) > 0 => Len(z) \in 1..Len(z) /\ n + Len(z) = Len(w)
    BY <1>1, <1>4
  <2>2. QED
    <3>1. Len(w) > 0
      BY <1>1
    <3>2. Len(z) > 0 => x[Len(z)] = t[n + Len(z)]
      BY <1>5, <2>1
    <3>3. QED
      BY <2>1, <3>1, <3>2
<1>11. n < Len(w) => x[1] = t[n + 1]
  <2>1. n < Len(w) => 1 \in 1..Len(z)
    BY <1>1, <1>4
  <2>2. QED
    BY <1>5, <2>1
<1>12. QED
  BY <1>4, <1>9, <1>10, <1>11 DEF z

(***************************************************************************)
(* The reader in step with the wire.                                       *)
(***************************************************************************)
(* Before byte i of w the reader looks for a mark, or is inside a frame     *)
(* where the tag says, or has a whole reply.                                *)
InStep(r, w, t, i) ==
  \/ r.res = "more" /\ r.state = "DESYN" /\ ~r.escfl /\ r.bytes = <<>>
  \/ /\ r.res = "more" /\ r.state = "FRAME" /\ i <= Len(w)
     /\ t[i].k >= 0 /\ r.escfl = t[i].e
     /\ r.bytes = SubSeq(bytesOf(t[i].m), 1, t[i].k)
  \/ r.res = "frame" /\ \E m \in Replies : r.bytes = bytesOf(m)

(* A frame that does not end here goes on with the next byte.               *)
LEMMA NextTag ==
  ASSUME NEW w, NEW t, Tagged(w, t), Len(w) > 0 => ends(t[Len(w)]),
         NEW i \in 1..Len(w), ~ends(t[i])
  PROVE  i + 1 <= Len(w) /\ t[i + 1] = after(t[i])
<1>1. Len(w) \in Nat
  BY LenProperties DEF Tagged
<1>2. i # Len(w)
  BY <1>1
<1>3. i \in 1..Len(w) - 1
  BY <1>1, <1>2
<1>4. QED
  BY <1>1, <1>3 DEF Tagged, follows

(* A reply up to its byte k, and one more.                                  *)
LEMMA PrefixOneMore ==
  ASSUME NEW b \in Seq(Bytes), NEW k \in 0..Len(b) - 1
  PROVE  /\ Append(SubSeq(b, 1, k), b[k + 1]) = SubSeq(b, 1, k + 1)
         /\ SubSeq(b, 1, k) \in Seq(Bytes) /\ Len(SubSeq(b, 1, k)) = k
<1>1. Len(b) \in Nat
  BY LenProperties
<1>2. k + 1 \in 1..Len(b) /\ 1 \in 1..Len(b) /\ (k + 1) - 1 = k /\ k + 1 \in 1..Len(b) /\ k \in Nat
  BY <1>1
<1>3. SubSeq(b, 1, k + 1) = SubSeq(b, 1, (k + 1) - 1) \o <<b[k + 1]>>
  <2>1. k + 1 \in 1..Len(b)
    BY <1>2
  <2>2. QED
    BY <1>2, <2>1, SubSeqRecursiveSecond
<1>4. SubSeq(b, 1, k) \in Seq(Bytes) /\ Len(SubSeq(b, 1, k)) = k
  <2>1. \A j \in 1..k : b[j] \in Bytes
    BY <1>1, ElementOfSeq
  <2>2. /\ SubSeq(b, 1, k) \in Seq(Bytes)
        /\ Len(SubSeq(b, 1, k)) = IF 1 <= k THEN k - 1 + 1 ELSE 0
    BY <2>1, SubSeqProperties
  <2>3. QED
    BY <2>2
<1>5. b[k + 1] \in Bytes
  BY <1>2, ElementOfSeq
<1>6. Append(SubSeq(b, 1, k), b[k + 1]) = SubSeq(b, 1, k) \o <<b[k + 1]>>
  BY <1>4, <1>5, AppendIsConcat
<1>7. QED
  BY <1>2, <1>3, <1>4, <1>6

(* A reader inside a frame is in step when it is where the next tag says.   *)
LEMMA InFrame ==
  ASSUME NEW w, NEW t, NEW j, j <= Len(w), NEW m, NEW k, k >= 0, NEW e, t[j] = tag(m, k, e),
         NEW x, x.res = "more", x.state = "FRAME", x.escfl = e,
         x.bytes = SubSeq(bytesOf(m), 1, k)
  PROVE  InStep(x, w, t, j)
<1>1. t[j].m = m /\ t[j].k = k /\ t[j].e = e
  BY DEF tag
<1>2. QED
  BY <1>1 DEF InStep

(* Outside of a frame a reader waits for a mark, which begins one.          *)
LEMMA SyncInStep ==
  ASSUME NEW w, NEW t, Tagged(w, t), Len(w) > 0 => ends(t[Len(w)]), NEW i \in 1..Len(w),
         NEW r \in InBuffer, r.res = "more", r.state = "DESYN", ~r.escfl, r.bytes = <<>>
  PROVE  InStep(readByte(r, w[i]), w, t, i + 1)
<1> DEFINE u == t[i]
           b == bytesOf(u.m)
           x == readByte(r, w[i])
<1>1. u \in Tags /\ w[i] = byteAt(u)
  BY DEF Tagged
<1>2. r = [state |-> r.state, escfl |-> r.escfl, bytes |-> r.bytes, res |-> r.res]
  BY DEF InBuffer, Reader
<1>3. x = [state |-> IF w[i] = MSG_MARK THEN "FRAME" ELSE "DESYN",
           escfl |-> FALSE, bytes |-> <<>>, res |-> "more"]
  BY <1>2 DEF readByte, InBuffer, Reader
<1>4. CASE w[i] # MSG_MARK
  BY <1>3, <1>4 DEF InStep
<1>5. CASE w[i] = MSG_MARK
  <2> HIDE DEF u, x
  <2>a. byteAt(u) = MSG_MARK
    BY <1>1, <1>5
  <2>b. u.k = -1
    BY <1>1, <2>a, ByteOfTag
  <2>c. (u.e => u.k >= 0) /\ u.m \in Replies
    BY <1>1, TagFields
  <2>1. u.k = -1 /\ ~u.e /\ u.m \in Replies
    BY <2>b, <2>c
  <2>2. b \in Seq(Bytes) /\ Len(b) \in Nat /\ Len(b) > 0
    <3>1. b \in Seq(Bytes) /\ Len(b) \in Nat /\ Len(b) = MSG_HDRSZ + Len(u.m.data) /\ Len(u.m.data) \in Nat
      BY <2>1, ReplyBytes
    <3> HIDE DEF b
    <3>2. QED
      BY <3>1 DEF MSG_HDRSZ
  <2>3. after(u) = tag(u.m, 0, FALSE)
    BY <2>1 DEF after, tag
  <2>4. ~ends(u)
    BY <2>2, <2>3 DEF ends, tag
  <2>5. i + 1 <= Len(w) /\ t[i + 1] = tag(u.m, 0, FALSE)
    BY <2>3, <2>4, NextTag DEF u
  <2>6. SubSeq(b, 1, 0) = <<>>
    BY SubSeqEmpty
  <2>7. x.res = "more" /\ x.state = "FRAME" /\ x.escfl = FALSE /\ x.bytes = <<>>
    BY <1>3, <1>5
  <2>8. InStep(x, w, t, i + 1)
    <3>1. 0 >= 0
      OBVIOUS
    <3>2. QED
      BY <2>5, <2>6, <2>7, <3>1, InFrame
  <2>9. QED
    BY <2>8 DEF x
<1>6. QED
  BY <1>4, <1>5

(* Inside of a frame it reads the bytes of the reply, and knows its end.    *)
LEMMA FrameInStep ==
  ASSUME NEW w, NEW t, Tagged(w, t), Len(w) > 0 => ends(t[Len(w)]), NEW i \in 1..Len(w),
         NEW r \in InBuffer, r.res = "more", r.state = "FRAME",
         t[i].k >= 0, r.escfl = t[i].e, r.bytes = SubSeq(bytesOf(t[i].m), 1, t[i].k)
  PROVE  InStep(readByte(r, w[i]), w, t, i + 1)
<1> DEFINE u == t[i]
           m == u.m
           k == u.k
           b == bytesOf(m)
           c == w[i]
           d == b[k + 1]
<1>1. u \in Tags /\ c = byteAt(u)
  BY DEF Tagged
<1>2. /\ m \in Replies /\ u.e \in BOOLEAN /\ k \in 0..Len(b) - 1
      /\ u.e => special(d)
  BY <1>1, TagFields, SMTT(30) DEF nextByte
<1>3. /\ b \in Seq(Bytes) /\ Len(b) \in Nat /\ Len(b) = MSG_HDRSZ + Len(m.data)
      /\ Len(m.data) \in Nat /\ Len(b) <= Full
      /\ b[3] = word(m) /\ msg_getcsum(b) = msg_csum(b)
  BY <1>2, ReplyBytes DEF Full
<1>4. c # MSG_MARK
  BY <1>1, <1>2, ByteOfTag
<1>5. r = [state |-> "FRAME", escfl |-> u.e, bytes |-> r.bytes, res |-> "more"]
  BY DEF InBuffer, Reader
<1>6. /\ Append(r.bytes, d) = SubSeq(b, 1, k + 1)
      /\ r.bytes \in Seq(Bytes) /\ Len(r.bytes) = k
  BY <1>2, <1>3, PrefixOneMore
<1>7. nextByte(u) = d /\ byteAt(u) = (IF u.e THEN IF d = MSG_MARK THEN MSG_ESCMARK ELSE MSG_ESCESC
                                      ELSE IF special(d) THEN MSG_ESC ELSE d)
  <2>1. nextByte(u) = d
    BY DEF nextByte
  <2>2. u.k # -1
    BY <1>2
  <2>3. QED
    BY <2>1, <2>2 DEF byteAt
<1>8. after(u) = IF ~u.e /\ special(d) THEN tag(m, k, TRUE) ELSE tag(m, k + 1, FALSE)
  BY <1>2, <1>7 DEF after
<1> HIDE DEF d, b
<1>9. ~tooLong(r, c)
  BY <1>2, <1>3, <1>6 DEF tooLong, Full
<1>10. CASE ~u.e /\ c = MSG_ESC
  <2>1. special(d)
    BY <1>1, <1>7, <1>10 DEF special
  <2>2. after(u) = tag(m, k, TRUE)
    BY <1>8, <1>10, <2>1
  <2>3. ~ends(u)
    BY <1>2, <1>3, <2>2 DEF ends, tag, b
  <2>4. i + 1 <= Len(w) /\ t[i + 1] = tag(m, k, TRUE)
    BY <2>2, <2>3, NextTag
  <2>5. readByte(r, c) = [state |-> "FRAME", escfl |-> TRUE, bytes |-> r.bytes, res |-> "more"]
    BY <1>4, <1>5, <1>9, <1>10 DEF readByte
  <2> DEFINE x == readByte(r, c)
  <2> DEFINE y == r.bytes
  <2>0. x = [state |-> "FRAME", escfl |-> TRUE, bytes |-> y, res |-> "more"]
    BY <2>5
  <2> HIDE DEF x, y
  <2>a. x.res = "more" /\ x.state = "FRAME" /\ x.escfl = TRUE /\ x.bytes = y
    BY <2>0
  <2>b. y = SubSeq(bytesOf(m), 1, k)
    BY DEF y
  <2>6. x.res = "more" /\ x.state = "FRAME" /\ x.escfl = TRUE /\ x.bytes = SubSeq(bytesOf(m), 1, k)
    BY <2>a, <2>b
  <2>7. k >= 0
    BY <1>2
  <2>8. InStep(x, w, t, i + 1)
    BY <2>4, <2>6, <2>7, InFrame
  <2>9. QED
    BY <2>8 DEF x
<1>11. CASE ~(~u.e /\ c = MSG_ESC)
  <2> DEFINE y == SubSeq(b, 1, k + 1)
  <2>1. (IF u.e THEN unescape(c) ELSE c) = d
    <3>1. CASE u.e
      BY <1>1, <1>2, <1>7, <3>1, MsgAssumption DEF unescape, special
    <3>2. CASE ~u.e
      BY <1>1, <1>7, <1>11, <3>2
    <3>3. QED
      BY <3>1, <3>2
  <2>2. u.e \/ ~special(d)
    BY <1>1, <1>7, <1>11
  <2>3. after(u) = tag(m, k + 1, FALSE)
    BY <1>8, <2>2
  <2>4. readByte(r, c) = store(r, c)
    BY <1>4, <1>5, <1>9, <1>11 DEF readByte
  <2>5. Append(r.bytes, IF r.escfl THEN unescape(c) ELSE c) = y
    BY <1>5, <1>6, <2>1
  <2>6. store(r, c) = [state |-> IF received(r, y) THEN "DESYN" ELSE "FRAME",
                       escfl |-> FALSE, bytes |-> y,
                       res |-> IF ~received(r, y) THEN "more"
                               ELSE IF msg_getcsum(y) = msg_csum(y) THEN "frame" ELSE "ENXIO"]
    BY <2>5 DEF store
  <2>7. Len(y) = k + 1 /\ (k + 1 >= 3 => y[3] = b[3])
    <3>1. \A j \in 1..k + 1 : b[j] \in Bytes
      <4> SUFFICES ASSUME NEW j \in 1..k + 1 PROVE b[j] \in Bytes
        OBVIOUS
      <4>0. k \in 0..Len(b) - 1 /\ Len(b) \in Nat
        BY <1>2, <1>3
      <4> HIDE DEF k
      <4>1. j \in 1..Len(b)
        BY <4>0
      <4>2. QED
        BY <1>3, <4>1, ElementOfSeq
    <3>2. k + 1 \in Int /\ 1 \in Int
      BY <1>2
    <3>3. /\ Len(y) = IF 1 <= k + 1 THEN (k + 1) - 1 + 1 ELSE 0
          /\ \A j \in 1..(k + 1) - 1 + 1 : y[j] = b[1 + j - 1]
      BY <3>1, <3>2, SubSeqProperties
    <3> HIDE DEF y
    <3>4. k + 1 >= 3 => 3 \in 1..(k + 1) - 1 + 1
      BY <1>2
    <3>5. k + 1 >= 3 => y[3] = b[1 + 3 - 1]
      BY <3>3, <3>4
    <3>6. Len(y) = k + 1
      BY <1>2, <3>3
    <3>7. QED
      BY <3>5, <3>6
  <2>8. received(r, y) <=> k + 1 = Len(b)
    <3>1. msg_getlen(word(m)) = Len(m.data)
      BY <1>2, WordFields
    <3> HIDE DEF y
    <3>2. CASE k + 1 >= 3
      <4>1. msg_getlen(y[3]) = Len(m.data)
        BY <1>3, <2>7, <3>1, <3>2
      <4>2. QED
        BY <1>2, <1>3, <2>7, <3>2, <4>1 DEF received, MSG_HDRSZ
    <3>3. CASE ~(k + 1 >= 3)
      BY <1>2, <1>3, <2>7, <3>3 DEF received, MSG_HDRSZ
    <3>4. QED
      BY <3>2, <3>3
  <2>9. CASE k + 1 = Len(b)
    <3>1. y = b
      BY <1>3, <2>9, SubSeqFull
    <3>2. received(r, y) /\ msg_getcsum(y) = msg_csum(y)
      BY <1>3, <2>8, <2>9, <3>1
    <3> HIDE DEF y
    <3>3. store(r, c) = [state |-> "DESYN", escfl |-> FALSE, bytes |-> y, res |-> "frame"]
      BY <2>6, <3>2
    <3> DEFINE x == readByte(r, c)
    <3>4. x.res = "frame" /\ x.bytes = bytesOf(m)
      BY <2>4, <3>1, <3>3 DEF b
    <3> HIDE DEF x
    <3>5. InStep(x, w, t, i + 1)
      BY <1>2, <3>4 DEF InStep
    <3>6. QED
      BY <3>5 DEF x
  <2>10. CASE k + 1 # Len(b)
    <3>1. ~ends(u)
      BY <1>2, <1>3, <2>3, <2>10 DEF ends, tag, b
    <3>2. i + 1 <= Len(w) /\ t[i + 1] = tag(m, k + 1, FALSE)
      BY <2>3, <3>1, NextTag
    <3>3. readByte(r, c) = [state |-> "FRAME", escfl |-> FALSE, bytes |-> y, res |-> "more"]
      BY <2>4, <2>6, <2>8, <2>10
    <3> DEFINE x == readByte(r, c)
    <3>4. x.res = "more" /\ x.state = "FRAME" /\ x.escfl = FALSE
          /\ x.bytes = SubSeq(bytesOf(m), 1, k + 1) /\ k + 1 >= 0
      BY <1>2, <3>3 DEF b
    <3> HIDE DEF x
    <3>5. InStep(x, w, t, i + 1)
      BY <3>2, <3>4, InFrame
    <3>6. QED
      BY <3>5 DEF x
  <2>11. QED
    BY <2>9, <2>10
<1>12. QED
  BY <1>10, <1>11

(* Any byte.                                                                *)
LEMMA ReadByteInStep ==
  ASSUME NEW w, NEW t, Tagged(w, t), Len(w) > 0 => ends(t[Len(w)]), NEW i \in 1..Len(w),
         NEW r \in InBuffer, InStep(r, w, t, i)
  PROVE  InStep(readByte(r, w[i]), w, t, i + 1)
<1>1. CASE r.res = "more" /\ r.state = "DESYN" /\ ~r.escfl /\ r.bytes = <<>>
  BY <1>1, SyncInStep
<1>2. CASE /\ r.res = "more" /\ r.state = "FRAME" /\ i <= Len(w)
           /\ t[i].k >= 0 /\ r.escfl = t[i].e
           /\ r.bytes = SubSeq(bytesOf(t[i].m), 1, t[i].k)
  BY <1>2, FrameInStep
<1>3. CASE r.res = "frame" /\ \E m \in Replies : r.bytes = bytesOf(m)
  <2>1. readByte(r, w[i]) = r
    BY <1>3 DEF readByte
  <2>2. QED
    BY <1>3, <2>1 DEF InStep
<1>4. QED
  BY <1>1, <1>2, <1>3 DEF InStep

(* All the bytes that devs_read returned.                                   *)
LEMMA ScanInStep ==
  ASSUME NEW w, NEW r, NEW t, Tagged(w, t), Len(w) > 0 => ends(t[Len(w)]),
         NEW n \in 1..Len(w), NEW s, Scan(s, r, w, n), InStep(r, w, t, 1)
  PROVE  InStep(s[n], w, t, n + 1)
<1>1. Len(w) \in Nat /\ n \in Nat
  BY LenProperties DEF Tagged
<1> DEFINE P == {i \in 0..n : InStep(s[i], w, t, i + 1)}
<1>2. 0 \in P
  <2>1. s[0] = r /\ 0 + 1 = 1 /\ 0 \in 0..n
    BY <1>1 DEF Scan
  <2>2. QED
    BY <2>1
<1>3. ASSUME NEW i \in 1..n, i - 1 \in P PROVE i \in P
  <2>1. i \in 1..Len(w) /\ i \in 0..n /\ i - 1 \in 0..n /\ (i - 1) + 1 = i
    BY <1>1
  <2>2. s[i - 1] \in InBuffer /\ s[i] = readByte(s[i - 1], w[i])
    BY <2>1 DEF Scan
  <2>3. InStep(s[i - 1], w, t, i)
    BY <1>3, <2>1
  <2>4. InStep(readByte(s[i - 1], w[i]), w, t, i + 1)
    BY <2>1, <2>2, <2>3, ReadByteInStep
  <2>5. QED
    BY <2>1, <2>2, <2>4
<1> HIDE DEF P
<1>4. 0..n \subseteq P
  BY <1>1, <1>2, <1>3, Induction
<1>5. n \in P
  BY <1>1, <1>4
<1>6. QED
  BY <1>5 DEF P

(***************************************************************************)
(* The invariant.  On a line that lost and changed nothing the bytes that  *)
(* wait are ends of frames, and the reader is in step with the first one.  *)
(***************************************************************************)
InStepWith(r, w) ==
  \E t : Tagged(w, t) /\ (Len(w) > 0 => ends(t[Len(w)])) /\ InStep(r, w, t, 1)

Quiet == loss = 0 /\ noise = 0

Attempts == pc # "idle" => retr < MSGRECV_MAXRETR
Counts == loss \in Nat /\ noise \in Nat
Reading == rx \in InBuffer /\ rx.res = "more"
InSync == Quiet => InStepWith(rx, wire)
WholeReply == Quiet /\ result = "EOK" => rmsg \in Replies

MsgInv == TypeOK /\ Attempts /\ Counts /\ Reading /\ InSync /\ WholeReply

(* A reader that starts anew waits for a mark.                              *)
LEMMA FreshReader ==
  ASSUME NEW state \in {"DESYN", "FRAME"}
  PROVE  /\ fresh(state) \in Reader /\ fresh(state) \in InBuffer /\ fresh(state).res = "more"
         /\ Len(fresh(state).bytes) <= MSG_HDRSZ + MSG_MAXLEN
<1>1. fresh(state).bytes = <<>> /\ Len(<<>>) = 0 /\ <<>> \in Seq(Bytes) /\ fresh(state).res = "more"
  BY EmptySeq DEF fresh
<1>2. fresh(state) \in Reader
  BY <1>1 DEF fresh, Reader
<1>3. 0 <= MSG_HDRSZ + MSG_MAXLEN
  BY MsgAssumption DEF MSG_HDRSZ
<1>4. QED
  BY <1>1, <1>2, <1>3 DEF InBuffer, Full

(* Whatever waits, a reader outside of a frame is in step with it.          *)
LEMMA FreshInStep ==
  ASSUME NEW r, NEW w, InStepWith(r, w)
  PROVE  InStepWith(fresh("DESYN"), w)
<1>1. PICK t : Tagged(w, t) /\ (Len(w) > 0 => ends(t[Len(w)]))
  BY DEF InStepWith
<1>2. InStep(fresh("DESYN"), w, t, 1)
  BY DEF InStep, fresh
<1>3. QED
  BY <1>1, <1>2 DEF InStepWith

(* The counter of attempts stays below its bound.                           *)
LEMMA NextAttemptKept ==
  ASSUME retr \in 0..MSGRECV_MAXRETR, retr < MSGRECV_MAXRETR,
         result \in {"none", "ENXIO", "EOK"}, nextAttempt
  PROVE  /\ pc' \in {"idle", "write", "read"} /\ retr' \in 0..MSGRECV_MAXRETR
         /\ Attempts' /\ result' \in {"none", "ENXIO", "EOK"}
         /\ result' = "EOK" => result = "EOK"
<1>1. MSGRECV_MAXRETR \in Nat
  BY MsgAssumption
<1>2. retr' = retr + 1 /\ retr' \in 0..MSGRECV_MAXRETR
  BY <1>1 DEF nextAttempt
<1>3. CASE retr + 1 < MSGRECV_MAXRETR
  <2>1. pc' = "write" /\ result' = result
    BY <1>3 DEF nextAttempt
  <2>2. QED
    BY <1>2, <1>3, <2>1 DEF Attempts
<1>4. CASE ~(retr + 1 < MSGRECV_MAXRETR)
  <2>1. pc' = "idle" /\ result' = "ENXIO"
    BY <1>4 DEF nextAttempt
  <2>2. QED
    BY <1>2, <2>1 DEF Attempts
<1>5. QED
  BY <1>3, <1>4

(* msg_send begins.                                                         *)
LEMMA KeepSend == MsgInv /\ msg_send => MsgInv'
<1> SUFFICES ASSUME MsgInv, msg_send PROVE MsgInv'
  OBVIOUS
<1>1. /\ rx' = fresh("DESYN") /\ pc' = "write" /\ retr' = 0 /\ swapped' = FALSE
      /\ UNCHANGED <<bigEndian, result, rmsg, asked, wire, loss, noise>>
  BY DEF msg_send
<1>0. MSGRECV_MAXRETR \in Nat \ {0} /\ 0 \in 0..MSGRECV_MAXRETR /\ 0 < MSGRECV_MAXRETR
  BY MsgAssumption
<1>2. TypeOK' /\ Reading' /\ Attempts' /\ Counts'
  <2>1. /\ rx' \in Reader /\ rx' \in InBuffer /\ rx'.res = "more"
        /\ Len(rx'.bytes) <= MSG_HDRSZ + MSG_MAXLEN
    BY <1>1, FreshReader
  <2>2. TypeOK' /\ Counts'
    BY <1>0, <1>1, <2>1 DEF MsgInv, TypeOK, Counts
  <2>3. QED
    BY <1>0, <1>1, <2>1, <2>2 DEF Reading, Attempts
<1>3. InSync'
  BY <1>1, FreshInStep DEF MsgInv, InSync, Quiet
<1>4. WholeReply'
  BY <1>1 DEF MsgInv, WholeReply, Quiet
<1>5. QED
  BY <1>2, <1>3, <1>4 DEF MsgInv

(* msg_write writes the request, or fails.                                  *)
LEMMA KeepWrite == MsgInv /\ msg_write => MsgInv'
<1> SUFFICES ASSUME MsgInv, msg_write PROVE MsgInv'
  OBVIOUS
<1>1. UNCHANGED <<bigEndian, rx, rmsg, wire, noise>> /\ swapped' \in BOOLEAN /\ pc = "write"
  BY DEF msg_write
<1>2. retr \in 0..MSGRECV_MAXRETR /\ retr < MSGRECV_MAXRETR /\ result \in {"none", "ENXIO", "EOK"}
  BY <1>1 DEF MsgInv, TypeOK, Attempts
<1>3. /\ pc' \in {"idle", "write", "read"} /\ retr' \in 0..MSGRECV_MAXRETR
      /\ Attempts' /\ result' \in {"none", "ENXIO", "EOK"}
      /\ result' = "EOK" => result = "EOK"
      /\ asked' \in Nat /\ loss' \in Nat /\ (loss' = 0 => loss = 0)
  <2>1. asked \in Nat /\ loss \in Nat
    BY DEF MsgInv, TypeOK, Counts
  <2>2. CASE /\ pc' = "read" /\ asked' = (IF swapped THEN asked ELSE asked + 1)
             /\ UNCHANGED <<retr, result, loss>>
    BY <1>2, <2>1, <2>2 DEF Attempts
  <2>3. CASE /\ loss' = loss + 1 /\ pc' = "read" /\ UNCHANGED <<retr, result, asked>>
    BY <1>2, <2>1, <2>3 DEF Attempts
  <2>4. CASE loss' = loss + 1 /\ nextAttempt /\ UNCHANGED asked
    <3>1. /\ pc' \in {"idle", "write", "read"} /\ retr' \in 0..MSGRECV_MAXRETR
          /\ Attempts' /\ result' \in {"none", "ENXIO", "EOK"}
          /\ result' = "EOK" => result = "EOK"
      BY <1>2, <2>4, NextAttemptKept
    <3>2. QED
      BY <2>1, <2>4, <3>1
  <2>5. QED
    BY <2>2, <2>3, <2>4 DEF msg_write
<1>4. TypeOK' /\ Reading' /\ Counts'
  BY <1>1, <1>3 DEF MsgInv, TypeOK, Reading, Counts
<1>5. InSync' /\ WholeReply'
  BY <1>1, <1>3 DEF MsgInv, InSync, WholeReply, Quiet
<1>6. QED
  BY <1>3, <1>4, <1>5 DEF MsgInv

(* No byte came in time.                                                    *)
LEMMA KeepTimeout == MsgInv /\ timeout => MsgInv'
<1> SUFFICES ASSUME MsgInv, timeout PROVE MsgInv'
  OBVIOUS
<1>1. /\ UNCHANGED <<bigEndian, swapped, rmsg, asked, wire, loss, noise>>
      /\ pc = "read" /\ rx' = fresh("DESYN") /\ nextAttempt
  BY DEF timeout
<1>2. retr \in 0..MSGRECV_MAXRETR /\ retr < MSGRECV_MAXRETR /\ result \in {"none", "ENXIO", "EOK"}
  BY <1>1 DEF MsgInv, TypeOK, Attempts
<1>3. /\ pc' \in {"idle", "write", "read"} /\ retr' \in 0..MSGRECV_MAXRETR
      /\ Attempts' /\ result' \in {"none", "ENXIO", "EOK"}
      /\ result' = "EOK" => result = "EOK"
  BY <1>1, <1>2, NextAttemptKept
<1>4. TypeOK' /\ Reading' /\ Counts'
  BY <1>1, <1>3, FreshReader DEF MsgInv, TypeOK, Reading, Counts
<1>5. InSync'
  BY <1>1, FreshInStep DEF MsgInv, InSync, Quiet
<1>6. WholeReply'
  BY <1>1, <1>3 DEF MsgInv, WholeReply, Quiet
<1>7. QED
  BY <1>3, <1>4, <1>5, <1>6 DEF MsgInv

(* What is left of the wire after n bytes are bytes.                        *)
LEMMA RestOfWire ==
  ASSUME NEW w \in Seq(Bytes), NEW a \in Nat \ {0}, NEW z \in 0..Len(w)
  PROVE  SubSeq(w, a, z) \in Seq(Bytes)
<1>1. Len(w) \in Nat
  BY LenProperties
<1>2. \A i \in a..z : w[i] \in Bytes
  <2> SUFFICES ASSUME NEW i \in a..z PROVE w[i] \in Bytes
    OBVIOUS
  <2>1. i \in 1..Len(w)
    BY <1>1
  <2>2. QED
    BY <2>1, ElementOfSeq
<1>3. QED
  BY <1>1, <1>2, SubSeqProperties

(* The bytes of a frame that was read to its end make a message.            *)
LEMMA MessageOf ==
  ASSUME NEW b \in Seq(Bytes), Len(b) >= MSG_HDRSZ
  PROVE  msgOf(b) \in Message
<1>1. Len(b) \in Nat /\ 2 \in 1..Len(b) /\ 3 \in 1..Len(b)
  BY LenProperties DEF MSG_HDRSZ
<1>2. b[2] \in Bytes /\ b[3] \in Bytes
  BY <1>1, ElementOfSeq
<1>3. msg_gettype(b[3]) \in 0..Types - 1
  <2> DEFINE c == b[3]
  <2>1. c \in Nat /\ Types \in Nat \ {0}
    BY <1>2, MsgAssumption DEF Bytes
  <2> HIDE DEF c
  <2>2. c % Types \in 0..Types - 1
    BY <2>1
  <2>3. QED
    BY <2>2 DEF msg_gettype, c
<1>4. SubSeq(b, MSG_HDRSZ + 1, Len(b)) \in Seq(Bytes)
  BY <1>1, RestOfWire DEF MSG_HDRSZ
<1>5. QED
  BY <1>2, <1>3, <1>4 DEF msgOf, Message

(* msg_read on a quiet line: the reader stays in step, and what it has got  *)
(* is a reply.                                                              *)
LEMMA ReadInStep ==
  ASSUME NEW q, NEW z, InStepWith(q, z), NEW n \in 1..Len(z), NEW s, Scan(s, q, z, n)
  PROVE  LET r == s[n]
             w == SubSeq(z, n + 1, Len(z))
         IN /\ r.res # "ENXIO"
            /\ r.res = "more" => InStepWith(r, w)
            /\ r.res = "frame" => msgOf(r.bytes) \in Replies
            /\ InStepWith(fresh("DESYN"), w)
<1> DEFINE r == s[n]
           w == SubSeq(z, n + 1, Len(z))
<1>1. PICK t : Tagged(z, t) /\ (Len(z) > 0 => ends(t[Len(z)])) /\ InStep(q, z, t, 1)
  BY DEF InStepWith
<1>2. InStep(r, z, t, n + 1)
  BY <1>1, ScanInStep
<1>3. PICK x : /\ Tagged(w, x) /\ (Len(w) > 0 => ends(x[Len(w)]))
               /\ Len(w) = Len(z) - n
               /\ n < Len(z) => x[1] = t[n + 1]
  BY <1>1, DropTags
<1>4. Len(z) \in Nat
  BY <1>1, LenProperties DEF Tagged
<1> HIDE DEF r, w
<1>5. r.res # "ENXIO"
  BY <1>2 DEF InStep
<1>6. ASSUME r.res = "frame" PROVE msgOf(r.bytes) \in Replies
  <2>1. PICK m \in Replies : r.bytes = bytesOf(m)
    BY <1>2, <1>6 DEF InStep
  <2>2. msgOf(bytesOf(m)) = m
    BY ReplyBytes
  <2>3. QED
    BY <2>1, <2>2
<1>7. InStep(fresh("DESYN"), w, x, 1)
  BY DEF InStep, fresh
<1>8. ASSUME r.res = "more" PROVE InStep(r, w, x, 1)
  <2>1. CASE r.state = "DESYN" /\ ~r.escfl /\ r.bytes = <<>>
    BY <1>8, <2>1 DEF InStep
  <2>2. CASE /\ r.state = "FRAME" /\ n + 1 <= Len(z)
             /\ t[n + 1].k >= 0 /\ r.escfl = t[n + 1].e
             /\ r.bytes = SubSeq(bytesOf(t[n + 1].m), 1, t[n + 1].k)
    <3>1. 1 <= Len(w) /\ x[1] = t[n + 1]
      BY <1>3, <1>4, <2>2
    <3>2. QED
      BY <1>8, <2>2, <3>1 DEF InStep
  <2>3. QED
    BY <1>2, <1>8, <2>1, <2>2 DEF InStep
<1>9. InStepWith(fresh("DESYN"), w)
  BY <1>3, <1>7 DEF InStepWith
<1>10. r.res = "more" => InStepWith(r, w)
  BY <1>3, <1>8 DEF InStepWith
<1>11. QED
  BY <1>5, <1>6, <1>9, <1>10 DEF r, w

(* msg_read reads what has come, and gets a reply, fails or goes on.        *)
LEMMA KeepRead == MsgInv /\ readSome => MsgInv'
<1> SUFFICES ASSUME MsgInv, readSome PROVE MsgInv'
  OBVIOUS
<1>1. PICK n \in 1..Len(wire) : msg_read(n)
  BY DEF readSome
<1>2. wire \in Seq(Bytes) /\ rx \in InBuffer /\ Len(wire) \in Nat
  BY LenProperties DEF MsgInv, TypeOK, Reading
<1>3. PICK s : Scan(s, rx, wire, n) /\ scanned(n) = s[n]
  BY <1>2, ScanExists
<1> DEFINE r == s[n]
           w == SubSeq(wire, n + 1, Len(wire))
<1>4. r \in InBuffer
  <2>1. n \in 0..n
    BY <1>2
  <2>2. QED
    BY <1>3, <2>1 DEF Scan
<1>5. w \in Seq(Bytes)
  BY <1>2, RestOfWire
<1>6. Quiet => /\ r.res # "ENXIO" /\ (r.res = "more" => InStepWith(r, w))
               /\ (r.res = "frame" => msgOf(r.bytes) \in Replies)
               /\ InStepWith(fresh("DESYN"), w)
  BY <1>3, ReadInStep DEF MsgInv, InSync
<1>7. /\ wire' = w /\ pc = "read" /\ UNCHANGED <<bigEndian, swapped, asked, late, loss, noise>>
      /\ \/ r.res = "more" /\ rx' = r /\ UNCHANGED <<pc, retr, result, rmsg>>
         \/ /\ r.res = "frame" /\ rx' = fresh("DESYN")
            /\ pc' = "idle" /\ result' = "EOK" /\ rmsg' = msgOf(r.bytes) /\ UNCHANGED retr
         \/ r.res = "ENXIO" /\ rx' = fresh(r.state) /\ nextAttempt /\ UNCHANGED rmsg
  BY <1>1, <1>3 DEF msg_read
<1> HIDE DEF r, w
<1>8. /\ r.state \in {"DESYN", "FRAME"} /\ r \in Reader /\ r.bytes \in Seq(Bytes)
      /\ Len(r.bytes) <= MSG_HDRSZ + MSG_MAXLEN
      /\ r.res = "frame" => Len(r.bytes) >= MSG_HDRSZ
  BY <1>4 DEF InBuffer, Reader, Full
<1>9. /\ retr \in 0..MSGRECV_MAXRETR /\ retr < MSGRECV_MAXRETR /\ result \in {"none", "ENXIO", "EOK"}
      /\ bigEndian' \in BOOLEAN /\ swapped' \in BOOLEAN /\ asked' \in Nat /\ wire' \in Seq(Bytes)
      /\ Quiet' = Quiet /\ Counts' /\ rmsg \in Message
  BY <1>5, <1>7 DEF MsgInv, TypeOK, Attempts, Counts, Quiet
<1>10. CASE r.res = "more" /\ rx' = r /\ UNCHANGED <<pc, retr, result, rmsg>>
  <2>1. TypeOK' /\ Attempts' /\ Reading'
    BY <1>4, <1>8, <1>9, <1>10 DEF MsgInv, TypeOK, Attempts, Reading
  <2>2. InSync' /\ WholeReply'
    BY <1>6, <1>7, <1>9, <1>10 DEF MsgInv, InSync, WholeReply
  <2>3. QED
    BY <1>9, <2>1, <2>2 DEF MsgInv
<1>11. CASE /\ r.res = "frame" /\ rx' = fresh("DESYN")
            /\ pc' = "idle" /\ result' = "EOK" /\ rmsg' = msgOf(r.bytes) /\ UNCHANGED retr
  <2>1. rmsg' \in Message
    BY <1>8, <1>11, MessageOf
  <2>2. /\ rx' \in Reader /\ rx' \in InBuffer /\ rx'.res = "more"
        /\ Len(rx'.bytes) <= MSG_HDRSZ + MSG_MAXLEN
    BY <1>11, FreshReader
  <2>3. TypeOK' /\ Attempts' /\ Reading'
    BY <1>9, <1>11, <2>1, <2>2 DEF TypeOK, Attempts, Reading
  <2>4. InSync' /\ WholeReply'
    BY <1>6, <1>7, <1>9, <1>11 DEF InSync, WholeReply
  <2>5. QED
    BY <1>9, <2>3, <2>4 DEF MsgInv
<1>12. CASE r.res = "ENXIO" /\ rx' = fresh(r.state) /\ nextAttempt /\ UNCHANGED rmsg
  <2>1. /\ pc' \in {"idle", "write", "read"} /\ retr' \in 0..MSGRECV_MAXRETR
        /\ Attempts' /\ result' \in {"none", "ENXIO", "EOK"}
        /\ result' = "EOK" => result = "EOK"
    BY <1>9, <1>12, NextAttemptKept
  <2>2. /\ rx' \in Reader /\ rx' \in InBuffer /\ rx'.res = "more"
        /\ Len(rx'.bytes) <= MSG_HDRSZ + MSG_MAXLEN
    BY <1>8, <1>12, FreshReader
  <2>3. TypeOK' /\ Reading'
    BY <1>9, <1>12, <2>1, <2>2 DEF TypeOK, Reading
  <2>4. InSync' /\ WholeReply'
    BY <1>6, <1>9, <1>12 DEF InSync, WholeReply
  <2>5. QED
    BY <1>9, <2>1, <2>3, <2>4 DEF MsgInv
<1>13. QED
  BY <1>7, <1>10, <1>11, <1>12

(* A frame more on the wire.                                                *)
LEMMA JoinInStep ==
  ASSUME NEW r, r.res = "more", NEW z, InStepWith(r, z), NEW m \in Replies
  PROVE  InStepWith(r, z \o frame(m))
<1>1. PICK u : /\ Tagged(frame(m), u) /\ Len(frame(m)) > 0 /\ u[1].k = -1
               /\ ends(u[Len(frame(m))])
  BY FrameIsFramed
<1>2. PICK t : Tagged(z, t) /\ (Len(z) > 0 => ends(t[Len(z)])) /\ InStep(r, z, t, 1)
  BY DEF InStepWith
<1> DEFINE w == z \o frame(m)
<1>3. PICK x : /\ Tagged(w, x) /\ ends(x[Len(w)]) /\ Len(w) > 0
               /\ Len(z) > 0 => x[1] = t[1]
  BY <1>1, <1>2, JoinTags
<1>4. Len(z) \in Nat /\ Len(w) \in Nat
  BY <1>2, <1>3, LenProperties DEF Tagged
<1> HIDE DEF w
<1>5. InStep(r, w, x, 1)
  <2>1. CASE r.state = "DESYN" /\ ~r.escfl /\ r.bytes = <<>>
    BY <2>1 DEF InStep
  <2>2. CASE /\ r.state = "FRAME" /\ 1 <= Len(z)
             /\ t[1].k >= 0 /\ r.escfl = t[1].e
             /\ r.bytes = SubSeq(bytesOf(t[1].m), 1, t[1].k)
    <3>1. 1 <= Len(w) /\ x[1] = t[1]
      BY <1>3, <1>4, <2>2
    <3>2. QED
      BY <2>2, <3>1 DEF InStep
  <2>3. QED
    BY <1>2, <2>1, <2>2 DEF InStep
<1>6. QED
  BY <1>3, <1>5 DEF InStepWith, w

(* The host answers: a whole frame more waits.                              *)
LEMMA KeepAnswer == MsgInv /\ answer => MsgInv'
<1> SUFFICES ASSUME MsgInv, answer PROVE MsgInv'
  OBVIOUS
<1>1. PICK m \in Replies : wire' = wire \o frame(m)
  BY DEF answer
<1>2. PICK u : /\ Tagged(frame(m), u) /\ Len(frame(m)) > 0 /\ u[1].k = -1
               /\ ends(u[Len(frame(m))])
  BY FrameIsFramed
<1>3. wire \in Seq(Bytes) /\ frame(m) \in Seq(Bytes)
  BY <1>2 DEF MsgInv, TypeOK, Tagged
<1>4. /\ wire' \in Seq(Bytes) /\ asked' \in Nat
      /\ UNCHANGED <<bigEndian, pc, retr, swapped, rx, result, rmsg, loss, noise>>
  BY <1>1, <1>3, ConcatProperties DEF answer, MsgInv, TypeOK
<1>5. TypeOK' /\ Attempts' /\ Counts' /\ Reading' /\ WholeReply'
  BY <1>4 DEF MsgInv, TypeOK, Attempts, Counts, Reading, WholeReply, Quiet
<1>6. InSync'
  <2> SUFFICES ASSUME Quiet PROVE InStepWith(rx, wire \o frame(m))
    BY <1>1, <1>4 DEF InSync, Quiet
  <2>1. InStepWith(rx, wire) /\ rx.res = "more"
    BY DEF MsgInv, InSync, Reading
  <2>2. QED
    BY <2>1, JoinInStep
<1>7. QED
  BY <1>5, <1>6 DEF MsgInv

(* The line loses a byte.                                                   *)
LEMMA KeepLoss == MsgInv /\ loseByte => MsgInv'
<1> SUFFICES ASSUME MsgInv, loseByte PROVE MsgInv'
  OBVIOUS
<1>1. PICK i \in DOMAIN wire : wire' = RemoveAt(wire, i)
  BY DEF loseByte
<1>2. wire \in Seq(Bytes) /\ Len(wire) \in Nat /\ i \in 1..Len(wire)
  BY LenProperties DEF MsgInv, TypeOK
<1>3. SubSeq(wire, 1, i - 1) \in Seq(Bytes) /\ SubSeq(wire, i + 1, Len(wire)) \in Seq(Bytes)
  BY <1>2, RestOfWire
<1>4. wire' \in Seq(Bytes)
  BY <1>1, <1>3, ConcatProperties DEF RemoveAt
<1>5. /\ UNCHANGED <<bigEndian, pc, retr, swapped, rx, result, rmsg, asked, noise>>
      /\ loss' \in Nat /\ ~Quiet'
  BY DEF loseByte, MsgInv, Counts, Quiet
<1>6. QED
  BY <1>4, <1>5 DEF MsgInv, TypeOK, Attempts, Counts, Reading, InSync, WholeReply

(* The line changes a byte.                                                 *)
LEMMA KeepNoise == MsgInv /\ changeByte => MsgInv'
<1> SUFFICES ASSUME MsgInv, changeByte PROVE MsgInv'
  OBVIOUS
<1>1. PICK i \in DOMAIN wire, c \in Bytes : wire' = [wire EXCEPT ![i] = c]
  BY DEF changeByte
<1>2. wire \in Seq(Bytes) /\ Len(wire) \in Nat /\ i \in 1..Len(wire)
  BY LenProperties DEF MsgInv, TypeOK
<1>3. wire' \in Seq(Bytes)
  BY <1>1, <1>2, ExceptSeq
<1>4. /\ UNCHANGED <<bigEndian, pc, retr, swapped, rx, result, rmsg, asked, loss>>
      /\ noise' \in Nat /\ ~Quiet'
  BY DEF changeByte, MsgInv, Counts, Quiet
<1>5. QED
  BY <1>3, <1>4 DEF MsgInv, TypeOK, Attempts, Counts, Reading, InSync, WholeReply

(* Nothing waits at the beginning.                                          *)
LEMMA MsgStart == Init => MsgInv
<1> SUFFICES ASSUME Init PROVE MsgInv
  OBVIOUS
<1>1. /\ bigEndian \in BOOLEAN /\ pc = "idle" /\ retr = 0 /\ swapped = FALSE
      /\ rx = fresh("DESYN") /\ result = "none" /\ rmsg = [seq |-> 0, type |-> 0, data |-> <<>>]
      /\ asked = 0 /\ wire = <<>> /\ loss = 0 /\ noise = 0
  BY DEF Init
<1>2. wire \in Seq(Bytes) /\ Len(wire) = 0
  BY <1>1, EmptySeq
<1>3. rmsg \in Message
  <2>1. 0 \in Bytes /\ 0 \in 0..Types - 1 /\ <<>> \in Seq(Bytes)
    BY MsgAssumption, EmptySeq DEF Bytes
  <2>2. QED
    BY <1>1, <2>1 DEF Message
<1>4. /\ rx \in Reader /\ rx \in InBuffer /\ rx.res = "more"
      /\ Len(rx.bytes) <= MSG_HDRSZ + MSG_MAXLEN
  BY <1>1, FreshReader
<1>5. 0 \in 0..MSGRECV_MAXRETR
  BY MsgAssumption
<1>6. TypeOK /\ Attempts /\ Counts /\ Reading /\ WholeReply
  BY <1>1, <1>2, <1>3, <1>4, <1>5 DEF TypeOK, Attempts, Counts, Reading, WholeReply
<1>7. InSync
  <2> DEFINE t == [i \in 1..0 |-> tag(0, 0, FALSE)]
  <2>1. Tagged(wire, t) /\ ~(Len(wire) > 0)
    BY <1>2 DEF Tagged
  <2>2. InStep(rx, wire, t, 1)
    BY <1>1 DEF InStep, fresh
  <2> HIDE DEF t
  <2>3. QED
    BY <2>1, <2>2 DEF InSync, InStepWith
<1>8. QED
  BY <1>6, <1>7 DEF MsgInv

(* The invariant, for every step.                                           *)
LEMMA MsgKept == MsgInv /\ [Next]_msgVars => MsgInv'
<1> SUFFICES ASSUME MsgInv, [Next]_msgVars PROVE MsgInv'
  OBVIOUS
<1>1. CASE msg_send
  BY <1>1, KeepSend
<1>2. CASE msg_write
  BY <1>2, KeepWrite
<1>3. CASE readSome
  BY <1>3, KeepRead
<1>4. CASE timeout
  BY <1>4, KeepTimeout
<1>5. CASE answer
  BY <1>5, KeepAnswer
<1>6. CASE loseByte
  BY <1>6, KeepLoss
<1>7. CASE changeByte
  BY <1>7, KeepNoise
<1>8. CASE UNCHANGED msgVars
  BY <1>8 DEF msgVars, MsgInv, TypeOK, Attempts, Counts, Reading, InSync, WholeReply, Quiet
<1>9. QED
  BY <1>1, <1>2, <1>3, <1>4, <1>5, <1>6, <1>7, <1>8 DEF Next, plo

(* The reader is in step with the line in every state.                      *)
LEMMA MsgInvariant == Spec => []MsgInv
<1>1. QED
  BY MsgStart, MsgKept, PTL DEF Spec

(* No frame, however garbled, makes msg_read write beyond msg->data: the    *)
(* reader holds at most a header and MSG_MAXLEN bytes, for every sequence   *)
(* of bytes, losses and timeouts.                                           *)
THEOREM ReaderInBuffer == Spec => []TypeOK
<1>1. MsgInv => TypeOK
  BY DEF MsgInv
<1>2. QED
  BY <1>1, MsgInvariant, PTL

(* While the line loses and changes nothing, a reader that believes to be   *)
(* inside a frame holds the first bytes of a reply, wherever devs_read cut  *)
(* the stream and whatever reply came too late.                             *)
THEOREM ReaderInFrame == Spec => []InsideFrame
<1>1. MsgInv => InsideFrame
  <2> SUFFICES ASSUME MsgInv, Quiet, rx.state = "FRAME"
               PROVE  \E m \in Replies : IsPrefix(rx.bytes, bytesOf(m))
    BY DEF InsideFrame, Quiet
  <2>1. PICK t : Tagged(wire, t) /\ InStep(rx, wire, t, 1)
    BY DEF MsgInv, InSync, InStepWith
  <2>2. /\ 1 <= Len(wire) /\ t[1].k >= 0 /\ rx.bytes = SubSeq(bytesOf(t[1].m), 1, t[1].k)
    BY <2>1 DEF MsgInv, Reading, InStep
  <2> DEFINE u == t[1]
             b == bytesOf(u.m)
             k == u.k
  <2>3. u \in Tags
    <3>1. Len(wire) \in Nat
      BY <2>1, LenProperties DEF Tagged
    <3>2. 1 \in 1..Len(wire)
      BY <2>2, <3>1
    <3>3. QED
      BY <2>1, <3>2 DEF Tagged
  <2>4. u.m \in Replies /\ k \in -1..Len(b) - 1 /\ Len(b) \in Nat
    BY <2>3, TagFields
  <2>5. b \in Seq(Bytes)
    BY <2>4, ReplyBytes
  <2>6. k >= 0 /\ rx.bytes = SubSeq(b, 1, k)
    BY <2>2
  <2> HIDE DEF u, b, k
  <2>7. k \in 0..Len(b) - 1
    BY <2>4, <2>6
  <2>8. rx.bytes \in Seq(Bytes) /\ Len(rx.bytes) = k
    BY <2>5, <2>6, <2>7, PrefixOneMore
  <2>9. SubSeq(rx.bytes, 1, Len(rx.bytes)) = rx.bytes
    BY <2>8, SubSeqFull
  <2>10. IsPrefix(rx.bytes, b)
    <3>1. k <= Len(b)
      BY <2>4, <2>7
    <3>2. QED
      BY <2>6, <2>8, <2>9, <3>1 DEF IsPrefix
  <2>11. QED
    BY <2>4, <2>10 DEF b
<1>2. QED
  BY <1>1, MsgInvariant, PTL

(* ... and what msg_send then returns with EOK is a whole reply of the      *)
(* host, never parts of two.                                                *)
THEOREM RepliesWhole == Spec => []ReturnedWasSent
<1>1. MsgInv => ReturnedWasSent
  BY DEF MsgInv, WholeReply, Quiet, ReturnedWasSent
<1>2. QED
  BY <1>1, MsgInvariant, PTL
(***************************************************************************)
(* Losses and attempts.  A reply that is not damaged ends the call, so     *)
(* every attempt that fails is paid for by a loss or a late reply; on a    *)
(* big endian target, together with the garbled one that comes next.       *)
(***************************************************************************)
drop(w, n) == SubSeq(w, n + 1, Len(w))

noMark(w, i) == \A j \in i..Len(w) : w[j] # MSG_MARK
oneMark(w, i) == \A j \in i..Len(w), k \in i..Len(w) : w[j] = MSG_MARK /\ w[k] = MSG_MARK => j = k

(* Before byte i there is one frame to come, or inside it or after it none. *)
Single(r, w, i) ==
  /\ oneMark(w, i)
  /\ r.state = "FRAME" \/ r.res # "more" => noMark(w, i)
  /\ r.res # "more" => r.state = "DESYN"

waiting(r) == r.res = "more" /\ r.state = "DESYN" /\ ~r.escfl /\ r.bytes = <<>>

(* After d bytes without a mark the reader is in step with whole frames. *)
Undamaged(r, w, d) ==
  /\ \A i \in 1..d : w[i] # MSG_MARK
  /\ d > 0 => waiting(r)
  /\ InStepWith(r, drop(w, d))

(* ... and there is one: to be sent, on the wire, or being read. *)
Expected(r, w, i) == asked > 0 \/ r.res = "frame" \/ r.state = "FRAME" \/ ~noMark(w, i)

Coming == (\E d \in 0..Len(wire) : Undamaged(rx, wire, d)) /\ Expected(rx, wire, 1)

(* The mishaps that SurvivesLoss is about, and the attempts they pay for. *)
Bearable == noise = 0 /\ (loss = 0 \/ late = 0) /\ (bigEndian => loss + late <= 1)
cost == IF bigEndian THEN 2 ELSE 1
budget == IF bigEndian THEN 2 * (loss + late) ELSE loss + late
garbled == bigEndian /\ ~swapped

Counted == late \in Nat /\ late + loss + noise <= MaxMishaps
Swaps == swapped => bigEndian

(* Without late replies nothing is left over between attempts, and there is *)
(* at most one reply during one.                                            *)
Calm ==
  late = 0 /\ noise = 0 =>
    /\ pc # "read" => asked = 0 /\ noMark(wire, 1) /\ rx = fresh("DESYN")
    /\ pc = "read" => /\ Single(rx, wire, 1)
                      /\ asked > 0 => asked = 1 /\ noMark(wire, 1) /\ rx.state = "DESYN"

(* A mishap pays for each attempt that failed, and for the one that is being *)
(* read unless its reply is coming.                                          *)
Paid ==
  Bearable =>
    /\ result # "ENXIO"
    /\ pc = "write" => retr <= budget /\ (swapped => retr + 1 <= budget)
    /\ pc = "read" /\ ~garbled => (Coming /\ retr <= budget) \/ retr + cost <= budget
    /\ pc = "read" /\ garbled => retr + 1 <= budget

PaidInv == Counted /\ Swaps /\ Calm /\ Paid

(* The wire without its first n bytes.                                      *)
LEMMA Dropped ==
  ASSUME NEW w \in Seq(Bytes), NEW n \in 0..Len(w)
  PROVE  /\ drop(w, n) \in Seq(Bytes) /\ Len(drop(w, n)) = Len(w) - n
         /\ Len(w) \in Nat /\ \A i \in 1..Len(w) - n : drop(w, n)[i] = w[n + i]
<1>1. Len(w) \in Nat
  BY LenProperties
<1>2. n + 1 \in Nat \ {0} /\ Len(w) \in 0..Len(w)
  BY <1>1
<1>3. \A i \in n + 1..Len(w) : w[i] \in Bytes
  BY <1>1, ElementOfSeq
<1>4. /\ Len(drop(w, n)) = IF n + 1 <= Len(w) THEN Len(w) - (n + 1) + 1 ELSE 0
      /\ \A i \in 1..Len(w) - (n + 1) + 1 : drop(w, n)[i] = w[(n + 1) + i - 1]
  BY <1>1, <1>2, <1>3, SubSeqProperties DEF drop
<1>5. \A i \in 1..Len(w) - n : i \in 1..Len(w) - (n + 1) + 1 /\ (n + 1) + i - 1 = n + i
  BY <1>1
<1>6. drop(w, n) \in Seq(Bytes)
  BY <1>1, <1>2, RestOfWire DEF drop
<1>7. Len(drop(w, n)) = Len(w) - n
  <2> DEFINE l == Len(drop(w, n))
  <2>1. l = IF n + 1 <= Len(w) THEN Len(w) - (n + 1) + 1 ELSE 0
    BY <1>4
  <2> HIDE DEF l
  <2>2. l = Len(w) - n
    BY <1>1, <2>1
  <2>3. QED
    BY <2>2 DEF l
<1>8. QED
  BY <1>1, <1>4, <1>5, <1>6, <1>7

(* ... and without b more.                                                  *)
LEMMA DropDrop ==
  ASSUME NEW w \in Seq(Bytes), NEW a \in 0..Len(w), NEW b \in 0..Len(w) - a
  PROVE  drop(drop(w, a), b) = drop(w, a + b)
<1> DEFINE x == drop(w, a)
           y == drop(x, b)
           z == drop(w, a + b)
<1>1. /\ x \in Seq(Bytes) /\ Len(x) = Len(w) - a /\ Len(w) \in Nat
      /\ \A i \in 1..Len(w) - a : x[i] = w[a + i]
  BY Dropped
<1> HIDE DEF x
<1>2. b \in 0..Len(x) /\ a + b \in 0..Len(w)
  BY <1>1
<1>3. y \in Seq(Bytes) /\ Len(y) = Len(x) - b /\ \A i \in 1..Len(x) - b : y[i] = x[b + i]
  BY <1>1, <1>2, Dropped
<1>4. /\ z \in Seq(Bytes) /\ Len(z) = Len(w) - (a + b)
      /\ \A i \in 1..Len(w) - (a + b) : z[i] = w[(a + b) + i]
  BY <1>2, Dropped
<1> HIDE DEF y, z
<1>5. Len(y) = Len(z)
  BY <1>1, <1>3, <1>4
<1>6. ASSUME NEW i \in 1..Len(y) PROVE y[i] = z[i]
  <2>1. /\ i \in 1..Len(x) - b /\ b + i \in 1..Len(w) - a /\ i \in 1..Len(w) - (a + b)
        /\ a + (b + i) = (a + b) + i
    BY <1>1, <1>3
  <2>2. y[i] = x[b + i] /\ x[b + i] = w[a + (b + i)] /\ z[i] = w[(a + b) + i]
    BY <1>1, <1>3, <1>4, <2>1
  <2>3. QED
    BY <2>1, <2>2
<1>7. y = z
  BY <1>3, <1>4, <1>5, <1>6, SeqEqual
<1>8. QED
  BY <1>7 DEF x, y, z

(* Bytes that come behind stay behind.                                      *)
LEMMA DropJoin ==
  ASSUME NEW w \in Seq(Bytes), NEW f \in Seq(Bytes), NEW d \in 0..Len(w)
  PROVE  drop(w \o f, d) = drop(w, d) \o f
<1> DEFINE v == w \o f
           x == drop(w, d)
           y == drop(v, d)
           z == x \o f
<1>1. /\ x \in Seq(Bytes) /\ Len(x) = Len(w) - d /\ Len(w) \in Nat
      /\ \A i \in 1..Len(w) - d : x[i] = w[d + i]
  BY Dropped
<1>2. Len(f) \in Nat
  BY LenProperties
<1>3. /\ v \in Seq(Bytes) /\ Len(v) = Len(w) + Len(f)
      /\ \A i \in 1..Len(w) + Len(f) : v[i] = IF i <= Len(w) THEN w[i] ELSE f[i - Len(w)]
  BY ConcatProperties
<1> HIDE DEF v, x
<1>4. /\ z \in Seq(Bytes) /\ Len(z) = Len(x) + Len(f)
      /\ \A i \in 1..Len(x) + Len(f) : z[i] = IF i <= Len(x) THEN x[i] ELSE f[i - Len(x)]
  BY <1>1, ConcatProperties
<1>5. d \in 0..Len(v)
  BY <1>1, <1>2, <1>3
<1>6. y \in Seq(Bytes) /\ Len(y) = Len(v) - d /\ \A i \in 1..Len(v) - d : y[i] = v[d + i]
  BY <1>3, <1>5, Dropped
<1> HIDE DEF y, z
<1>7. Len(y) = Len(z)
  BY <1>1, <1>2, <1>3, <1>4, <1>6
<1>8. ASSUME NEW i \in 1..Len(y) PROVE y[i] = z[i]
  <2>1. /\ i \in 1..Len(v) - d /\ d + i \in 1..Len(w) + Len(f) /\ i \in 1..Len(x) + Len(f)
        /\ (d + i) - Len(w) = i - Len(x) /\ (d + i <= Len(w) <=> i <= Len(x))
        /\ i <= Len(x) => i \in 1..Len(w) - d
    BY <1>1, <1>2, <1>3, <1>6
  <2>2. y[i] = v[d + i] /\ v[d + i] = (IF d + i <= Len(w) THEN w[d + i] ELSE f[(d + i) - Len(w)])
    BY <1>3, <1>6, <2>1
  <2>3. z[i] = IF i <= Len(x) THEN x[i] ELSE f[i - Len(x)]
    BY <1>4, <2>1
  <2>4. i <= Len(x) => x[i] = w[d + i]
    BY <1>1, <2>1
  <2>5. QED
    BY <2>1, <2>2, <2>3, <2>4
<1>9. y = z
  BY <1>4, <1>6, <1>7, <1>8, SeqEqual
<1>10. QED
  BY <1>9 DEF v, x, y, z

(* What a byte makes of the reader.                                         *)
LEMMA ByteRead ==
  ASSUME NEW r \in InBuffer, NEW c \in Bytes, NEW x, x = readByte(r, c)
  PROVE  /\ r.res # "more" => x = r
         /\ r.res = "more" /\ r.state = "DESYN" =>
              /\ x.res = "more" /\ x.escfl = r.escfl /\ x.bytes = r.bytes
              /\ x.state = IF c = MSG_MARK THEN "FRAME" ELSE "DESYN"
         /\ r.res = "more" /\ r.state = "FRAME" =>
              \/ x.res = "more" /\ x.state = "FRAME"
              \/ x.res = "frame" /\ x.state = "DESYN"
              \/ x.res = "ENXIO" /\ (x.state = "DESYN" \/ c = MSG_MARK)
<1>1. r = [state |-> r.state, escfl |-> r.escfl, bytes |-> r.bytes, res |-> r.res]
      /\ r.state \in {"DESYN", "FRAME"} /\ r.escfl \in BOOLEAN
  BY DEF InBuffer, Reader
<1>2. CASE r.res # "more"
  BY <1>2 DEF readByte
<1>3. CASE r.res = "more" /\ r.state = "DESYN"
  BY <1>1, <1>3 DEF readByte
<1>4. CASE r.res = "more" /\ r.state = "FRAME" /\ tooLong(r, c)
  BY <1>1, <1>4 DEF readByte
<1>5. CASE r.res = "more" /\ r.state = "FRAME" /\ ~tooLong(r, c)
  <2>1. CASE c = MSG_MARK
    BY <1>1, <1>5, <2>1 DEF readByte
  <2>2. CASE c # MSG_MARK /\ ~r.escfl /\ c = MSG_ESC
    BY <1>1, <1>5, <2>2 DEF readByte
  <2>3. CASE c # MSG_MARK /\ ~(~r.escfl /\ c = MSG_ESC)
    <3>1. x = store(r, c)
      BY <1>5, <2>3 DEF readByte
    <3>2. QED
      BY <1>5, <3>1 DEF store
  <2>4. QED
    BY <2>1, <2>2, <2>3
<1>6. QED
  BY <1>1, <1>2, <1>3, <1>4, <1>5

(* Bytes without a mark leave a waiting reader as it is.                    *)
LEMMA Skipped ==
  ASSUME NEW w \in Seq(Bytes), NEW n \in 0..Len(w), NEW s, NEW r, Scan(s, r, w, n),
         NEW d \in 0..n, waiting(r), \A i \in 1..d : w[i] # MSG_MARK
  PROVE  waiting(s[d])
<1>1. Len(w) \in Nat /\ d \in Nat /\ n \in Nat
  BY LenProperties
<1> DEFINE P == {i \in 0..d : waiting(s[i])}
<1>2. 0 \in P
  BY <1>1 DEF Scan
<1>3. ASSUME NEW i \in 1..d, i - 1 \in P PROVE i \in P
  <2>1. i \in 1..n /\ i - 1 \in 0..n /\ i \in 0..d /\ i \in 1..Len(w)
    BY <1>1
  <2>2. s[i - 1] \in InBuffer /\ s[i] = readByte(s[i - 1], w[i]) /\ w[i] \in Bytes /\ w[i] # MSG_MARK
    BY <2>1, ElementOfSeq DEF Scan
  <2>3. waiting(s[i - 1])
    BY <1>3
  <2>4. waiting(s[i])
    BY <2>2, <2>3, ByteRead DEF waiting
  <2>5. QED
    BY <2>1, <2>4
<1> HIDE DEF P
<1>4. 0..d \subseteq P
  BY <1>1, <1>2, <1>3, Induction
<1>5. d \in P
  BY <1>1, <1>4
<1>6. QED
  BY <1>5 DEF P

(* The same for any reader outside of a frame.                              *)
LEMMA IdleSkipped ==
  ASSUME NEW w \in Seq(Bytes), NEW n \in 0..Len(w), NEW s, NEW r, Scan(s, r, w, n),
         r.res = "more", r.state = "DESYN", \A i \in 1..n : w[i] # MSG_MARK
  PROVE  s[n].res = "more" /\ s[n].state = "DESYN"
<1>1. Len(w) \in Nat /\ n \in Nat
  BY LenProperties
<1> DEFINE P == {i \in 0..n : s[i].res = "more" /\ s[i].state = "DESYN"}
<1>2. 0 \in P
  BY <1>1 DEF Scan
<1>3. ASSUME NEW i \in 1..n, i - 1 \in P PROVE i \in P
  <2>1. i - 1 \in 0..n /\ i \in 0..n /\ i \in 1..Len(w)
    BY <1>1
  <2>2. s[i - 1] \in InBuffer /\ s[i] = readByte(s[i - 1], w[i]) /\ w[i] \in Bytes /\ w[i] # MSG_MARK
    BY <2>1, ElementOfSeq DEF Scan
  <2>3. s[i - 1].res = "more" /\ s[i - 1].state = "DESYN"
    BY <1>3
  <2>4. s[i].res = "more" /\ s[i].state = "DESYN"
    BY <2>2, <2>3, ByteRead
  <2>5. QED
    BY <2>1, <2>4
<1> HIDE DEF P
<1>4. 0..n \subseteq P
  BY <1>1, <1>2, <1>3, Induction
<1>5. n \in P
  BY <1>1, <1>4
<1>6. QED
  BY <1>5 DEF P

(* A scan from its byte d on.                                               *)
LEMMA ScanFrom ==
  ASSUME NEW w \in Seq(Bytes), NEW n \in 0..Len(w), NEW s, NEW r, Scan(s, r, w, n), NEW d \in 0..n
  PROVE  \E x : Scan(x, s[d], drop(w, d), n - d) /\ x[n - d] = s[n]
<1> DEFINE x == [i \in 0..n - d |-> s[d + i]]
           v == drop(w, d)
<1>1. Len(w) \in Nat /\ d \in Nat /\ n \in Nat /\ d \in 0..Len(w) /\ n - d \in Nat
  BY LenProperties
<1>2. \A i \in 1..Len(w) - d : v[i] = w[d + i]
  BY <1>1, Dropped
<1>3. s \in [0..n -> InBuffer] /\ \A i \in 1..n : s[i] = readByte(s[i - 1], w[i])
  BY DEF Scan
<1>4. x \in [0..n - d -> InBuffer]
  BY <1>1, <1>3
<1>5. \A i \in 0..n - d : x[i] = s[d + i]
  OBVIOUS
<1> HIDE DEF x, v
<1>6. x[0] = s[d] /\ x[n - d] = s[n]
  BY <1>1, <1>5
<1>7. ASSUME NEW i \in 1..n - d PROVE x[i] = readByte(x[i - 1], v[i])
  <2>1. /\ i \in 0..n - d /\ i - 1 \in 0..n - d /\ d + i \in 1..n /\ d + (i - 1) = (d + i) - 1
        /\ i \in 1..Len(w) - d
    BY <1>1
  <2>2. x[i] = s[d + i] /\ x[i - 1] = s[(d + i) - 1] /\ v[i] = w[d + i]
    BY <1>2, <1>5, <2>1
  <2>3. s[d + i] = readByte(s[(d + i) - 1], w[d + i])
    BY <1>3, <2>1
  <2>4. QED
    BY <2>2, <2>3
<1>8. Scan(x, s[d], v, n - d)
  BY <1>4, <1>6, <1>7 DEF Scan
<1>9. QED
  BY <1>6, <1>8 DEF v

(* Unless the reader fails, a frame that was expected still is, or is read. *)
LEMMA StillExpected ==
  ASSUME NEW w \in Seq(Bytes), NEW n \in 0..Len(w), NEW s, NEW r, Scan(s, r, w, n),
         Expected(r, w, 1), s[n].res # "ENXIO"
  PROVE  Expected(s[n], w, n + 1)
<1>1. Len(w) \in Nat /\ n \in Nat
  BY LenProperties
<1> DEFINE P == {i \in 0..n : s[i].res # "ENXIO" => Expected(s[i], w, i + 1)}
<1>2. 0 \in P
  <2>1. s[0] = r /\ 0 + 1 = 1 /\ 0 \in 0..n
    BY <1>1 DEF Scan
  <2>2. QED
    BY <2>1
<1>3. ASSUME NEW i \in 1..n, i - 1 \in P PROVE i \in P
  <2> DEFINE q == s[i - 1]
             x == s[i]
             c == w[i]
  <2>1. i \in 1..n /\ i - 1 \in 0..n /\ i \in 0..n /\ i \in 1..Len(w) /\ (i - 1) + 1 = i
    BY <1>1
  <2>2. q \in InBuffer /\ x \in InBuffer /\ x = readByte(q, c) /\ c \in Bytes
    BY <2>1, ElementOfSeq DEF Scan
  <2>3. q.res # "ENXIO" => Expected(q, w, i)
    BY <1>3, <2>1
  <2> HIDE DEF q, x
  <2>4. q.res \in {"more", "ENXIO", "frame"} /\ q.state \in {"DESYN", "FRAME"}
    BY <2>2 DEF InBuffer, Reader
  <2>5. ASSUME x.res # "ENXIO" PROVE Expected(x, w, i + 1)
    <3>1. CASE q.res # "more"
      <4>1. x = q
        BY <2>2, <3>1, ByteRead
      <4>2. QED
        BY <2>4, <2>5, <3>1, <4>1 DEF Expected
    <3>2. CASE q.res = "more" /\ q.state = "FRAME"
      <4>1. x.state = "FRAME" \/ x.res = "frame"
        BY <2>2, <2>5, <3>2, ByteRead
      <4>2. QED
        BY <4>1 DEF Expected
    <3>3. CASE q.res = "more" /\ q.state = "DESYN"
      <4>1. asked > 0 \/ ~noMark(w, i)
        BY <2>3, <3>3 DEF Expected
      <4>2. CASE c = MSG_MARK
        <5>1. x.state = "FRAME"
          BY <2>2, <3>3, <4>2, ByteRead
        <5>2. QED
          BY <5>1 DEF Expected
      <4>3. CASE ~noMark(w, i) /\ c # MSG_MARK
        <5>1. PICK j \in i..Len(w) : w[j] = MSG_MARK
          BY <4>3 DEF noMark
        <5>2. j \in i + 1..Len(w)
          BY <1>1, <2>1, <4>3, <5>1
        <5>3. QED
          BY <5>1, <5>2 DEF Expected, noMark
      <4>4. CASE asked > 0
        BY <4>4 DEF Expected
      <4>5. QED
        BY <4>1, <4>2, <4>3, <4>4
    <3>4. QED
      BY <2>4, <3>1, <3>2, <3>3
  <2>6. QED
    BY <2>1, <2>5 DEF x
<1> HIDE DEF P
<1>4. 0..n \subseteq P
  BY <1>1, <1>2, <1>3, Induction
<1>5. n \in P
  BY <1>1, <1>4
<1>6. QED
  BY <1>5 DEF P

(* There is still one frame at most.                                        *)
LEMMA StillSingle ==
  ASSUME NEW w \in Seq(Bytes), NEW n \in 0..Len(w), NEW s, NEW r, Scan(s, r, w, n), Single(r, w, 1)
  PROVE  Single(s[n], w, n + 1)
<1>1. Len(w) \in Nat /\ n \in Nat
  BY LenProperties
<1> DEFINE P == {i \in 0..n : Single(s[i], w, i + 1)}
<1>2. 0 \in P
  <2>1. s[0] = r /\ 0 + 1 = 1 /\ 0 \in 0..n
    BY <1>1 DEF Scan
  <2>2. QED
    BY <2>1
<1>3. ASSUME NEW i \in 1..n, i - 1 \in P PROVE i \in P
  <2> DEFINE q == s[i - 1]
             x == s[i]
             c == w[i]
  <2>1. i \in 1..n /\ i - 1 \in 0..n /\ i \in 0..n /\ i \in 1..Len(w) /\ (i - 1) + 1 = i
    BY <1>1
  <2>2. q \in InBuffer /\ x = readByte(q, c) /\ c \in Bytes
    BY <2>1, ElementOfSeq DEF Scan
  <2>3. Single(q, w, i)
    BY <1>3, <2>1
  <2>4. i \in i..Len(w) /\ \A j \in i + 1..Len(w) : j \in i..Len(w) /\ j # i
    BY <1>1, <2>1
  <2>5. oneMark(w, i + 1) /\ (noMark(w, i) => noMark(w, i + 1) /\ c # MSG_MARK)
    BY <2>3, <2>4 DEF Single, oneMark, noMark
  <2>6. c = MSG_MARK => noMark(w, i + 1)
    BY <2>3, <2>4 DEF Single, oneMark, noMark
  <2> HIDE DEF q, x, c
  <2>7. q.res \in {"more", "ENXIO", "frame"} /\ q.state \in {"DESYN", "FRAME"}
    BY <2>2 DEF InBuffer, Reader
  <2>8. CASE q.res # "more"
    <3>1. x = q
      BY <2>2, <2>8, ByteRead
    <3>2. QED
      BY <2>1, <2>3, <2>5, <2>8, <3>1 DEF Single, x
  <2>9. CASE q.res = "more" /\ q.state = "FRAME"
    <3>1. noMark(w, i + 1) /\ c # MSG_MARK
      BY <2>3, <2>5, <2>9 DEF Single
    <3>2. x.res # "more" => x.state = "DESYN"
      BY <2>2, <2>9, <3>1, ByteRead
    <3>3. Single(x, w, i + 1)
      BY <2>5, <3>1, <3>2 DEF Single
    <3>4. QED
      BY <2>1, <3>3 DEF x
  <2>10. CASE q.res = "more" /\ q.state = "DESYN"
    <3>1. x.res = "more" /\ (x.state = "FRAME" => c = MSG_MARK)
      BY <2>2, <2>10, ByteRead
    <3>2. Single(x, w, i + 1)
      BY <2>5, <2>6, <3>1 DEF Single
    <3>3. QED
      BY <2>1, <3>2 DEF x
  <2>11. QED
    BY <2>7, <2>8, <2>9, <2>10
<1> HIDE DEF P
<1>4. 0..n \subseteq P
  BY <1>1, <1>2, <1>3, Induction
<1>5. n \in P
  BY <1>1, <1>4
<1>6. QED
  BY <1>5 DEF P

(* Marks behind the bytes that were read.                                   *)
LEMMA MarksLeft ==
  ASSUME NEW w \in Seq(Bytes), NEW n \in 0..Len(w)
  PROVE  /\ noMark(drop(w, n), 1) <=> noMark(w, n + 1)
         /\ oneMark(w, n + 1) => oneMark(drop(w, n), 1)
<1> DEFINE v == drop(w, n)
<1>1. Len(v) = Len(w) - n /\ Len(w) \in Nat /\ \A i \in 1..Len(w) - n : v[i] = w[n + i]
  BY Dropped
<1> HIDE DEF v
<1>2. \A i \in 1..Len(v) : v[i] = w[n + i] /\ n + i \in n + 1..Len(w)
  BY <1>1
<1>3. ASSUME NEW j \in n + 1..Len(w) PROVE j - n \in 1..Len(v) /\ n + (j - n) = j
  BY <1>1
<1>4. noMark(w, n + 1) => noMark(v, 1)
  BY <1>2 DEF noMark
<1>5. noMark(v, 1) => noMark(w, n + 1)
  <2> SUFFICES ASSUME noMark(v, 1), NEW j \in n + 1..Len(w) PROVE w[j] # MSG_MARK
    BY DEF noMark
  <2>1. v[j - n] = w[n + (j - n)] /\ v[j - n] # MSG_MARK
    BY <1>2, <1>3 DEF noMark
  <2>2. QED
    BY <1>3, <2>1
<1>6. oneMark(w, n + 1) => oneMark(v, 1)
  <2> SUFFICES ASSUME oneMark(w, n + 1), NEW j \in 1..Len(v), NEW k \in 1..Len(v),
                      v[j] = MSG_MARK, v[k] = MSG_MARK
               PROVE  j = k
    BY DEF oneMark
  <2>1. n + j = n + k
    BY <1>2 DEF oneMark
  <2>2. QED
    BY <2>1
<1>7. QED
  BY <1>4, <1>5, <1>6 DEF v

(* A reply that is on its way undamaged is read, or still is on its way.    *)
LEMMA StillComing ==
  ASSUME wire \in Seq(Bytes), rx.res = "more", Coming, NEW n \in 1..Len(wire), NEW s,
         Scan(s, rx, wire, n)
  PROVE  /\ s[n].res # "ENXIO"
         /\ s[n].res = "more" =>
              /\ \E e \in 0..Len(drop(wire, n)) : Undamaged(s[n], drop(wire, n), e)
              /\ Expected(s[n], drop(wire, n), 1)
<1> DEFINE r == s[n]
           w == drop(wire, n)
<1>1. Len(wire) \in Nat /\ n \in Nat /\ n \in 0..Len(wire)
  BY LenProperties
<1>2. /\ w \in Seq(Bytes) /\ Len(w) = Len(wire) - n
      /\ \A i \in 1..Len(wire) - n : w[i] = wire[n + i]
  BY <1>1, Dropped
<1>3. PICK d \in 0..Len(wire) : Undamaged(rx, wire, d)
  BY DEF Coming
<1>4. r.res # "ENXIO" /\ (r.res = "more" => \E e \in 0..Len(w) : Undamaged(r, w, e))
  <2>1. CASE n <= d
    <3>1. d > 0 /\ n \in 0..n /\ \A i \in 1..n : wire[i] # MSG_MARK
      BY <1>1, <1>3, <2>1 DEF Undamaged
    <3>2. waiting(rx)
      BY <1>3, <3>1 DEF Undamaged
    <3>3. waiting(r)
      BY <1>1, <3>1, <3>2, Skipped
    <3>4. d - n \in 0..Len(wire) - n /\ n + (d - n) = d /\ d - n \in 0..Len(w)
      BY <1>1, <1>2, <2>1
    <3>5. drop(w, d - n) = drop(wire, d)
      BY <1>1, <3>4, DropDrop
    <3>6. \A i \in 1..d - n : w[i] # MSG_MARK
      <4> SUFFICES ASSUME NEW i \in 1..d - n PROVE w[i] # MSG_MARK
        OBVIOUS
      <4>1. i \in 1..Len(wire) - n /\ n + i \in 1..d
        BY <1>1, <2>1
      <4>2. QED
        BY <1>2, <1>3, <4>1 DEF Undamaged
    <3> HIDE DEF r, w
    <3>7. InStepWith(r, drop(w, d - n))
      <4>1. PICK v : v = drop(wire, d)
        OBVIOUS
      <4>2. PICK t : Tagged(v, t) /\ (Len(v) > 0 => ends(t[Len(v)]))
        BY <1>3, <4>1 DEF Undamaged, InStepWith
      <4>3. InStep(r, v, t, 1)
        BY <3>3 DEF InStep, waiting
      <4>4. QED
        BY <3>5, <4>1, <4>2, <4>3 DEF InStepWith
    <3>8. Undamaged(r, w, d - n)
      BY <3>3, <3>6, <3>7 DEF Undamaged
    <3>9. QED
      BY <3>3, <3>4, <3>8 DEF waiting
  <2>2. CASE d < n
    <3> DEFINE v == drop(wire, d)
               k == n - d
    <3>1. d \in 0..n /\ k \in Nat /\ k \in 0..Len(wire) - d /\ d + k = n
      BY <1>1, <2>2
    <3>2. PICK x : Scan(x, s[d], v, k) /\ x[k] = r
      BY <1>1, <3>1, ScanFrom
    <3>3. Len(v) = Len(wire) - d /\ v \in Seq(Bytes)
      BY Dropped
    <3>4. k \in 1..Len(v)
      BY <1>1, <2>2, <3>1, <3>3
    <3>5. InStepWith(s[d], v)
      <4>1. CASE d = 0
        BY <1>3, <4>1 DEF Undamaged, Scan
      <4>2. CASE d > 0
        <5>1. waiting(rx) /\ (\A i \in 1..d : wire[i] # MSG_MARK) /\ InStepWith(rx, v)
          BY <1>3, <4>2 DEF Undamaged
        <5>2. waiting(s[d])
          BY <1>1, <3>1, <5>1, Skipped
        <5> HIDE DEF v
        <5>3. PICK t : Tagged(v, t) /\ (Len(v) > 0 => ends(t[Len(v)]))
          BY <5>1 DEF InStepWith
        <5>4. InStep(s[d], v, t, 1)
          BY <5>2 DEF InStep, waiting
        <5>5. QED
          BY <5>3, <5>4 DEF InStepWith
      <4>3. QED
        BY <4>1, <4>2
    <3>6. drop(v, k) = w
      BY <3>1, DropDrop
    <3> HIDE DEF v, k
    <3>7. x[k].res # "ENXIO" /\ (x[k].res = "more" => InStepWith(x[k], drop(v, k)))
      BY <3>2, <3>4, <3>5, ReadInStep DEF drop
    <3>8. 0 \in 0..Len(w) /\ drop(w, 0) = w
      <4>1. 0 \in 0..Len(w) /\ 0 \in 0..Len(wire) - n /\ n + 0 = n
        BY <1>1, <1>2
      <4>2. QED
        BY <1>1, <4>1, DropDrop
    <3> HIDE DEF r, w
    <3>9. r.res = "more" => Undamaged(r, w, 0)
      BY <3>2, <3>6, <3>7, <3>8 DEF Undamaged
    <3>10. QED
      BY <3>2, <3>7, <3>8, <3>9
  <2>3. QED
    BY <1>1, <2>1, <2>2
<1>5. Expected(r, wire, n + 1)
  BY <1>1, <1>4, StillExpected DEF Coming
<1>6. Expected(r, w, 1)
  BY <1>1, <1>5, MarksLeft DEF Expected
<1>7. QED
  BY <1>4, <1>6

(* The numbers of the argument are numbers.                                 *)
LEMMA PaidTypes ==
  ASSUME MsgInv, Counted
  PROVE  /\ retr \in Nat /\ budget \in Nat /\ cost \in {1, 2} /\ loss \in Nat /\ noise \in Nat
         /\ late \in Nat /\ bigEndian \in BOOLEAN /\ swapped \in BOOLEAN /\ asked \in Nat
         /\ wire \in Seq(Bytes) /\ Len(wire) \in Nat /\ rx \in InBuffer /\ rx.res = "more"
<1>1. /\ loss \in Nat /\ noise \in Nat /\ late \in Nat /\ wire \in Seq(Bytes) /\ asked \in Nat
      /\ bigEndian \in BOOLEAN /\ swapped \in BOOLEAN /\ rx \in InBuffer /\ rx.res = "more"
      /\ retr \in 0..MSGRECV_MAXRETR
  BY DEF MsgInv, TypeOK, Counts, Counted, Reading
<1>2. retr \in Nat
  BY <1>1
<1>3. budget \in Nat /\ cost \in {1, 2}
  BY <1>1 DEF budget, cost
<1>4. Len(wire) \in Nat
  BY <1>1, LenProperties
<1>5. QED
  BY <1>1, <1>2, <1>3, <1>4

(* An attempt fails that is paid for: there is another one.                 *)
LEMMA FailurePaid ==
  ASSUME Enough, retr \in Nat, result # "ENXIO", nextAttempt,
         loss' \in Nat, noise' \in Nat, Counted', retr + 1 <= budget',
         swapped' => retr + 2 <= budget'
  PROVE  Paid'
<1> SUFFICES ASSUME Bearable' PROVE Paid'
  BY DEF Paid
<1>1. late' \in Nat /\ late' + loss' + noise' <= MaxMishaps
  BY DEF Counted
<1>2. MSGRECV_MAXRETR \in Nat /\ MaxMishaps \in Nat /\ MaxMishaps < MSGRECV_MAXRETR /\ MSGRECV_MAXRETR >= 3
  BY MsgAssumption DEF Enough
<1>3. retr + 1 < MSGRECV_MAXRETR
  <2>1. PICK l \in Nat : l = loss'
    OBVIOUS
  <2>2. PICK a \in Nat : a = late'
    BY <1>1
  <2>3. PICK k : k = budget'
    OBVIOUS
  <2>4. retr + 1 <= k
    BY <2>3
  <2>5. l + a <= MaxMishaps
    <3>1. PICK n \in Nat : n = noise'
      OBVIOUS
    <3>2. a + l + n <= MaxMishaps
      BY <1>1, <2>1, <2>2, <3>1
    <3>3. QED
      BY <1>2, <3>2
  <2>6. CASE bigEndian'
    <3>1. l + a <= 1 /\ k = 2 * (l + a)
      BY <2>1, <2>2, <2>3, <2>6 DEF Bearable, budget
    <3>2. QED
      BY <1>2, <2>4, <3>1
  <2>7. CASE ~bigEndian'
    <3>1. k = l + a
      BY <2>1, <2>2, <2>3, <2>7 DEF budget
    <3>2. QED
      BY <1>2, <2>4, <2>5, <3>1
  <2>8. QED
    BY <2>6, <2>7
<1>4. pc' = "write" /\ result' = result /\ retr' = retr + 1
  BY <1>3 DEF nextAttempt
<1>5. retr' <= budget' /\ (swapped' => retr' + 1 <= budget')
  <2>1. (retr + 1) + 1 = retr + 2
    OBVIOUS
  <2>2. QED
    BY <1>4, <2>1
<1>6. QED
  BY <1>4, <1>5 DEF Paid

(* msg_send begins.                                                         *)
LEMMA PaySend ==
  ASSUME MsgInv, PaidInv, msg_send
  PROVE  PaidInv'
<1>1. /\ pc = "idle" /\ pc' = "write" /\ retr' = 0 /\ swapped' = FALSE /\ rx' = fresh("DESYN")
      /\ UNCHANGED <<bigEndian, result, asked, wire, late, loss, noise>>
  BY DEF msg_send
<1>2. budget' = budget /\ budget \in Nat /\ (Bearable' => Bearable)
  BY <1>1, PaidTypes DEF budget, Bearable, PaidInv
<1>3. Counted' /\ Swaps'
  BY <1>1 DEF PaidInv, Counted, Swaps
<1>4. Calm'
  BY <1>1 DEF PaidInv, Calm, noMark
<1>5. Paid'
  <2>1. Bearable' => result' # "ENXIO" /\ retr' <= budget'
    BY <1>1, <1>2 DEF PaidInv, Paid
  <2>2. QED
    BY <1>1, <2>1 DEF Paid
<1>6. QED
  BY <1>3, <1>4, <1>5 DEF PaidInv

(* The request is on its way: its reply will come.                          *)
LEMMA RequestComing ==
  ASSUME MsgInv, PaidInv, Bearable, pc = "write", asked' > 0, UNCHANGED <<rx, wire>>
  PROVE  Coming'
<1>0. wire \in Seq(Bytes) /\ Len(wire) \in Nat /\ rx.res = "more"
  BY PaidTypes DEF PaidInv
<1>1. Expected(rx, wire, 1)'
  BY DEF Expected
<1>2. \E d \in 0..Len(wire) : Undamaged(rx, wire, d)
  <2>1. CASE loss = 0
    <3>1. InStepWith(rx, wire)
      BY <2>1 DEF MsgInv, InSync, Quiet, Bearable
    <3>2. drop(wire, 0) = wire /\ 0 \in 0..Len(wire)
      <4>1. SubSeq(wire, 1, Len(wire)) = wire
        BY <1>0, SubSeqFull
      <4>2. QED
        BY <1>0, <4>1 DEF drop
    <3>3. Undamaged(rx, wire, 0)
      BY <3>1, <3>2 DEF Undamaged
    <3>4. QED
      BY <3>2, <3>3
  <2>2. CASE late = 0
    <3>1. noMark(wire, 1) /\ rx = fresh("DESYN")
      BY <2>2 DEF PaidInv, Calm, Bearable
    <3>2. waiting(rx)
      BY <3>1 DEF waiting, fresh
    <3>3. Len(wire) \in 0..Len(wire)
      BY <1>0
    <3> DEFINE v == drop(wire, Len(wire))
               t == [i \in 1..0 |-> tag(0, 0, FALSE)]
    <3>4. v \in Seq(Bytes) /\ Len(v) = Len(wire) - Len(wire)
      BY <1>0, <3>3, Dropped
    <3> HIDE DEF v
    <3>5. Len(v) = 0
      BY <1>0, <3>4
    <3>6. Tagged(v, t) /\ ~(Len(v) > 0)
      BY <3>4, <3>5 DEF Tagged
    <3> HIDE DEF t
    <3>7. InStep(rx, v, t, 1)
      BY <3>2 DEF InStep, waiting
    <3>8. InStepWith(rx, v)
      BY <3>6, <3>7 DEF InStepWith
    <3>9. Undamaged(rx, wire, Len(wire))
      BY <3>1, <3>2, <3>8 DEF Undamaged, noMark, v
    <3>10. QED
      BY <3>3, <3>9
  <2>3. QED
    BY <2>1, <2>2 DEF Bearable
<1>3. QED
  BY <1>1, <1>2 DEF Coming, Undamaged

(* msg_write writes the request, or fails.                                  *)
LEMMA PayWrite ==
  ASSUME Enough, MsgInv, PaidInv, msg_write
  PROVE  PaidInv'
<1>0. /\ retr \in Nat /\ budget \in Nat /\ cost \in {1, 2} /\ loss \in Nat /\ noise \in Nat
      /\ late \in Nat /\ bigEndian \in BOOLEAN /\ swapped \in BOOLEAN /\ asked \in Nat
      /\ wire \in Seq(Bytes) /\ Len(wire) \in Nat /\ rx \in InBuffer /\ rx.res = "more"
  BY PaidTypes DEF PaidInv
<1>1. /\ pc = "write" /\ swapped' = (bigEndian /\ ~swapped)
      /\ UNCHANGED <<bigEndian, rx, wire, late, noise>>
  BY DEF msg_write
<1>2. Swaps' /\ (swapped => bigEndian) /\ late + loss + noise <= MaxMishaps
  BY <1>1 DEF PaidInv, Swaps, Counted
<1>3. (Bearable => result # "ENXIO" /\ retr <= budget /\ (swapped => retr + 1 <= budget))
  BY <1>1 DEF PaidInv, Paid
<1>4. late = 0 /\ noise = 0 => asked = 0 /\ noMark(wire, 1) /\ rx = fresh("DESYN")
  BY <1>1 DEF PaidInv, Calm
<1>5. late = 0 /\ noise = 0 => Single(rx, wire, 1) /\ rx.state = "DESYN"
  BY <1>4 DEF Single, oneMark, noMark, fresh
<1>6. ASSUME loss' \in {loss, loss + 1}
      PROVE  /\ Bearable' => Bearable
             /\ loss' = loss => budget' = budget
             /\ loss' = loss + 1 => budget' = budget + cost
  <2>1. Bearable' => Bearable
    <3>0. late' = late /\ loss \in Nat /\ late \in Nat /\ (loss' = loss \/ loss' = loss + 1)
      BY <1>0, <1>1, <1>6
    <3>1. loss' = 0 \/ late' = 0 => loss = 0 \/ late = 0
      BY <3>0
    <3>2. loss' + late' <= 1 => loss + late <= 1
      BY <3>0
    <3>3. QED
      BY <1>1, <3>1, <3>2 DEF Bearable
  <2>2. loss' = loss => budget' = budget
    BY <1>1 DEF budget
  <2>3. loss' = loss + 1 => budget' = budget + cost
    BY <1>0, <1>1 DEF budget, cost
  <2>4. QED
    BY <2>1, <2>2, <2>3
<1>7. CASE /\ pc' = "read" /\ asked' = (IF swapped THEN asked ELSE asked + 1)
           /\ UNCHANGED <<retr, result, loss>>
  <2>1. Counted'
    BY <1>0, <1>1, <1>2, <1>7 DEF Counted
  <2>2. Calm'
    <3>1. late = 0 /\ noise = 0 => asked' = 0 \/ asked' = 1
      BY <1>4, <1>7
    <3>2. late = 0 /\ noise = 0 => Single(rx, wire, 1)' /\ noMark(wire, 1)' /\ rx'.state = "DESYN"
      BY <1>1, <1>4, <1>5 DEF Single, noMark, oneMark
    <3>3. QED
      BY <1>1, <1>7, <3>1, <3>2 DEF Calm
  <2>3. Paid'
    <3> SUFFICES ASSUME Bearable' PROVE Paid'
      BY DEF Paid
    <3>1. Bearable /\ budget' = budget
      BY <1>6, <1>7
    <3>2. CASE swapped
      <4>1. garbled' /\ retr' + 1 <= budget' /\ result' # "ENXIO"
        BY <1>1, <1>2, <1>3, <1>7, <3>1, <3>2 DEF garbled
      <4>2. QED
        BY <1>7, <4>1 DEF Paid
    <3>3. CASE ~swapped
      <4>1. ~garbled' /\ retr' <= budget' /\ result' # "ENXIO"
        BY <1>1, <1>3, <1>7, <3>1, <3>3 DEF garbled
      <4>2. asked' > 0
        BY <1>0, <1>7, <3>3
      <4>3. Coming'
        BY <1>1, <3>1, <4>2, RequestComing
      <4>4. QED
        BY <1>7, <4>1, <4>3 DEF Paid
    <3>4. QED
      BY <3>2, <3>3
  <2>4. QED
    BY <1>2, <2>1, <2>2, <2>3 DEF PaidInv
<1>8. CASE mishap /\ loss' = loss + 1 /\ pc' = "read" /\ UNCHANGED <<retr, result, asked>>
  <2>1. Counted'
    BY <1>0, <1>1, <1>8 DEF Counted, mishap, Enough
  <2>2. Calm'
    <3>1. late = 0 /\ noise = 0 => Single(rx, wire, 1)'
      BY <1>1, <1>5 DEF Single, noMark, oneMark
    <3>2. QED
      BY <1>1, <1>4, <1>8, <3>1 DEF Calm
  <2>3. Paid'
    <3> SUFFICES ASSUME Bearable' PROVE Paid'
      BY DEF Paid
    <3>1. Bearable /\ budget' = budget + cost /\ cost' = cost
      BY <1>0, <1>1, <1>6, <1>8 DEF cost
    <3>2. CASE swapped
      <4>1. garbled' /\ retr + 1 <= budget /\ result' # "ENXIO"
        BY <1>1, <1>2, <1>3, <1>8, <3>1, <3>2 DEF garbled
      <4>2. retr' + 1 <= budget'
        BY <1>0, <1>8, <3>1, <4>1
      <4>3. QED
        BY <1>8, <4>1, <4>2 DEF Paid
    <3>3. CASE ~swapped
      <4>1. ~garbled' /\ retr <= budget /\ result' # "ENXIO"
        BY <1>1, <1>3, <1>8, <3>1, <3>3 DEF garbled
      <4>2. retr' + cost' <= budget'
        BY <1>0, <1>8, <3>1, <4>1
      <4>3. QED
        BY <1>8, <4>1, <4>2 DEF Paid
    <3>4. QED
      BY <3>2, <3>3
  <2>4. QED
    BY <1>2, <2>1, <2>2, <2>3 DEF PaidInv
<1>9. CASE mishap /\ loss' = loss + 1 /\ nextAttempt /\ UNCHANGED asked
  <2>1. Counted' /\ loss' \in Nat /\ noise' \in Nat
    BY <1>0, <1>1, <1>9 DEF Counted, mishap, Enough
  <2>2. pc' # "read"
    BY <1>9 DEF nextAttempt
  <2>3. Calm'
    BY <1>1, <1>4, <1>9, <2>2 DEF Calm, noMark
  <2>4. Paid'
    <3> SUFFICES ASSUME Bearable' PROVE Paid'
      BY DEF Paid
    <3>1. Bearable /\ budget' = budget + cost
      BY <1>6, <1>9
    <3>2. result # "ENXIO" /\ retr <= budget /\ (swapped => retr + 1 <= budget)
      BY <1>3, <3>1
    <3>3. retr + 1 <= budget'
      BY <1>0, <3>1, <3>2
    <3>4. swapped' => retr + 2 <= budget'
      <4> SUFFICES ASSUME swapped' PROVE retr + 2 <= budget'
        OBVIOUS
      <4>1. cost = 2
        BY <1>1 DEF cost
      <4>2. QED
        BY <1>0, <3>1, <3>2, <4>1
    <3>5. QED
      BY <1>0, <1>9, <2>1, <3>2, <3>3, <3>4, FailurePaid
  <2>5. QED
    BY <1>2, <2>1, <2>3, <2>4 DEF PaidInv
<1>10. QED
  BY <1>7, <1>8, <1>9 DEF msg_write

(* An attempt to read fails.                                                *)
LEMMA PayFailure ==
  ASSUME Enough, MsgInv, PaidInv, pc = "read", nextAttempt, Counted',
         UNCHANGED <<bigEndian, swapped, loss, noise>>,
         (late' = late /\ ~Coming) \/ late' = late + 1
  PROVE  Paid'
<1>0. /\ retr \in Nat /\ budget \in Nat /\ cost \in {1, 2} /\ loss \in Nat /\ noise \in Nat
      /\ late \in Nat
  BY PaidTypes DEF PaidInv
<1> SUFFICES ASSUME Bearable' PROVE Paid'
  BY DEF Paid
<1>1. Bearable
  BY <1>0 DEF Bearable
<1>2. budget' = budget \/ budget' = budget + cost
  BY <1>0 DEF budget, cost
<1>3. late' = late + 1 => budget' = budget + cost
  BY <1>0 DEF budget, cost
<1>4. /\ result # "ENXIO"
      /\ ~garbled => (Coming /\ retr <= budget) \/ retr + cost <= budget
      /\ garbled => retr + 1 <= budget
  BY <1>1 DEF PaidInv, Paid
<1>5. CASE garbled
  <2>1. retr + 1 <= budget /\ ~swapped'
    BY <1>4, <1>5 DEF garbled
  <2>2. retr + 1 <= budget'
    BY <1>0, <1>2, <2>1
  <2>3. QED
    BY <1>0, <1>4, <2>1, <2>2, FailurePaid
<1>6. CASE ~garbled
  <2>1. retr + cost <= budget'
    <3>1. CASE late' = late /\ ~Coming
      <4>1. retr + cost <= budget
        BY <1>4, <1>6, <3>1
      <4>2. QED
        BY <1>0, <1>2, <4>1
    <3>2. CASE late' = late + 1
      <4>1. retr <= budget
        BY <1>0, <1>4, <1>6
      <4>2. QED
        BY <1>0, <1>3, <3>2, <4>1
    <3>3. QED
      BY <3>1, <3>2
  <2>2. budget' \in Nat
    BY <1>0, <1>2
  <2>3. retr + 1 <= budget'
    BY <1>0, <2>1, <2>2
  <2>4. swapped' => cost = 2
    BY DEF PaidInv, Swaps, cost
  <2>5. swapped' => retr + 2 <= budget'
    BY <2>1, <2>4
  <2>6. QED
    BY <1>0, <1>4, <2>3, <2>5, FailurePaid
<1>7. QED
  BY <1>5, <1>6

(* devs_read gives up.                                                      *)
LEMMA PayTimeout ==
  ASSUME Enough, MsgInv, PaidInv, timeout
  PROVE  PaidInv'
<1>0. /\ loss \in Nat /\ noise \in Nat /\ late \in Nat /\ wire \in Seq(Bytes) /\ rx.res = "more"
      /\ asked \in Nat
  BY PaidTypes DEF PaidInv
<1>1. /\ pc = "read" /\ rx' = fresh("DESYN") /\ nextAttempt
      /\ UNCHANGED <<bigEndian, swapped, asked, wire, loss, noise>>
      /\ \/ wire = <<>> /\ asked = 0 /\ late' = late
         \/ mishap /\ late' = late + 1
  BY DEF timeout
<1>2. Swaps'
  BY <1>1 DEF PaidInv, Swaps
<1>3. Counted'
  BY <1>0, <1>1 DEF PaidInv, Counted, mishap, Enough
<1>4. pc' # "read"
  BY <1>1 DEF nextAttempt
<1>5. Calm'
  <2> SUFFICES ASSUME late' = 0, noise' = 0 PROVE Calm'
    BY DEF Calm
  <2>1. wire = <<>> /\ asked = 0
    BY <1>0, <1>1
  <2>2. noMark(wire, 1)'
    <3>1. wire' = <<>> /\ Len(wire') = 0
      BY <1>1, <2>1
    <3>2. QED
      BY <3>1 DEF noMark
  <2>3. QED
    BY <1>1, <1>4, <2>1, <2>2 DEF Calm
<1>6. ASSUME wire = <<>>, asked = 0 PROVE ~Coming
  <2> SUFFICES ASSUME Coming PROVE FALSE
    OBVIOUS
  <2>1. Len(wire) = 0
    BY <1>6
  <2>2. rx.state = "FRAME"
    BY <1>0, <1>6, <2>1 DEF Coming, Expected, noMark
  <2>3. PICK d \in 0..Len(wire) : Undamaged(rx, wire, d)
    BY DEF Coming
  <2>4. d = 0
    BY <2>1, <2>3
  <2>5. InStepWith(rx, drop(wire, 0)) /\ 0 \in 0..Len(wire)
    BY <2>1, <2>3, <2>4 DEF Undamaged
  <2>6. Len(drop(wire, 0)) = 0
    <3>1. Len(drop(wire, 0)) = Len(wire) - 0
      BY <1>0, <2>5, Dropped
    <3>2. QED
      BY <2>1, <3>1
  <2>7. PICK t : InStep(rx, drop(wire, 0), t, 1)
    BY <2>5 DEF InStepWith
  <2>8. 1 <= Len(drop(wire, 0))
    BY <1>0, <2>2, <2>7 DEF InStep
  <2>9. QED
    BY <2>6, <2>8
<1>7. Paid'
  BY <1>1, <1>3, <1>6, PayFailure
<1>8. QED
  BY <1>2, <1>3, <1>5, <1>7 DEF PaidInv

(* msg_read reads what has come.                                            *)
LEMMA PayRead ==
  ASSUME Enough, MsgInv, PaidInv, readSome
  PROVE  PaidInv'
<1>0. /\ loss \in Nat /\ noise \in Nat /\ late \in Nat /\ wire \in Seq(Bytes) /\ rx.res = "more"
      /\ asked \in Nat /\ rx \in InBuffer /\ Len(wire) \in Nat
  BY PaidTypes DEF PaidInv
<1>1. PICK n \in 1..Len(wire) : msg_read(n)
  BY DEF readSome
<1>2. PICK s : Scan(s, rx, wire, n) /\ scanned(n) = s[n]
  BY <1>0, ScanExists
<1> DEFINE r == s[n]
           w == drop(wire, n)
<1>3. /\ wire' = w /\ pc = "read" /\ UNCHANGED <<bigEndian, swapped, asked, late, loss, noise>>
      /\ \/ r.res = "more" /\ rx' = r /\ UNCHANGED <<pc, retr, result>>
         \/ r.res = "frame" /\ rx' = fresh("DESYN") /\ pc' = "idle" /\ result' = "EOK"
         \/ r.res = "ENXIO" /\ rx' = fresh(r.state) /\ nextAttempt
  BY <1>1, <1>2 DEF msg_read, drop
<1>4. Swaps' /\ Counted' /\ (Bearable' <=> Bearable) /\ budget' = budget /\ cost' = cost
      /\ (garbled' <=> garbled)
  BY <1>3 DEF PaidInv, Swaps, Counted, Bearable, budget, cost, garbled
<1>5. n \in 0..Len(wire) /\ n \in 0..n
  BY <1>0
<1>6. late = 0 /\ noise = 0 => /\ Single(r, wire, n + 1)
                               /\ asked > 0 => asked = 1 /\ noMark(wire, 1) /\ rx.state = "DESYN"
  BY <1>0, <1>2, <1>3, <1>5, StillSingle DEF PaidInv, Calm
<1>7. /\ noMark(w, 1) <=> noMark(wire, n + 1)
      /\ oneMark(wire, n + 1) => oneMark(w, 1)
  BY <1>0, <1>5, MarksLeft
<1>8. late = 0 /\ noise = 0 => Single(r, w, 1)
  BY <1>6, <1>7 DEF Single
<1>9. late = 0 /\ noise = 0 /\ asked > 0 =>
        asked = 1 /\ noMark(w, 1) /\ r.state = "DESYN" /\ r.res = "more"
  <2> SUFFICES ASSUME late = 0, noise = 0, asked > 0
               PROVE  asked = 1 /\ noMark(w, 1) /\ r.state = "DESYN" /\ r.res = "more"
    OBVIOUS
  <2>1. asked = 1 /\ noMark(wire, 1) /\ rx.state = "DESYN"
    BY <1>6
  <2>2. noMark(wire, n + 1)
    <3>1. \A j \in n + 1..Len(wire) : j \in 1..Len(wire)
      BY <1>0
    <3>2. QED
      BY <2>1, <3>1 DEF noMark
  <2>3. r.state = "DESYN" /\ r.res = "more"
    <3>1. \A i \in 1..n : i \in 1..Len(wire)
      BY <1>0
    <3>2. \A i \in 1..n : wire[i] # MSG_MARK
      BY <2>1, <3>1 DEF noMark
    <3> HIDE DEF r
    <3>3. QED
      BY <1>0, <1>2, <1>5, <2>1, <3>2, IdleSkipped DEF r
  <2>4. QED
    BY <1>7, <2>1, <2>2, <2>3
<1> HIDE DEF r, w
<1>10. CASE r.res = "more" /\ rx' = r /\ UNCHANGED <<pc, retr, result>>
  <2>1. Calm'
    <3> SUFFICES ASSUME late' = 0, noise' = 0 PROVE Calm'
      BY DEF Calm
    <3>1. Single(r, w, 1) /\ (asked > 0 => asked = 1 /\ noMark(w, 1) /\ r.state = "DESYN")
      BY <1>3, <1>8, <1>9
    <3>2. Single(rx, wire, 1)' /\ (noMark(w, 1) => noMark(wire, 1)')
      BY <1>3, <1>10, <3>1 DEF Single, noMark, oneMark
    <3>3. QED
      BY <1>3, <1>10, <3>1, <3>2 DEF Calm
  <2>2. Coming => Coming'
    <3> SUFFICES ASSUME Coming PROVE Coming'
      OBVIOUS
    <3>1. (\E e \in 0..Len(w) : Undamaged(r, w, e)) /\ Expected(r, w, 1)
      BY <1>0, <1>2, <1>10, StillComing DEF r, w
    <3>2. QED
      BY <1>3, <1>10, <3>1 DEF Coming, Undamaged, Expected, noMark
  <2>3. Paid'
    <3> SUFFICES ASSUME Bearable' PROVE Paid'
      BY DEF Paid
    <3>1. /\ result # "ENXIO"
          /\ ~garbled => (Coming /\ retr <= budget) \/ retr + cost <= budget
          /\ garbled => retr + 1 <= budget
      BY <1>3, <1>4 DEF PaidInv, Paid
    <3>2. pc' = "read" /\ retr' = retr /\ result' = result
      BY <1>3, <1>10
    <3>3. QED
      BY <1>4, <2>2, <3>1, <3>2 DEF Paid
  <2>4. QED
    BY <1>4, <2>1, <2>3 DEF PaidInv
<1>11. ASSUME r.res # "more", pc' # "read", rx' = fresh("DESYN") \/ rx' = fresh(r.state)
       PROVE  Calm'
  <2> SUFFICES ASSUME late' = 0, noise' = 0 PROVE Calm'
    BY DEF Calm
  <2>1. Single(r, w, 1) /\ ~(asked > 0)
    BY <1>3, <1>8, <1>9, <1>11
  <2>2. noMark(w, 1) /\ r.state = "DESYN" /\ asked = 0
    BY <1>0, <1>11, <2>1 DEF Single
  <2>3. noMark(wire, 1)' /\ rx' = fresh("DESYN") /\ asked' = 0
    BY <1>3, <1>11, <2>2 DEF noMark
  <2>4. QED
    BY <1>11, <2>3 DEF Calm
<1>12. CASE r.res = "frame" /\ rx' = fresh("DESYN") /\ pc' = "idle" /\ result' = "EOK"
  <2>1. Calm'
    BY <1>11, <1>12
  <2>2. Paid'
    BY <1>12 DEF Paid
  <2>3. QED
    BY <1>4, <2>1, <2>2 DEF PaidInv
<1>13. CASE r.res = "ENXIO" /\ rx' = fresh(r.state) /\ nextAttempt
  <2>1. pc' # "read"
    BY <1>13 DEF nextAttempt
  <2>2. Calm'
    BY <1>11, <1>13, <2>1
  <2>3. ~Coming
    BY <1>0, <1>2, <1>13, StillComing DEF r
  <2>4. Paid'
    BY <1>3, <1>4, <1>13, <2>3, PayFailure
  <2>5. QED
    BY <1>4, <2>2, <2>4 DEF PaidInv
<1>14. QED
  BY <1>3, <1>10, <1>12, <1>13

(* The host answers.                                                        *)
LEMMA PayAnswer ==
  ASSUME MsgInv, PaidInv, answer
  PROVE  PaidInv'
<1>0. /\ loss \in Nat /\ noise \in Nat /\ late \in Nat /\ wire \in Seq(Bytes) /\ rx.res = "more"
      /\ asked \in Nat /\ Len(wire) \in Nat
  BY PaidTypes DEF PaidInv
<1>1. /\ asked > 0 /\ asked' = asked - 1
      /\ UNCHANGED <<bigEndian, pc, retr, swapped, rx, result, late, loss, noise>>
  BY DEF answer
<1>2. PICK m \in Replies : wire' = wire \o frame(m)
  BY DEF answer
<1> DEFINE f == frame(m)
           w == wire \o f
<1>3. PICK u : Tagged(f, u) /\ Len(f) > 0 /\ u[1].k = -1 /\ MarkedOnce(f)
  BY FrameIsFramed
<1>4. f \in Seq(Bytes) /\ Len(f) \in Nat /\ f[1] = MSG_MARK
  <2>1. f \in Seq(Bytes) /\ Len(f) \in Nat
    BY <1>3, LenProperties DEF Tagged
  <2>2. 1 \in 1..Len(f)
    BY <1>3, <2>1
  <2>3. u[1] \in Tags /\ f[1] = byteAt(u[1])
    BY <1>3, <2>2 DEF Tagged
  <2>4. QED
    BY <1>3, <2>1, <2>3, ByteOfTag
<1> HIDE DEF f
<1>5. /\ w \in Seq(Bytes) /\ Len(w) = Len(wire) + Len(f)
      /\ \A i \in 1..Len(wire) + Len(f) : w[i] = IF i <= Len(wire) THEN wire[i] ELSE f[i - Len(wire)]
  BY <1>0, <1>4, ConcatProperties
<1>6. wire' = w
  BY <1>2 DEF f
<1>7. w[Len(wire) + 1] = MSG_MARK /\ Len(wire) + 1 \in 1..Len(w)
  <2>1. /\ Len(wire) + 1 \in 1..Len(wire) + Len(f) /\ ~(Len(wire) + 1 <= Len(wire))
        /\ (Len(wire) + 1) - Len(wire) = 1
    BY <1>0, <1>3, <1>4
  <2>2. QED
    BY <1>4, <1>5, <2>1
<1>8. noMark(wire, 1) => oneMark(w, 1)
  <2> SUFFICES ASSUME noMark(wire, 1), NEW j \in 1..Len(w), w[j] = MSG_MARK
               PROVE  j = Len(wire) + 1
    BY DEF oneMark
  <2>1. CASE j <= Len(wire)
    <3>1. w[j] = wire[j] /\ j \in 1..Len(wire)
      BY <1>0, <1>4, <1>5, <2>1
    <3>2. QED
      BY <3>1 DEF noMark
  <2>2. CASE j > Len(wire)
    <3>1. j - Len(wire) \in 1..Len(f) /\ w[j] = f[j - Len(wire)]
      BY <1>0, <1>4, <1>5, <2>2
    <3>2. ~(j - Len(wire) \in 2..Len(f))
      BY <1>3, <3>1 DEF MarkedOnce
    <3>3. QED
      BY <1>0, <1>4, <3>1, <3>2
  <2>3. QED
    BY <1>0, <1>5, <2>1, <2>2
<1> HIDE DEF w
<1>9. Swaps' /\ Counted' /\ (Bearable' <=> Bearable) /\ budget' = budget /\ cost' = cost
      /\ (garbled' <=> garbled)
  BY <1>1 DEF PaidInv, Swaps, Counted, Bearable, budget, cost, garbled
<1>10. Calm'
  <2> SUFFICES ASSUME late' = 0, noise' = 0 PROVE Calm'
    BY DEF Calm
  <2>1. pc = "read" /\ asked = 1 /\ noMark(wire, 1) /\ rx.state = "DESYN"
    BY <1>0, <1>1 DEF PaidInv, Calm
  <2>2. oneMark(wire, 1)'
    BY <1>6, <1>8, <2>1 DEF oneMark
  <2>3. Single(rx, wire, 1)'
    BY <1>0, <1>1, <2>1, <2>2 DEF Single
  <2>4. asked' = 0
    BY <1>1, <2>1
  <2>5. QED
    BY <1>1, <2>1, <2>3, <2>4 DEF Calm
<1>11. Coming => Coming'
  <2> SUFFICES ASSUME Coming PROVE Coming'
    OBVIOUS
  <2>1. PICK d \in 0..Len(wire) : Undamaged(rx, wire, d)
    BY DEF Coming
  <2>2. d \in 0..Len(w)
    BY <1>0, <1>4, <1>5
  <2>3. \A i \in 1..d : w[i] # MSG_MARK
    <3> SUFFICES ASSUME NEW i \in 1..d PROVE w[i] # MSG_MARK
      OBVIOUS
    <3>1. w[i] = wire[i]
      BY <1>0, <1>4, <1>5
    <3>2. QED
      BY <2>1, <3>1 DEF Undamaged
  <2>4. InStepWith(rx, drop(w, d))
    <3>1. drop(w, d) = drop(wire, d) \o f
      BY <1>0, <1>4, DropJoin DEF w
    <3>2. InStepWith(rx, drop(wire, d) \o frame(m))
      <4>1. InStepWith(rx, drop(wire, d))
        BY <2>1 DEF Undamaged
      <4>2. QED
        BY <1>0, <4>1, JoinInStep
    <3>3. QED
      BY <3>1, <3>2 DEF f
  <2>5. Undamaged(rx, w, d)
    BY <2>1, <2>3, <2>4 DEF Undamaged
  <2>6. ~noMark(w, 1)
    BY <1>7 DEF noMark
  <2>7. QED
    BY <1>1, <1>6, <2>2, <2>5, <2>6 DEF Coming, Undamaged, Expected, noMark
<1>12. Paid'
  BY <1>1, <1>9, <1>11 DEF PaidInv, Paid
<1>13. QED
  BY <1>9, <1>10, <1>12 DEF PaidInv

(* The line loses a byte, which pays for the attempt.                       *)
LEMMA PayLoss ==
  ASSUME Enough, MsgInv, PaidInv, loseByte
  PROVE  PaidInv'
<1>0. /\ retr \in Nat /\ budget \in Nat /\ cost \in {1, 2} /\ loss \in Nat /\ noise \in Nat
      /\ late \in Nat /\ wire \in Seq(Bytes) /\ Len(wire) \in Nat /\ rx.res = "more"
  BY PaidTypes DEF PaidInv
<1>1. /\ mishap /\ loss' = loss + 1
      /\ UNCHANGED <<bigEndian, pc, retr, swapped, rx, result, asked, late, noise>>
  BY DEF loseByte
<1>2. PICK k \in DOMAIN wire : wire' = RemoveAt(wire, k)
  BY DEF loseByte
<1>3. PICK w : w = wire'
  OBVIOUS
<1>4. k \in 1..Len(wire)
  BY <1>0, <1>2, LenProperties
<1>5. Len(w) = Len(wire) - 1 /\ \A i \in 1..Len(w) : w[i] = IF i < k THEN wire[i] ELSE wire[i + 1]
  <2> DEFINE x == SubSeq(wire, 1, k - 1)
             y == drop(wire, k)
  <2>1. k - 1 \in 0..Len(wire) /\ 1 \in Nat \ {0} /\ k \in 0..Len(wire) /\ k \in Nat
    BY <1>0, <1>4
  <2>2. x \in Seq(Bytes) /\ Len(x) = k - 1 /\ \A i \in 1..k - 1 : x[i] = wire[i]
    <3>1. \A i \in 1..k - 1 : wire[i] \in Bytes
      BY <1>0, <1>4, ElementOfSeq
    <3>2. /\ x \in Seq(Bytes) /\ Len(x) = IF 1 <= k - 1 THEN k - 1 - 1 + 1 ELSE 0
          /\ \A i \in 1..k - 1 - 1 + 1 : x[i] = wire[1 + i - 1]
      BY <1>0, <2>1, <3>1, SubSeqProperties
    <3> HIDE DEF x
    <3>3. Len(x) = k - 1
      BY <2>1, <1>4, <3>2
    <3>4. \A i \in 1..k - 1 : i \in 1..k - 1 - 1 + 1 /\ 1 + i - 1 = i
      BY <2>1
    <3>5. QED
      BY <3>2, <3>3, <3>4
  <2>3. y \in Seq(Bytes) /\ Len(y) = Len(wire) - k /\ \A i \in 1..Len(wire) - k : y[i] = wire[k + i]
    BY <1>0, <2>1, Dropped
  <2>4. w = x \o y
    BY <1>2, <1>3 DEF RemoveAt, drop
  <2> HIDE DEF x, y
  <2>5. /\ Len(w) = Len(x) + Len(y)
        /\ \A i \in 1..Len(x) + Len(y) : w[i] = IF i <= Len(x) THEN x[i] ELSE y[i - Len(x)]
    BY <2>2, <2>3, <2>4, ConcatProperties
  <2>6. Len(w) = Len(wire) - 1
    BY <1>0, <2>1, <2>2, <2>3, <2>5
  <2>7. ASSUME NEW i \in 1..Len(w) PROVE w[i] = IF i < k THEN wire[i] ELSE wire[i + 1]
    <3>1. w[i] = IF i <= Len(x) THEN x[i] ELSE y[i - Len(x)]
      BY <2>5
    <3>2. CASE i < k
      <4>1. i <= Len(x) /\ i \in 1..k - 1
        BY <2>1, <2>2, <3>2
      <4>2. QED
        BY <2>2, <3>1, <3>2, <4>1
    <3>3. CASE ~(i < k)
      <4>1. ~(i <= Len(x)) /\ i - Len(x) \in 1..Len(wire) - k /\ k + (i - Len(x)) = i + 1
        BY <1>0, <2>1, <2>2, <2>6, <3>3
      <4>2. y[i - Len(x)] = wire[k + (i - Len(x))]
        BY <2>3, <4>1
      <4>3. QED
        BY <3>1, <3>3, <4>1, <4>2
    <3>4. QED
      BY <3>2, <3>3
  <2>8. QED
    BY <2>6, <2>7
<1>6. noMark(wire, 1) => noMark(w, 1)
  <2> SUFFICES ASSUME noMark(wire, 1), NEW i \in 1..Len(w) PROVE w[i] # MSG_MARK
    BY DEF noMark
  <2>1. i \in 1..Len(wire) /\ i + 1 \in 1..Len(wire)
    BY <1>0, <1>5
  <2>2. QED
    BY <1>5, <2>1 DEF noMark
<1>7. oneMark(wire, 1) => oneMark(w, 1)
  <2> SUFFICES ASSUME oneMark(wire, 1), NEW i \in 1..Len(w), NEW j \in 1..Len(w),
                      w[i] = MSG_MARK, w[j] = MSG_MARK
               PROVE  i = j
    BY DEF oneMark
  <2> DEFINE a == IF i < k THEN i ELSE i + 1
             b == IF j < k THEN j ELSE j + 1
  <2>1. a \in 1..Len(wire) /\ b \in 1..Len(wire)
    BY <1>0, <1>4, <1>5
  <2>2. wire[a] = MSG_MARK /\ wire[b] = MSG_MARK
    BY <1>5
  <2>3. a = b
    BY <2>1, <2>2 DEF oneMark
  <2>4. QED
    BY <1>4, <2>3
<1>8. Swaps' /\ Counted' /\ budget' = budget + cost /\ cost' = cost /\ (garbled' <=> garbled)
  BY <1>0, <1>1 DEF PaidInv, Swaps, Counted, mishap, budget, cost, garbled, Enough
<1>9. Calm'
  <2> SUFFICES ASSUME late' = 0, noise' = 0 PROVE Calm'
    BY DEF Calm
  <2>1. /\ pc # "read" => asked = 0 /\ noMark(wire, 1) /\ rx = fresh("DESYN")
        /\ pc = "read" => /\ Single(rx, wire, 1)
                          /\ asked > 0 => asked = 1 /\ noMark(wire, 1) /\ rx.state = "DESYN"
    BY <1>1 DEF PaidInv, Calm
  <2>2. (noMark(wire, 1) => noMark(wire, 1)') /\ (oneMark(wire, 1) => oneMark(wire, 1)')
    BY <1>3, <1>6, <1>7 DEF noMark, oneMark
  <2>3. Single(rx, wire, 1) => Single(rx, wire, 1)'
    BY <1>1, <2>2 DEF Single
  <2>4. QED
    BY <1>1, <2>1, <2>2, <2>3 DEF Calm
<1>10. Paid'
  <2> SUFFICES ASSUME Bearable' PROVE Paid'
    BY DEF Paid
  <2>1. Bearable
    <3>0. late' = late /\ loss' = loss + 1 /\ loss \in Nat /\ late \in Nat
      BY <1>0, <1>1
    <3>1. loss' = 0 \/ late' = 0 => loss = 0 \/ late = 0
      BY <3>0
    <3>2. loss' + late' <= 1 => loss + late <= 1
      BY <3>0
    <3>3. QED
      BY <1>1, <3>1, <3>2 DEF Bearable
  <2>2. /\ result # "ENXIO"
        /\ pc = "write" => retr <= budget /\ (swapped => retr + 1 <= budget)
        /\ pc = "read" /\ ~garbled => (Coming /\ retr <= budget) \/ retr + cost <= budget
        /\ pc = "read" /\ garbled => retr + 1 <= budget
    BY <2>1 DEF PaidInv, Paid
  <2>3. PICK e \in Nat : e = budget' /\ e = budget + cost
    BY <1>0, <1>8
  <2>4. /\ pc = "write" => retr <= e /\ (swapped => retr + 1 <= e)
        /\ pc = "read" /\ ~garbled => retr + cost <= e
        /\ pc = "read" /\ garbled => retr + 1 <= e
    BY <1>0, <2>2, <2>3
  <2>5. QED
    BY <1>1, <1>8, <2>2, <2>3, <2>4 DEF Paid
<1>11. QED
  BY <1>8, <1>9, <1>10 DEF PaidInv

(* The line changes a byte, which is not borne.                             *)
LEMMA PayNoise ==
  ASSUME Enough, MsgInv, PaidInv, changeByte
  PROVE  PaidInv'
<1>0. loss \in Nat /\ noise \in Nat /\ late \in Nat
  BY PaidTypes DEF PaidInv
<1>1. mishap /\ noise' = noise + 1 /\ UNCHANGED <<bigEndian, swapped, late, loss>>
  BY DEF changeByte
<1>2. noise' # 0 /\ Counted'
  BY <1>0, <1>1 DEF Counted, mishap, Enough
<1>3. Swaps' /\ Calm' /\ Paid'
  BY <1>1, <1>2 DEF PaidInv, Swaps, Calm, Paid, Bearable
<1>4. QED
  BY <1>2, <1>3 DEF PaidInv

(* Nothing has failed at the beginning.                                     *)
LEMMA PaidStart ==
  ASSUME Enough, Init
  PROVE  PaidInv
<1>1. /\ pc = "idle" /\ swapped = FALSE /\ rx = fresh("DESYN") /\ result = "none"
      /\ asked = 0 /\ wire = <<>> /\ late = 0 /\ loss = 0 /\ noise = 0
  BY DEF Init
<1>2. Counted
  BY <1>1 DEF Counted, Enough
<1>3. noMark(wire, 1)
  <2>1. Len(wire) = 0
    BY <1>1
  <2>2. QED
    BY <2>1 DEF noMark
<1>4. QED
  BY <1>1, <1>2, <1>3 DEF PaidInv, Swaps, Calm, Paid

(* Every step keeps it.                                                     *)
LEMMA PaidKept ==
  ASSUME Enough, MsgInv, PaidInv, [Next]_msgVars
  PROVE  PaidInv'
<1>1. CASE msg_send
  BY <1>1, PaySend
<1>2. CASE msg_write
  BY <1>2, PayWrite
<1>3. CASE readSome
  BY <1>3, PayRead
<1>4. CASE timeout
  BY <1>4, PayTimeout
<1>5. CASE answer
  BY <1>5, PayAnswer
<1>6. CASE loseByte
  BY <1>6, PayLoss
<1>7. CASE changeByte
  BY <1>7, PayNoise
<1>8. CASE UNCHANGED msgVars
  <2>1. UNCHANGED <<bigEndian, pc, retr, swapped, rx, result, asked, wire, late, loss, noise>>
    BY <1>8 DEF msgVars
  <2>2. Counted' /\ Swaps' /\ Calm' /\ (Coming' <=> Coming)
    BY <2>1 DEF PaidInv, Counted, Swaps, Calm, Single, noMark, oneMark, Coming, Undamaged, Expected
  <2>3. Paid'
    BY <2>1, <2>2 DEF PaidInv, Paid, Bearable, budget, cost, garbled
  <2>4. QED
    BY <2>2, <2>3 DEF PaidInv
<1>9. QED
  BY <1>1, <1>2, <1>3, <1>4, <1>5, <1>6, <1>7, <1>8 DEF Next, plo

(* msg_send does not fail as long as there are fewer losses, or fewer late  *)
(* replies, than attempts, however the bytes lost are spread over requests  *)
(* and replies: a damaged reply costs its own attempt and no other.  On a   *)
(* big endian target, whose second attempt is garbled, one mishap is borne. *)
THEOREM AttemptsSuffice == Enough => (Spec => []SurvivesLoss)
<1> SUFFICES ASSUME Enough PROVE Spec => []SurvivesLoss
  OBVIOUS
<1>1. Init => PaidInv
  BY PaidStart
<1>2. MsgInv /\ PaidInv /\ [Next]_msgVars => PaidInv'
  BY PaidKept
<1>3. PaidInv => SurvivesLoss
  BY DEF PaidInv, Paid, Bearable, SurvivesLoss
<1>4. QED
  BY <1>1, <1>2, <1>3, MsgInvariant, PTL DEF Spec

=============================================================================
