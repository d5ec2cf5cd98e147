--------------------------- MODULE PhoenixdProofs ---------------------------
(***************************************************************************)
(* Proof that a call of phoenixd.c that begins on a quiet line and         *)
(* succeeds has done what it was called for, for every host disk, number   *)
(* of attempts and schedule of lost and late messages.  What makes the     *)
(* retries harmless is that a request repeated on the same files gives the *)
(* same reply, and that a write may be done twice.                         *)
(***************************************************************************)
EXTENDS Phoenixd, TLAPS, SequenceTheorems

Request ==
  [type : {"OPEN"}, name : Names]
    \cup [type : {"READ"}, fd : Nat, pos : Nat, len : Nat]
    \cup [type : {"WRITE"}, fd : Nat, pos : Nat, data : Seq(Cells)]
    \cup [type : {"FSTAT"}, fd : Nat]

Reply == [type : {"OPEN", "READ", "WRITE", "FSTAT", "ERR"}, len : Int, data : Seq(Cells \cup Nat)]

(* The handle in a request is one the host has given out. *)
handled(m) == m.type # "OPEN" => m.fd \in DOMAIN fds

(* The reply r answers the call in progress. *)
right(r) ==
  \/ smsg.type = "OPEN" /\ r.data[1] \in DOMAIN fds /\ fds[r.data[1]] = smsg.name
  \/ smsg.type = "READ" /\ r.data = cells(smsg.fd, smsg.pos, smsg.len)
  \/ smsg.type = "WRITE" /\ cells(smsg.fd, smsg.pos, Len(smsg.data)) = smsg.data
  \/ smsg.type = "FSTAT" /\ r.data[1] = Len(file(smsg.fd))

HostTypes == disk \in [DOMAIN Disk -> Seq(Cells)] /\ fds \in Seq(DOMAIN Disk)

LinkTypes ==
  /\ asked \in Seq(Request) /\ wire \in Seq(Reply)
  /\ \A i \in DOMAIN asked : handled(asked[i])

(* The request of a call in progress, or of one that succeeded. *)
Asking == pc # "idle" \/ ret = "EOK" => smsg \in Request /\ handled(smsg)

(* After a quiet beginning only the call's own request is on its way, and   *)
(* whatever reply the call may accept is right.                             *)
OwnRequests == clean => \A i \in DOMAIN asked : asked[i] = smsg
RightReplies == clean => \A i \in DOMAIN wire : accept(wire[i]) => right(wire[i])
RightTaken == clean /\ ret = "EOK" => right(rmsg)

PhoenixdInv ==
  HostTypes /\ LinkTypes /\ Asking /\ OwnRequests /\ RightReplies /\ RightTaken

(***************************************************************************)
(* Sequences.                                                              *)
(***************************************************************************)
(* What the host reads of a file are cells, len of them where there are.    *)
LEMMA CellsOfFile ==
  ASSUME NEW s \in Seq(Cells), NEW pos \in Nat, NEW len \in Nat
  PROVE  LET n == IF pos + len < Len(s) THEN pos + len ELSE Len(s)
             c == SubSeq(s, pos + 1, n)
         IN /\ c \in Seq(Cells)
            /\ Len(c) = IF pos + 1 <= n THEN n - pos ELSE 0
            /\ \A i \in 1..n - pos : c[i] = s[pos + i]
<1> DEFINE n == IF pos + len < Len(s) THEN pos + len ELSE Len(s)
<1>1. Len(s) \in Nat
  BY LenProperties
<1>2. n \in Int /\ n <= Len(s)
  BY <1>1
<1> HIDE DEF n
<1>3. \A i \in pos + 1..n : s[i] \in Cells
  BY <1>1, <1>2, ElementOfSeq
<1>4. pos + 1 \in Int
  OBVIOUS
<1>5. /\ SubSeq(s, pos + 1, n) \in Seq(Cells)
      /\ Len(SubSeq(s, pos + 1, n)) = IF pos + 1 <= n THEN n - (pos + 1) + 1 ELSE 0
      /\ \A i \in 1..n - (pos + 1) + 1 : SubSeq(s, pos + 1, n)[i] = s[(pos + 1) + i - 1]
  BY <1>2, <1>3, <1>4, SubSeqProperties
<1>6. \A i \in 1..n - pos : i \in 1..n - (pos + 1) + 1 /\ (pos + 1) + i - 1 = pos + i
  BY <1>2
<1>7. QED
  BY <1>2, <1>5, <1>6 DEF n

(* A written file holds the data where it was written.                      *)
LEMMA WrittenCells ==
  ASSUME NEW s \in Seq(Cells), NEW pos \in Nat, pos <= Len(s), NEW data \in Seq(Cells)
  PROVE  LET w == written(s, pos, data)
             n == IF pos + Len(data) < Len(w) THEN pos + Len(data) ELSE Len(w)
         IN w \in Seq(Cells) /\ SubSeq(w, pos + 1, n) = data
<1> DEFINE a == SubSeq(s, 1, pos)
           from == pos + Len(data) + 1
           b == SubSeq(s, from, Len(s))
           w == written(s, pos, data)
           n == IF pos + Len(data) < Len(w) THEN pos + Len(data) ELSE Len(w)
<1>1. Len(s) \in Nat /\ Len(data) \in Nat
  BY LenProperties
<1>2. a \in Seq(Cells) /\ Len(a) = pos
  <2>1. \A i \in 1..pos : s[i] \in Cells
    BY <1>1, ElementOfSeq
  <2>2. a \in Seq(Cells) /\ Len(a) = IF 1 <= pos THEN pos - 1 + 1 ELSE 0
    BY <2>1, SubSeqProperties
  <2>3. QED
    BY <2>2
<1>3. b \in Seq(Cells)
  <2>1. \A i \in from..Len(s) : s[i] \in Cells
    BY <1>1, ElementOfSeq
  <2>2. from \in Int
    BY <1>1
  <2>3. QED
    BY <1>1, <2>1, <2>2, SubSeqProperties
<1>4. w = (a \o data) \o b
  BY DEF written
<1> HIDE DEF a, b, w
<1> DEFINE ad == a \o data
<1>5. /\ ad \in Seq(Cells) /\ Len(ad) = pos + Len(data)
      /\ \A i \in 1..pos + Len(data) : ad[i] = IF i <= pos THEN a[i] ELSE data[i - pos]
  BY <1>1, <1>2, ConcatProperties
<1> HIDE DEF ad
<1>6. Len(b) \in Nat
  BY <1>3, LenProperties
<1>7. /\ w \in Seq(Cells) /\ Len(w) = pos + Len(data) + Len(b)
      /\ \A i \in 1..pos + Len(data) + Len(b) :
           w[i] = IF i <= pos + Len(data) THEN ad[i] ELSE b[i - (pos + Len(data))]
  <2>1. w = ad \o b
    BY <1>4 DEF ad
  <2>2. QED
    BY <1>3, <1>5, <2>1, ConcatProperties
<1>8. n = pos + Len(data)
  <2>1. Len(w) = pos + Len(data) + Len(b)
    BY <1>7
  <2>2. QED
    BY <1>1, <1>6, <2>1
<1>9. \A i \in 1..Len(data) : w[pos + i] = data[i]
  <2> SUFFICES ASSUME NEW i \in 1..Len(data) PROVE w[pos + i] = data[i]
    OBVIOUS
  <2>1. /\ pos + i \in 1..pos + Len(data) + Len(b) /\ pos + i <= pos + Len(data)
        /\ pos + i \in 1..pos + Len(data) /\ ~(pos + i <= pos) /\ pos + i - pos = i
    BY <1>1, <1>6
  <2>2. w[pos + i] = ad[pos + i]
    BY <1>7, <2>1
  <2>3. ad[pos + i] = data[pos + i - pos]
    BY <1>5, <2>1
  <2>4. QED
    BY <2>1, <2>2, <2>3
<1>10. /\ SubSeq(w, pos + 1, n) \in Seq(Cells)
       /\ Len(SubSeq(w, pos + 1, n)) = Len(data)
       /\ \A i \in 1..Len(data) : SubSeq(w, pos + 1, n)[i] = w[pos + i]
  <2>1. LET m == IF pos + Len(data) < Len(w) THEN pos + Len(data) ELSE Len(w)
            c == SubSeq(w, pos + 1, m)
        IN /\ c \in Seq(Cells)
           /\ Len(c) = IF pos + 1 <= m THEN m - pos ELSE 0
           /\ \A i \in 1..m - pos : c[i] = w[pos + i]
    BY <1>1, <1>7, CellsOfFile
  <2> HIDE DEF n
  <2>2. /\ SubSeq(w, pos + 1, n) \in Seq(Cells)
        /\ Len(SubSeq(w, pos + 1, n)) = IF pos + 1 <= n THEN n - pos ELSE 0
        /\ \A i \in 1..n - pos : SubSeq(w, pos + 1, n)[i] = w[pos + i]
    BY <2>1 DEF n
  <2>3. n - pos = Len(data) /\ (~(pos + 1 <= n) => Len(data) = 0)
    BY <1>1, <1>8
  <2>4. QED
    BY <2>2, <2>3
<1> HIDE DEF n
<1>11. SubSeq(w, pos + 1, n) = data
  BY <1>9, <1>10, SeqEqual
<1>12. QED
  BY <1>7, <1>11 DEF n, w

(* The elements of a sequence from which one or the first were taken.       *)
LEMMA RemoveOne ==
  ASSUME NEW S, NEW s \in Seq(S), NEW k \in DOMAIN s
  PROVE  /\ RemoveAt(s, k) \in Seq(S)
         /\ \A i \in DOMAIN RemoveAt(s, k) : \E j \in DOMAIN s : RemoveAt(s, k)[i] = s[j]
<1> DEFINE a == SubSeq(s, 1, k - 1)
           b == SubSeq(s, k + 1, Len(s))
<1>1. Len(s) \in Nat /\ DOMAIN s = 1..Len(s) /\ k \in 1..Len(s)
  BY LenProperties
<1>2. /\ a \in Seq(S) /\ Len(a) = k - 1
      /\ \A i \in 1..k - 1 : a[i] = s[i]
  <2>1. \A i \in 1..k - 1 : s[i] \in S
    BY <1>1, ElementOfSeq
  <2>2. /\ a \in Seq(S) /\ Len(a) = IF 1 <= k - 1 THEN (k - 1) - 1 + 1 ELSE 0
        /\ \A i \in 1..(k - 1) - 1 + 1 : a[i] = s[1 + i - 1]
    <3>1. 1 \in Int /\ k - 1 \in Int
      BY <1>1
    <3>2. QED
      BY <2>1, <3>1, SubSeqProperties
  <2>3. \A i \in 1..k - 1 : i \in 1..(k - 1) - 1 + 1 /\ 1 + i - 1 = i
    BY <1>1
  <2>4. QED
    BY <1>1, <2>2, <2>3
<1>3. /\ b \in Seq(S) /\ Len(b) = Len(s) - k
      /\ \A i \in 1..Len(s) - k : b[i] = s[k + i]
  <2>1. \A i \in k + 1..Len(s) : s[i] \in S
    BY <1>1, ElementOfSeq
  <2>2. /\ b \in Seq(S) /\ Len(b) = IF k + 1 <= Len(s) THEN Len(s) - (k + 1) + 1 ELSE 0
        /\ \A i \in 1..Len(s) - (k + 1) + 1 : b[i] = s[(k + 1) + i - 1]
    <3>1. k + 1 \in Int /\ Len(s) \in Int
      BY <1>1
    <3>2. QED
      BY <2>1, <3>1, SubSeqProperties
  <2>3. \A i \in 1..Len(s) - k : i \in 1..Len(s) - (k + 1) + 1 /\ (k + 1) + i - 1 = k + i
    BY <1>1
  <2>4. QED
    BY <1>1, <2>2, <2>3
<1>4. RemoveAt(s, k) = a \o b
  BY DEF RemoveAt
<1> HIDE DEF a, b
<1>5. /\ a \o b \in Seq(S) /\ Len(a \o b) = Len(a) + Len(b)
      /\ \A i \in 1..Len(a) + Len(b) :
           (a \o b)[i] = IF i <= Len(a) THEN a[i] ELSE b[i - Len(a)]
  BY <1>2, <1>3, ConcatProperties
<1>6. DOMAIN (a \o b) = 1..(k - 1) + (Len(s) - k)
  BY <1>2, <1>3, <1>5, LenProperties
<1>7. ASSUME NEW i \in DOMAIN (a \o b)
      PROVE  \E j \in DOMAIN s : (a \o b)[i] = s[j]
  <2>1. i \in 1..Len(a) + Len(b)
    BY <1>2, <1>3, <1>6
  <2>2. CASE i <= k - 1
    <3>1. i \in 1..k - 1 /\ i \in DOMAIN s
      BY <1>1, <1>6, <2>2
    <3>2. (a \o b)[i] = s[i]
      BY <1>2, <1>5, <2>1, <2>2, <3>1
    <3>3. QED
      BY <3>1, <3>2
  <2>3. CASE ~(i <= k - 1)
    <3> DEFINE j == k + (i - (k - 1))
    <3>1. i - (k - 1) \in 1..Len(s) - k /\ j \in DOMAIN s
      BY <1>1, <1>6, <2>3
    <3>2. (a \o b)[i] = b[i - (k - 1)]
      BY <1>2, <1>5, <2>1, <2>3
    <3>3. (a \o b)[i] = s[j]
      BY <1>3, <3>1, <3>2
    <3> HIDE DEF j
    <3>4. QED
      BY <3>1, <3>3
  <2>4. QED
    BY <2>2, <2>3
<1>8. QED
  BY <1>4, <1>5, <1>7

(* ... the first n of them. *)
LEMMA DropFirst ==
  ASSUME NEW S, NEW s \in Seq(S), NEW n \in 1..Len(s)
  PROVE  LET t == SubSeq(s, n + 1, Len(s))
         IN t \in Seq(S) /\ \A i \in DOMAIN t : \E j \in DOMAIN s : t[i] = s[j]
<1> DEFINE t == SubSeq(s, n + 1, Len(s))
<1>1. Len(s) \in Nat /\ DOMAIN s = 1..Len(s) /\ n + 1 \in Int
  BY LenProperties
<1>2. \A i \in n + 1..Len(s) : s[i] \in S
  BY <1>1, ElementOfSeq
<1>3. /\ t \in Seq(S) /\ Len(t) = IF n + 1 <= Len(s) THEN Len(s) - (n + 1) + 1 ELSE 0
      /\ \A i \in 1..Len(s) - (n + 1) + 1 : t[i] = s[(n + 1) + i - 1]
  BY <1>1, <1>2, SubSeqProperties
<1> HIDE DEF t
<1>4. DOMAIN t = 1..Len(t)
  BY <1>3, LenProperties
<1>5. \A i \in DOMAIN t : i \in 1..Len(s) - (n + 1) + 1 /\ (n + 1) + i - 1 \in DOMAIN s
  BY <1>1, <1>3, <1>4
<1>6. QED
  BY <1>3, <1>5 DEF t

(***************************************************************************)
(* The host.                                                               *)
(***************************************************************************)
(* A file behind a handle, and what a request for it gives.                 *)
LEMMA FileOfHandle ==
  ASSUME HostTypes, NEW fd \in DOMAIN fds
  PROVE  fds[fd] \in DOMAIN Disk /\ file(fd) \in Seq(Cells)
<1>1. fd \in 1..Len(fds)
  BY LenProperties DEF HostTypes
<1>2. fds[fd] \in DOMAIN Disk
  BY <1>1, ElementOfSeq DEF HostTypes
<1>3. QED
  BY <1>2 DEF HostTypes, file

(* What a request of each type carries.                                     *)
LEMMA RequestFields ==
  ASSUME NEW m \in Request, handled(m)
  PROVE  /\ m.type \in {"OPEN", "READ", "WRITE", "FSTAT"}
         /\ m.type = "OPEN" => m.name \in Names
         /\ m.type = "READ" => m.fd \in DOMAIN fds /\ m.pos \in Nat /\ m.len \in Nat
         /\ m.type = "WRITE" => m.fd \in DOMAIN fds /\ m.pos \in Nat /\ m.data \in Seq(Cells)
         /\ m.type = "FSTAT" => m.fd \in DOMAIN fds
BY DEF Request, handled

(* The host keeps its types; handles stay and new replies are appended.     *)
HostStep(r) ==
  /\ r \in Reply /\ wire' = Append(wire, r)
  /\ HostTypes'
  /\ \A fd \in DOMAIN fds : fd \in DOMAIN fds' /\ fds'[fd] = fds[fd]

(* A request that only reads.                                               *)
LEMMA HostUnchanged ==
  ASSUME HostTypes, UNCHANGED host, NEW r \in Reply, wire' = Append(wire, r)
  PROVE  HostStep(r)
BY DEF HostStep, HostTypes, host

(* A handle for the file that was asked for is appended to the others.      *)
LEMMA OpenStep ==
  ASSUME HostTypes, NEW m \in Request, m.type = "OPEN", hostOpen(m)
  PROVE  \E r \in Reply :
           /\ HostStep(r) /\ disk' = disk /\ r.type = "OPEN"
           /\ \/ UNCHANGED host /\ r.len = -1
              \/ r.data[1] \in DOMAIN fds' /\ fds'[r.data[1]] = m.name
<1>1. CASE m.name \in DOMAIN disk /\ Len(fds) < MaxFds
  <2> DEFINE r == reply("OPEN", 1, <<Len(fds) + 1>>)
  <2>1. fds' = Append(fds, m.name) /\ wire' = Append(wire, r) /\ disk' = disk
    BY <1>1 DEF hostOpen
  <2>2. m.name \in DOMAIN Disk /\ fds \in Seq(DOMAIN Disk) /\ DOMAIN fds = 1..Len(fds) /\ Len(fds) \in Nat
    BY <1>1, LenProperties DEF HostTypes
  <2>3. /\ fds' \in Seq(DOMAIN Disk) /\ Len(fds') = Len(fds) + 1
        /\ \A i \in 1..Len(fds) : fds'[i] = fds[i]
        /\ fds'[Len(fds) + 1] = m.name
    BY <2>1, <2>2, AppendProperties
  <2>4. DOMAIN fds' = 1..Len(fds) + 1
    BY <2>3, LenProperties
  <2>5. r \in Reply /\ r.type = "OPEN" /\ r.data[1] = Len(fds) + 1
    BY <2>2 DEF reply, Reply
  <2> HIDE DEF r
  <2>6. HostStep(r)
    BY <2>1, <2>2, <2>3, <2>4, <2>5 DEF HostStep, HostTypes
  <2>7. r.data[1] \in DOMAIN fds' /\ fds'[r.data[1]] = m.name
    BY <2>2, <2>3, <2>4, <2>5
  <2>8. QED
    BY <2>1, <2>5, <2>6, <2>7
<1>2. CASE ~(m.name \in DOMAIN disk /\ Len(fds) < MaxFds)
  <2> DEFINE r == reply("OPEN", -1, <<0>>)
  <2>1. wire' = Append(wire, r) /\ UNCHANGED host
    BY <1>2 DEF hostOpen
  <2>2. r \in Reply /\ r.type = "OPEN" /\ r.len = -1
    BY DEF reply, Reply
  <2> HIDE DEF r
  <2>3. HostStep(r)
    BY <2>1, <2>2, HostUnchanged
  <2>4. QED
    BY <2>1, <2>2, <2>3 DEF host
<1>3. QED
  BY <1>1, <1>2

(* The cells of the file, as they are.                                      *)
LEMMA ReadStep ==
  ASSUME HostTypes, NEW m \in Request, handled(m), m.type = "READ", hostRead(m)
  PROVE  \E r \in Reply :
           /\ HostStep(r) /\ UNCHANGED host
           /\ r.type = "READ" /\ r.data = cells(m.fd, m.pos, m.len)
<1> DEFINE d == cells(m.fd, m.pos, m.len)
           r == reply("READ", Len(d), d)
<1>1. file(m.fd) \in Seq(Cells) /\ m.pos \in Nat /\ m.len \in Nat
  BY RequestFields, FileOfHandle
<1>2. d \in Seq(Cells)
  BY <1>1, CellsOfFile DEF cells
<1>3. wire' = Append(wire, r) /\ UNCHANGED host
  BY DEF hostRead
<1> HIDE DEF d
<1>4. Len(d) \in Nat /\ d \in Seq(Cells \cup Nat)
  BY <1>2, LenProperties, SeqMonotonic
<1>5. r \in Reply /\ r.type = "READ" /\ r.data = d
  BY <1>4 DEF reply, Reply
<1> HIDE DEF r
<1>6. QED
  BY <1>3, <1>5, HostUnchanged DEF d

(* The size of the file, as it is.                                          *)
LEMMA StatStep ==
  ASSUME HostTypes, NEW m \in Request, handled(m), m.type = "FSTAT", hostStat(m)
  PROVE  \E r \in Reply :
           /\ HostStep(r) /\ UNCHANGED host
           /\ r.type = "FSTAT" /\ r.data[1] = Len(file(m.fd))
<1> DEFINE r == reply("FSTAT", 1, <<Len(file(m.fd))>>)
<1>1. file(m.fd) \in Seq(Cells)
  BY RequestFields, FileOfHandle
<1>2. Len(file(m.fd)) \in Nat
  BY <1>1, LenProperties
<1>3. r \in Reply /\ r.type = "FSTAT" /\ r.data[1] = Len(file(m.fd))
  BY <1>2 DEF reply, Reply
<1>4. wire' = Append(wire, r) /\ UNCHANGED host
  BY DEF hostStat
<1> HIDE DEF r
<1>5. QED
  BY <1>3, <1>4, HostUnchanged

(* Either the data are in the file then, or nothing is changed and the      *)
(* reply is an error.                                                       *)
LEMMA WriteStep ==
  ASSUME HostTypes, NEW m \in Request, handled(m), m.type = "WRITE", hostWrite(m)
  PROVE  \E r \in Reply :
           /\ HostStep(r) /\ r.type = "WRITE"
           /\ \/ UNCHANGED host /\ r.len = -1
              \/ cells(m.fd, m.pos, Len(m.data))' = m.data
<1> DEFINE s == file(m.fd)
           w == written(s, m.pos, m.data)
<1>1. s \in Seq(Cells) /\ m.pos \in Nat /\ m.data \in Seq(Cells) /\ fds[m.fd] \in DOMAIN Disk
  BY RequestFields, FileOfHandle
<1>2. CASE m.pos <= Len(s)
  <2> DEFINE r == reply("WRITE", Len(m.data), <<>>)
  <2>1. /\ disk' = [disk EXCEPT ![fds[m.fd]] = w]
        /\ wire' = Append(wire, r) /\ fds' = fds
    BY <1>2 DEF hostWrite, file
  <2>2. LET n == IF m.pos + Len(m.data) < Len(w) THEN m.pos + Len(m.data) ELSE Len(w)
        IN w \in Seq(Cells) /\ SubSeq(w, m.pos + 1, n) = m.data
    BY <1>1, <1>2, WrittenCells
  <2> HIDE DEF w
  <2>3. Len(m.data) \in Nat
    BY <1>1, LenProperties
  <2>4. <<>> \in Seq(Cells \cup Nat)
    BY EmptySeq
  <2>5. r \in Reply /\ r.type = "WRITE"
    BY <2>3, <2>4 DEF reply, Reply
  <2> HIDE DEF r
  <2>6. w \in Seq(Cells)
    BY <2>2
  <2>7. HostTypes' /\ file(m.fd)' = w
    BY <1>1, <2>1, <2>6 DEF HostTypes, file
  <2>8. HostStep(r)
    BY <2>1, <2>5, <2>7 DEF HostStep
  <2>9. cells(m.fd, m.pos, Len(m.data))' = m.data
    BY <2>2, <2>7 DEF cells
  <2>10. QED
    BY <2>5, <2>8, <2>9
<1>3. CASE ~(m.pos <= Len(s))
  <2> DEFINE r == reply("WRITE", -1, <<>>)
  <2>1. wire' = Append(wire, r) /\ UNCHANGED host
    BY <1>3 DEF hostWrite
  <2>2. <<>> \in Seq(Cells \cup Nat)
    BY EmptySeq
  <2>3. r \in Reply /\ r.type = "WRITE" /\ r.len = -1
    BY <2>2 DEF reply, Reply
  <2> HIDE DEF r
  <2>4. QED
    BY <2>1, <2>3, HostUnchanged
<1>4. QED
  BY <1>2, <1>3

(* What the host does with a request m and its reply r.                     *)
Answers(m, r) ==
  /\ HostStep(r)
  /\ \/ UNCHANGED host /\ (r.type # m.type \/ ~(r.len >= 0))
     \/ /\ m.type = "OPEN" /\ disk' = disk
        /\ r.data[1] \in DOMAIN fds' /\ fds'[r.data[1]] = m.name
     \/ m.type = "READ" /\ UNCHANGED host /\ r.data = cells(m.fd, m.pos, m.len)
     \/ m.type = "WRITE" /\ cells(m.fd, m.pos, Len(m.data))' = m.data
     \/ m.type = "FSTAT" /\ UNCHANGED host /\ r.data[1] = Len(file(m.fd))

(* The host answers the oldest request, and as it should.                   *)
LEMMA HostAnswers ==
  ASSUME PhoenixdInv, answer
  PROVE  \E m \in Request, r \in Reply : m = Head(asked) /\ handled(m) /\ Answers(m, r)
<1>0. PICK m : m = Head(asked)
  OBVIOUS
<1>1. asked \in Seq(Request) /\ asked # <<>> /\ HostTypes
  BY DEF PhoenixdInv, LinkTypes, answer
<1>2. Len(asked) \in Nat \ {0} /\ DOMAIN asked = 1..Len(asked)
  BY <1>1, EmptySeq, LenProperties
<1>3. m \in Request /\ m = asked[1] /\ 1 \in DOMAIN asked
  BY <1>1, <1>2, <1>0, HeadTailProperties
<1>4. handled(m)
  BY <1>3 DEF PhoenixdInv, LinkTypes
<1>5. m.type \in {"OPEN", "READ", "WRITE", "FSTAT"}
  BY <1>3, <1>4, RequestFields
<1>6. \/ m.type = "OPEN" /\ hostOpen(m)
      \/ m.type = "READ" /\ hostRead(m)
      \/ m.type = "WRITE" /\ hostWrite(m)
      \/ m.type = "FSTAT" /\ hostStat(m)
      \/ wire' = Append(wire, reply("ERR", 0, <<0>>)) /\ UNCHANGED host
      \/ wire' = Append(wire, reply(m.type, -1, <<0>>)) /\ UNCHANGED host
  BY <1>0 DEF answer
<1> SUFFICES \E r \in Reply : Answers(m, r)
  BY <1>0, <1>3, <1>4
<1>7. CASE m.type = "OPEN" /\ hostOpen(m)
  <2>1. PICK r \in Reply :
           /\ HostStep(r) /\ disk' = disk /\ r.type = "OPEN"
           /\ \/ UNCHANGED host /\ r.len = -1
              \/ r.data[1] \in DOMAIN fds' /\ fds'[r.data[1]] = m.name
    BY <1>1, <1>3, <1>7, OpenStep
  <2>2. QED
    BY <1>7, <2>1 DEF Answers
<1>8. CASE m.type = "READ" /\ hostRead(m)
  BY <1>1, <1>3, <1>4, <1>8, ReadStep DEF Answers
<1>9. CASE m.type = "WRITE" /\ hostWrite(m)
  <2>1. PICK r \in Reply :
           /\ HostStep(r) /\ r.type = "WRITE"
           /\ \/ UNCHANGED host /\ r.len = -1
              \/ cells(m.fd, m.pos, Len(m.data))' = m.data
    BY <1>1, <1>3, <1>4, <1>9, WriteStep
  <2>2. QED
    BY <1>9, <2>1 DEF Answers
<1>10. CASE m.type = "FSTAT" /\ hostStat(m)
  BY <1>1, <1>3, <1>4, <1>10, StatStep DEF Answers
<1>11. CASE wire' = Append(wire, reply("ERR", 0, <<0>>)) /\ UNCHANGED host
  <2> DEFINE r == reply("ERR", 0, <<0>>)
  <2>1. r \in Reply /\ r.type = "ERR"
    BY DEF reply, Reply
  <2> HIDE DEF r
  <2>2. HostStep(r)
    BY <1>1, <1>11, <2>1, HostUnchanged DEF r
  <2>3. QED
    BY <1>5, <1>11, <2>1, <2>2 DEF Answers
<1>12. CASE wire' = Append(wire, reply(m.type, -1, <<0>>)) /\ UNCHANGED host
  <2> DEFINE r == reply(m.type, -1, <<0>>)
  <2>1. r \in Reply /\ r.len = -1
    BY <1>5 DEF reply, Reply
  <2> HIDE DEF r
  <2>2. HostStep(r)
    BY <1>1, <1>12, <2>1, HostUnchanged DEF r
  <2>3. ~(r.len >= 0)
    BY <2>1
  <2>4. QED
    BY <1>12, <2>1, <2>2, <2>3 DEF Answers
<1>13. QED
  BY <1>6, <1>7, <1>8, <1>9, <1>10, <1>11, <1>12

(* A right reply stays right while the host answers the call's own request  *)
(* once more: this is what makes a retry harmless.                          *)
LEMMA RightStaysRight ==
  ASSUME NEW m \in Request, handled(m), smsg = m, smsg' = m,
         NEW r, Answers(m, r),
         NEW x, right(x)
  PROVE  right(x)'
<1>1. \A fd \in DOMAIN fds : fd \in DOMAIN fds' /\ fds'[fd] = fds[fd]
  BY DEF Answers, HostStep
<1>2. CASE UNCHANGED host
  BY <1>2 DEF right, cells, file, host
<1>3. CASE smsg.type = "OPEN"
  BY <1>1, <1>3 DEF right
<1>4. CASE smsg.type = "WRITE"
  BY <1>2, <1>4 DEF right, Answers
<1>5. CASE ~UNCHANGED host /\ smsg.type \in {"READ", "FSTAT"}
  BY <1>5 DEF Answers
<1>6. smsg.type \in {"OPEN", "READ", "WRITE", "FSTAT"}
  BY RequestFields
<1>7. QED
  BY <1>2, <1>3, <1>4, <1>5, <1>6

(* The answer to the call's own request, if it can be accepted, is right.   *)
LEMMA OwnAnswerRight ==
  ASSUME NEW m, smsg = m, smsg' = m, NEW r, Answers(m, r), accept(r)
  PROVE  right(r)'
<1>1. r.type = smsg.type /\ r.len >= 0
  BY DEF accept
<1>2. QED
  BY <1>1 DEF Answers, right, cells, file, host

(* The host takes a request and answers it.                                 *)
LEMMA KeepAnswer == PhoenixdInv /\ answer => PhoenixdInv'
<1> SUFFICES ASSUME PhoenixdInv, answer PROVE PhoenixdInv'
  OBVIOUS
<1>1. PICK m \in Request, r \in Reply : m = Head(asked) /\ handled(m) /\ Answers(m, r)
  BY HostAnswers
<1>2. /\ asked # <<>> /\ asked' = Tail(asked)
      /\ pc' = pc /\ ret' = ret /\ smsg' = smsg /\ rmsg' = rmsg /\ clean' = clean
  BY DEF answer, client
<1>3. asked \in Seq(Request) /\ wire \in Seq(Reply) /\ HostTypes
  BY DEF PhoenixdInv, LinkTypes
<1>4. Len(asked) \in Nat \ {0} /\ DOMAIN asked = 1..Len(asked)
  BY <1>2, <1>3, EmptySeq, LenProperties
<1>5. m = asked[1] /\ 1 \in DOMAIN asked
  BY <1>1, <1>2, <1>3, <1>4, HeadTailProperties
<1>6. /\ asked' \in Seq(Request) /\ DOMAIN asked' = 1..Len(asked) - 1
      /\ \A i \in DOMAIN asked' : i + 1 \in DOMAIN asked /\ asked'[i] = asked[i + 1]
  <2>1. /\ asked' \in Seq(Request) /\ Len(asked') = Len(asked) - 1
        /\ \A i \in 1..Len(asked') : asked'[i] = asked[i + 1]
    BY <1>2, <1>3, HeadTailProperties
  <2>2. DOMAIN asked' = 1..Len(asked) - 1
    BY <2>1, LenProperties
  <2>3. QED
    BY <1>4, <2>1, <2>2
<1>7. wire' = Append(wire, r) /\ HostTypes'
      /\ \A fd \in DOMAIN fds : fd \in DOMAIN fds' /\ fds'[fd] = fds[fd]
  BY <1>1 DEF Answers, HostStep
<1>8. /\ wire' \in Seq(Reply)
      /\ \A i \in DOMAIN wire' : wire'[i] = r \/ (i \in DOMAIN wire /\ wire'[i] = wire[i])
  <2>1. /\ wire' \in Seq(Reply) /\ Len(wire') = Len(wire) + 1
        /\ \A i \in 1..Len(wire) : wire'[i] = wire[i]
        /\ wire'[Len(wire) + 1] = r
    BY <1>3, <1>7, AppendProperties
  <2>2. DOMAIN wire = 1..Len(wire) /\ DOMAIN wire' = 1..Len(wire) + 1 /\ Len(wire) \in Nat
    BY <1>3, <2>1, LenProperties
  <2>3. QED
    BY <2>1, <2>2
<1>9. \A x : handled(x) => handled(x)'
  BY <1>7 DEF handled
<1>10. LinkTypes'
  BY <1>6, <1>8, <1>9 DEF PhoenixdInv, LinkTypes
<1>11. Asking'
  BY <1>2, <1>9 DEF PhoenixdInv, Asking
<1>12. OwnRequests'
  BY <1>2, <1>6 DEF PhoenixdInv, OwnRequests
<1>13. ASSUME clean PROVE smsg = m /\ smsg' = m
  BY <1>2, <1>5, <1>13 DEF PhoenixdInv, OwnRequests
<1>14. ASSUME clean, NEW x, right(x) PROVE right(x)'
  BY <1>1, <1>13, <1>14, RightStaysRight
<1>15. RightReplies'
  <2> SUFFICES ASSUME clean, NEW i \in DOMAIN wire', NEW x, x = wire'[i], accept(x)'
               PROVE  right(x)'
    BY <1>2, Zenon DEF RightReplies, accept, right, cells, file
  <2>1. accept(x)
    BY <1>2 DEF accept
  <2>2. CASE x = r
    BY <1>1, <1>13, <2>1, <2>2, OwnAnswerRight
  <2>3. CASE i \in DOMAIN wire /\ x = wire[i]
    <3>1. right(wire[i])
      BY <2>1, <2>3 DEF PhoenixdInv, RightReplies
    <3>2. right(x)
      BY <2>3, <3>1
    <3>3. QED
      BY <1>14, <3>2
  <2>4. QED
    BY <1>8, <2>2, <2>3
<1>16. RightTaken'
  <2> SUFFICES ASSUME clean, ret = "EOK" PROVE right(rmsg)'
    BY <1>2 DEF RightTaken
  <2>1. right(rmsg)
    BY DEF PhoenixdInv, RightTaken
  <2>2. QED
    BY <1>2, <1>14, <2>1 DEF right
<1>17. QED
  BY <1>7, <1>10, <1>11, <1>12, <1>15, <1>16 DEF PhoenixdInv

(***************************************************************************)
(* plo and the line.                                                       *)
(***************************************************************************)
(* With the link and the host as they are, replies keep their meaning.      *)
LEMMA SameMeaning ==
  ASSUME UNCHANGED host, smsg' = smsg
  PROVE  \A x : /\ right(x) <=> right(x)'
                /\ accept(x) <=> accept(x)'
                /\ handled(x) <=> handled(x)'
BY DEF host, right, accept, handled, cells, file

(* A call begins: on a quiet line it has nothing to fear from earlier ones. *)
LEMMA KeepSend ==
  ASSUME PhoenixdInv, NEW m \in Request, handled(m), send(m)
  PROVE  PhoenixdInv'
<1>1. /\ pc' = "write" /\ smsg' = m /\ ret' = "none" /\ asked' = asked /\ wire' = wire
      /\ disk' = disk /\ fds' = fds /\ clean' = (asked = <<>> /\ wire = <<>>)
  BY DEF send, link, host
<1>2. HostTypes' /\ LinkTypes' /\ Asking'
  BY <1>1 DEF PhoenixdInv, HostTypes, LinkTypes, Asking, handled
<1>3. clean' => asked' = <<>> /\ wire' = <<>>
  BY <1>1
<1>4. DOMAIN <<>> = {}
  OBVIOUS
<1>5. OwnRequests' /\ RightReplies'
  BY <1>3, <1>4 DEF OwnRequests, RightReplies
<1>6. RightTaken'
  BY <1>1 DEF RightTaken
<1>7. QED
  BY <1>2, <1>5, <1>6 DEF PhoenixdInv

(* A call that is too long sends nothing.                                   *)
LEMMA KeepRefuse == PhoenixdInv /\ refuse => PhoenixdInv'
<1> SUFFICES ASSUME PhoenixdInv, refuse PROVE PhoenixdInv'
  OBVIOUS
<1>1. /\ pc = "idle" /\ pc' = pc /\ ret' = "EINVAL" /\ smsg' = smsg /\ rmsg' = rmsg /\ clean' = clean
      /\ asked' = asked /\ wire' = wire /\ disk' = disk /\ fds' = fds
  BY DEF refuse, link, host
<1>2. HostTypes' /\ LinkTypes' /\ Asking' /\ OwnRequests' /\ RightTaken'
  BY <1>1 DEF PhoenixdInv, HostTypes, LinkTypes, Asking, OwnRequests, RightTaken, handled
<1>3. RightReplies'
  BY <1>1 DEF PhoenixdInv, RightReplies, right, accept, cells, file
<1>4. QED
  BY <1>2, <1>3 DEF PhoenixdInv

(* Each call sends a request for a handle its caller was given.             *)
LEMMA KeepCall == PhoenixdInv /\ call => PhoenixdInv'
<1> SUFFICES ASSUME PhoenixdInv, call PROVE PhoenixdInv'
  OBVIOUS
<1>1. DOMAIN fds \in SUBSET Nat
  BY LenProperties DEF PhoenixdInv, HostTypes
<1>2. CASE \E name \in Names : phoenixd_open(name)
  <2>1. PICK name \in Names : phoenixd_open(name)
    BY <1>2
  <2> DEFINE m == [type |-> "OPEN", name |-> name]
  <2>2. m \in Request /\ handled(m) /\ send(m)
    BY <2>1 DEF phoenixd_open, Request, handled
  <2>3. QED
    BY <2>2, KeepSend
<1>3. CASE \E fd \in DOMAIN fds, offs \in 0..MaxPos, len \in 1..MaxLen : phoenixd_read(fd, offs, len)
  <2>1. PICK fd \in DOMAIN fds, offs \in 0..MaxPos, len \in 1..MaxLen : phoenixd_read(fd, offs, len)
    BY <1>3
  <2> DEFINE m == [type |-> "READ", fd |-> fd, pos |-> offs, len |-> len]
  <2>2. fd \in Nat /\ offs \in Nat /\ len \in Nat
    BY <1>1
  <2>3. m \in Request /\ handled(m)
    BY <2>2 DEF Request, handled
  <2>4. refuse \/ send(m)
    BY <2>1 DEF phoenixd_read
  <2>5. QED
    BY <2>3, <2>4, KeepSend, KeepRefuse
<1>4. CASE \E fd \in DOMAIN fds, offs \in 0..MaxPos, len \in 1..MaxLen, c \in Cells :
             phoenixd_write(fd, offs, [i \in 1..len |-> c])
  <2>1. PICK fd \in DOMAIN fds, offs \in 0..MaxPos, len \in 1..MaxLen, c \in Cells :
               phoenixd_write(fd, offs, [i \in 1..len |-> c])
    BY <1>4
  <2> DEFINE data == [i \in 1..len |-> c]
             m == [type |-> "WRITE", fd |-> fd, pos |-> offs, data |-> data]
  <2>2. fd \in Nat /\ offs \in Nat /\ len \in Nat
    BY <1>1
  <2>3. data \in Seq(Cells)
    BY <2>2
  <2>4. refuse \/ send(m)
    BY <2>1 DEF phoenixd_write
  <2> HIDE DEF data
  <2>5. m \in Request /\ handled(m)
    BY <2>2, <2>3 DEF Request, handled
  <2>6. QED
    BY <2>4, <2>5, KeepSend, KeepRefuse
<1>5. CASE \E fd \in DOMAIN fds : phoenixd_stat(fd)
  <2>1. PICK fd \in DOMAIN fds : phoenixd_stat(fd)
    BY <1>5
  <2> DEFINE m == [type |-> "FSTAT", fd |-> fd]
  <2>2. m \in Request /\ handled(m) /\ send(m)
    BY <1>1, <2>1 DEF phoenixd_stat, Request, handled
  <2>3. QED
    BY <2>2, KeepSend
<1>6. QED
  BY <1>2, <1>3, <1>4, <1>5 DEF call

(* The types of a link that only lost some of what was on it.               *)
LEMMA KeepReplies ==
  ASSUME PhoenixdInv, UNCHANGED host, smsg' = smsg, clean' = clean,
         wire' \in Seq(Reply),
         \A i \in DOMAIN wire' : \E j \in DOMAIN wire : wire'[i] = wire[j]
  PROVE  RightReplies' /\ HostTypes'
<1>1. HostTypes'
  BY DEF PhoenixdInv, HostTypes, host
<1>2. RightReplies'
  <2> SUFFICES ASSUME clean, NEW i \in DOMAIN wire', NEW x, x = wire'[i], accept(x)'
               PROVE  right(x)'
    BY Zenon DEF RightReplies, accept, right, cells, file
  <2>1. PICK j \in DOMAIN wire : x = wire[j]
    OBVIOUS
  <2>2. accept(wire[j])
    BY <2>1, SameMeaning
  <2>3. right(wire[j])
    BY <2>2 DEF PhoenixdInv, RightReplies
  <2>4. QED
    BY <2>1, <2>3, SameMeaning
<1>3. QED
  BY <1>1, <1>2

(* The requests that are on their way when one more leaves, or none.        *)
LEMMA KeepWrite == PhoenixdInv /\ msg_write => PhoenixdInv'
<1> SUFFICES ASSUME PhoenixdInv, msg_write PROVE PhoenixdInv'
  OBVIOUS
<1>1. /\ pc = "write" /\ smsg' = smsg /\ rmsg' = rmsg /\ clean' = clean /\ wire' = wire
      /\ UNCHANGED host /\ (ret' = ret \/ ret' = "EIO")
      /\ asked' = asked \/ asked' = Append(asked, smsg)
  BY DEF msg_write, nextAttempt
<1>2. smsg \in Request /\ handled(smsg) /\ asked \in Seq(Request) /\ wire \in Seq(Reply)
  BY <1>1 DEF PhoenixdInv, Asking, LinkTypes
<1>3. /\ asked' \in Seq(Request)
      /\ \A i \in DOMAIN asked' : asked'[i] = smsg \/ (i \in DOMAIN asked /\ asked'[i] = asked[i])
  <2>1. CASE asked' = asked
    BY <1>2, <2>1
  <2>2. CASE asked' = Append(asked, smsg)
    <3>1. /\ asked' \in Seq(Request) /\ Len(asked') = Len(asked) + 1
          /\ \A i \in 1..Len(asked) : asked'[i] = asked[i]
          /\ asked'[Len(asked) + 1] = smsg
      BY <1>2, <2>2, AppendProperties
    <3>2. DOMAIN asked = 1..Len(asked) /\ DOMAIN asked' = 1..Len(asked) + 1 /\ Len(asked) \in Nat
      BY <1>2, <3>1, LenProperties
    <3>3. QED
      BY <3>1, <3>2
  <2>3. QED
    BY <1>1, <2>1, <2>2
<1>4. LinkTypes'
  BY <1>1, <1>2, <1>3 DEF PhoenixdInv, LinkTypes, handled, host
<1>5. Asking' /\ OwnRequests'
  BY <1>1, <1>2, <1>3 DEF PhoenixdInv, Asking, OwnRequests, handled, host
<1>6. RightReplies' /\ HostTypes'
  BY <1>1, <1>2, KeepReplies
<1>7. RightTaken'
  BY <1>1 DEF PhoenixdInv, RightTaken, right, cells, file, host
<1>8. QED
  BY <1>4, <1>5, <1>6, <1>7 DEF PhoenixdInv

(* Nothing came: the link is as it was.                                     *)
LEMMA KeepTimeout == PhoenixdInv /\ timeout => PhoenixdInv'
<1> SUFFICES ASSUME PhoenixdInv, timeout PROVE PhoenixdInv'
  OBVIOUS
<1>1. /\ pc = "read" /\ smsg' = smsg /\ rmsg' = rmsg /\ clean' = clean
      /\ asked' = asked /\ wire' = wire /\ UNCHANGED host /\ (ret' = ret \/ ret' = "EIO")
  BY DEF timeout, nextAttempt, link
<1>2. LinkTypes' /\ Asking' /\ OwnRequests'
  BY <1>1 DEF PhoenixdInv, LinkTypes, Asking, OwnRequests, handled, host
<1>3. RightReplies' /\ HostTypes'
  BY <1>1, KeepReplies DEF PhoenixdInv, LinkTypes
<1>4. RightTaken'
  BY <1>1 DEF PhoenixdInv, RightTaken, right, cells, file, host
<1>5. QED
  BY <1>2, <1>3, <1>4 DEF PhoenixdInv

(* The reply that is taken is one of those on the wire.                     *)
LEMMA KeepRead ==
  ASSUME PhoenixdInv, NEW n \in 1..Len(wire), msg_read(n)
  PROVE  PhoenixdInv'
<1>1. /\ pc = "read" /\ pc' = "idle" /\ smsg' = smsg /\ clean' = clean
      /\ asked' = asked /\ UNCHANGED host
      /\ wire' = SubSeq(wire, n + 1, Len(wire)) /\ rmsg' = Head(wire)
      /\ ret' = IF accept(Head(wire)) THEN "EOK" ELSE "EIO"
  BY DEF msg_read
<1>2. wire \in Seq(Reply)
  BY DEF PhoenixdInv, LinkTypes
<1>3. /\ wire' \in Seq(Reply)
      /\ \A i \in DOMAIN wire' : \E j \in DOMAIN wire : wire'[i] = wire[j]
  BY <1>1, <1>2, DropFirst
<1>4. 1 \in DOMAIN wire /\ Head(wire) = wire[1]
  <2>1. Len(wire) \in Nat /\ DOMAIN wire = 1..Len(wire)
    BY <1>2, LenProperties
  <2>2. 1 \in DOMAIN wire
    BY <2>1
  <2>3. QED
    BY <1>2, <2>1, <2>2
<1>5. RightReplies' /\ HostTypes'
  BY <1>1, <1>3, KeepReplies
<1>6. LinkTypes' /\ OwnRequests'
  BY <1>1, <1>3 DEF PhoenixdInv, LinkTypes, OwnRequests, handled, host
<1>7. Asking'
  BY <1>1 DEF PhoenixdInv, Asking, handled, host
<1>8. RightTaken'
  <2> SUFFICES ASSUME clean, ret' = "EOK" PROVE right(rmsg)'
    BY <1>1 DEF RightTaken
  <2>1. accept(wire[1])
    BY <1>1, <1>4
  <2>2. right(wire[1])
    BY <1>4, <2>1 DEF PhoenixdInv, RightReplies
  <2>3. \A x : right(x) => right(x)'
    BY <1>1, SameMeaning
  <2>4. rmsg' = wire[1]
    BY <1>1, <1>4
  <2>5. QED
    BY <2>2, <2>3, <2>4 DEF right
<1>9. QED
  BY <1>5, <1>6, <1>7, <1>8 DEF PhoenixdInv

(* A reply is lost.                                                         *)
LEMMA KeepLoss == PhoenixdInv /\ loseReply => PhoenixdInv'
<1> SUFFICES ASSUME PhoenixdInv, loseReply PROVE PhoenixdInv'
  OBVIOUS
<1>1. /\ pc' = pc /\ ret' = ret /\ smsg' = smsg /\ rmsg' = rmsg /\ clean' = clean
      /\ asked' = asked /\ UNCHANGED host
  BY DEF loseReply, client
<1>2. PICK k \in DOMAIN wire : wire' = RemoveAt(wire, k)
  BY DEF loseReply
<1>3. wire \in Seq(Reply)
  BY DEF PhoenixdInv, LinkTypes
<1>4. /\ wire' \in Seq(Reply)
      /\ \A i \in DOMAIN wire' : \E j \in DOMAIN wire : wire'[i] = wire[j]
  BY <1>2, <1>3, RemoveOne
<1>5. RightReplies' /\ HostTypes'
  BY <1>1, <1>4, KeepReplies
<1>6. LinkTypes' /\ Asking' /\ OwnRequests'
  BY <1>1, <1>4 DEF PhoenixdInv, LinkTypes, Asking, OwnRequests, handled, host
<1>7. RightTaken'
  BY <1>1 DEF PhoenixdInv, RightTaken, right, cells, file, host
<1>8. QED
  BY <1>5, <1>6, <1>7 DEF PhoenixdInv

(* At the beginning nothing is on its way.                                  *)
LEMMA PhoenixdStart == Init => PhoenixdInv
<1> SUFFICES ASSUME Init PROVE PhoenixdInv
  OBVIOUS
<1>1. HostTypes
  <2>1. disk = Disk /\ fds = <<>>
    BY DEF Init
  <2>2. Disk \in [DOMAIN Disk -> Seq(Cells)]
    BY PhoenixdAssumption
  <2>3. QED
    BY <2>1, <2>2, EmptySeq DEF HostTypes
<1>2. asked = <<>> /\ wire = <<>> /\ DOMAIN <<>> = {}
  BY DEF Init
<1>3. LinkTypes /\ OwnRequests /\ RightReplies
  BY <1>2, EmptySeq DEF LinkTypes, OwnRequests, RightReplies
<1>4. Asking /\ RightTaken
  BY DEF Init, Asking, RightTaken
<1>5. QED
  BY <1>1, <1>3, <1>4 DEF PhoenixdInv

(* The invariant of the calls, for every step.                              *)
LEMMA PhoenixdKept == PhoenixdInv /\ [Next]_phdVars => PhoenixdInv'
<1> SUFFICES ASSUME PhoenixdInv, [Next]_phdVars PROVE PhoenixdInv'
  OBVIOUS
<1>1. CASE call
  BY <1>1, KeepCall
<1>2. CASE plo
  <2>1. CASE msg_write
    BY <2>1, KeepWrite
  <2>2. CASE timeout
    BY <2>2, KeepTimeout
  <2>3. CASE \E n \in 1..Len(wire) : msg_read(n)
    BY <2>3, KeepRead
  <2>4. QED
    BY <1>2, <2>1, <2>2, <2>3 DEF plo
<1>3. CASE answer
  BY <1>3, KeepAnswer
<1>4. CASE loseReply
  BY <1>4, KeepLoss
<1>5. CASE UNCHANGED phdVars
  BY <1>5 DEF phdVars, client, link, host, PhoenixdInv, HostTypes, LinkTypes, Asking,
              OwnRequests, RightReplies, RightTaken, handled, accept, right, cells, file
<1>6. QED
  BY <1>1, <1>2, <1>3, <1>4, <1>5 DEF Next

(* A call that begins on a quiet line and succeeds has done what it was     *)
(* called for, whatever is lost, late or repeated by msg_send: open gave a  *)
(* handle of the file, read its cells, stat its size, and what write wrote  *)
(* is in the file.                                                          *)
THEOREM AnswersRight == Spec => []RightAnswer
<1>1. PhoenixdInv => RightAnswer
  BY DEF PhoenixdInv, RightTaken, right, RightAnswer
<1>2. QED
  BY <1>1, PhoenixdStart, PhoenixdKept, PTL DEF Spec
=============================================================================
