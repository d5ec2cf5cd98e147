---------------------------- MODULE LoaderProofs ----------------------------
(***************************************************************************)
(* Proofs about the commands that use phfs, for every script, every size   *)
(* of the storage, of the tables and of a transfer, and every sequence of  *)
(* short reads, short writes and errors: aliases keep their meaning, what  *)
(* is reported as loaded is there byte by byte, and what is reported as    *)
(* copied as well unless a write was short, and nothing is left half done. *)
(***************************************************************************)
EXTENDS Loader, TLAPS, WellFoundedInduction, FiniteSetTheorems, SequenceTheorems

(***************************************************************************)
(* Where a command may be, and with which handles open.                    *)
(***************************************************************************)
HasDst == {"copy", "copywrite", "copied"}
HasSrc == HasDst \cup {"copyopen", "stat", "header", "place", "load", "add", "loaded", "kernel",
                       "phdr", "segment", "kernelimg", "imgmap", "magic", "fault"}
Early == {"idle", "line", "copyopen", "stat", "header", "place", "kernel", "kernelimg", "imgmap", "magic"}
Labels == HasSrc \cup {"idle", "line", "copyalias"}

(***************************************************************************)
(* Types.                                                                  *)
(***************************************************************************)
Handles == {NoHandle} \cup [prot : {"raw"}, id : Nat] \cup [prot : {"phoenixd"}, id : Names]
FileEntry == [alias : Names \cup {"cut"}, addr : Nat, size : 0..Word - 1]
ScriptFrame == [h : Handles, lines : Seq(Lines)]
Prog == [image : Seq(Nat), complete : BOOLEAN]
Seg == [seg : DOMAIN Phdr, image : Seq(Nat)]

DeviceTypes ==
  /\ files \in Seq(FileEntry)
  /\ flash \in Seq(Nat) /\ Len(flash) = DevSize
  /\ host \in [DOMAIN host -> Seq(Nat)] /\ DOMAIN host \subseteq Names

SessionTypes == base \in Nat /\ progs \in Seq(Prog) /\ stack \in Seq(ScriptFrame)

LocalTypes ==
  /\ pc \in Labels /\ h \in Handles /\ g \in Handles
  /\ size \in Nat /\ rd \in Nat /\ wr \in Nat
  /\ buf \in Seq(Nat) /\ image \in Seq(Nat) /\ segs \in Seq(Seg)

(* What the command in progress is. *)
Command ==
  /\ pc # "idle" => cmd \in Lines
  /\ pc \in {"copyopen", "copy", "copywrite", "copied", "copyalias"} => cmd.op = "copy"
  /\ pc = "stat" => cmd.op \in {"app", "blob", "kernelimg"}
  /\ pc = "header" => cmd.op = "app"
  /\ pc \in {"place", "load", "add"} => cmd.op \in {"app", "blob"}
  /\ pc = "loaded" => cmd.op \in {"app", "blob", "kernel", "kernelimg"}
  /\ pc \in {"kernel", "phdr", "segment"} => cmd.op = "kernel"
  /\ pc \in {"kernelimg", "imgmap"} => cmd.op = "kernelimg"
  /\ pc = "magic" => cmd.op = "call"
  /\ pc = "fault" => cmd.op = "blob"

(* A handle of the file n, and any handle. *)
denotes(x, n) ==
  \/ x.prot = "raw" /\ x.id \in 1..Len(files) /\ files[x.id].alias = n
  \/ x.prot = "phoenixd" /\ x.id \in DOMAIN host /\ x.id = n
valid(x) ==
  \/ x.prot = "raw" /\ x.id \in 0..Len(files)
  \/ x.prot = "phoenixd" /\ x.id \in DOMAIN host

ValidHandles ==
  /\ pc \in HasSrc => valid(h)
  /\ pc \in HasSrc /\ cmd.op # "copy" => denotes(h, cmd.name)
  /\ pc \in HasDst => valid(g)

(***************************************************************************)
(* Files on their way.                                                     *)
(***************************************************************************)
Unstarted ==
  pc \in Early => rd = 0 /\ wr = 0 /\ buf = <<>> /\ image = <<>> /\ segs = <<>>

Reliable == lapses \subseteq {"sync", "short"}

(* The bytes img are those of the file behind x from offs on. *)
bytesFrom(img, x, offs) ==
  \A i \in 1..Len(img) : /\ aliasAddr(x) + offs + i <= Len(medium(x))
                         /\ img[i] = medium(x)[aliasAddr(x) + offs + i]

Loading ==
  /\ pc \in {"header", "place", "load", "add", "imgmap"} => size = sizeOf(h)
  /\ pc = "load" => Len(image) = rd /\ rd <= size /\ bytesFrom(image, h, 0)
  /\ pc = "add" /\ Reliable => image = contents(h)
  /\ pc = "loaded" /\ Reliable /\ cmd.op \in {"app", "blob"} =>
       Last(progs) = [image |-> contents(h), complete |-> TRUE]

rightSegment(s) ==
  s.image = SubSeq(contents(h), Phdr[s.seg].offs + 1, Phdr[s.seg].offs + Phdr[s.seg].size)

(* The segment of the program header v, if it has one, has been loaded. *)
segmentLoaded(v) == v \in DOMAIN Phdr => \E i \in 1..Len(segs) : segs[i].seg = v

Segments ==
  /\ pc \in {"phdr", "segment", "loaded"} /\ cmd.op = "kernel" /\ Reliable =>
       /\ \A i \in 1..Len(segs) : rightSegment(segs[i])
       /\ size = Ehdr[contents(h)[1]]
       /\ \A k \in 1..rd : segmentLoaded(contents(h)[1 + k])
       /\ pc = "segment" => wr = contents(h)[1 + (rd + 1)]
       /\ pc = "loaded" => rd = size
  /\ pc = "phdr" => image = <<>>
  /\ pc = "segment" =>
       /\ wr \in DOMAIN Phdr /\ Len(image) <= Phdr[wr].size
       /\ Reliable => /\ bytesFrom(image, h, Phdr[wr].offs)
                      /\ Len(image) > 0 => Phdr[wr].offs + Len(image) <= sizeOf(h)

(* Bytes from offs on that belong to an alias: the code subtracts modulo Word. *)
within(x, offs, n) == x.prot = "raw" /\ x.id # 0 => n <= (files[x.id].size - offs) % Word

(* The first wr bytes of the source have gone to the destination, unless a *)
(* write was short or the two overlap.                                     *)
FullWrites == "short" \notin lapses
from == deviceOffs(h, cmd.offs)
to == deviceOffs(g, cmd.doffs)
overlap(r, w) ==
  h.prot = g.prot /\ (h.prot = "phoenixd" => h.id = g.id) /\ from < to + w /\ to < from + r

Written == \A i \in 1..wr : medium(g)[to + i] = medium(h)[from + i]
OnTheWay == \A i \in 1..Len(buf) : buf[i] = medium(h)[from + wr + i]

Copying ==
  /\ pc \in {"copyopen", "copy", "copywrite", "copied"} =>
       size <= Word - 1 /\ (h.prot = "raw" /\ h.id # 0 => cmd.offs = 0)
  /\ pc = "copyalias" => wr <= Word - 1
  /\ pc \in HasDst =>
       /\ wr + Len(buf) = rd /\ rd <= size /\ within(h, cmd.offs, rd)
       /\ rd > 0 => from + rd <= Len(medium(h))
       /\ wr > 0 => to + wr <= Len(medium(g))
       /\ pc # "copywrite" => buf = <<>>
       /\ ~overlap(rd, wr) /\ FullWrites => Written /\ OnTheWay
  /\ pc = "copied" =>
       \/ rd = size \/ from + rd >= Len(medium(h))
       \/ h.prot = "raw" /\ h.id # 0 /\ rd = (files[h.id].size - cmd.offs) % Word

(***************************************************************************)
(* What is open.                                                           *)
(***************************************************************************)
inUse(x) ==
  (IF pc \in HasSrc /\ x = h THEN 1 ELSE 0) + (IF pc \in HasDst /\ x = g THEN 1 ELSE 0)
excess(x) == timesOpen(x) - inUse(x)
frames(x) == {i \in 1..Len(stack) : stack[i].h = x}
script(x) == \E n \in DOMAIN Scripts : denotes(x, n)

OpenHandles ==
  /\ IsABag(open) /\ BagToSet(open) \subseteq Handles \ {NoHandle}
  /\ \A x \in Handles : excess(x) >= 0 /\ (excess(x) > 0 => script(x))
  /\ \A i \in 1..Len(stack) : stack[i].h = NoHandle \/ script(stack[i].h)

(* As long as nothing has failed. *)
Balanced ==
  ~failed => \A x \in Handles \ {NoHandle} : excess(x) = Cardinality(frames(x))

Synced == synced \/ "sync" \in lapses \/ (pc \in HasDst /\ g.prot = "raw")
Complete == ~failed => \A i \in 1..Len(progs) : progs[i].complete

LoaderInv ==
  /\ DeviceTypes /\ SessionTypes /\ LocalTypes /\ Command /\ ValidHandles
  /\ Unstarted /\ Loading /\ Segments /\ Copying
  /\ OpenHandles /\ Balanced /\ Synced /\ Complete /\ AliasDenotes

(***************************************************************************)
(* Numbers.                                                                *)
(***************************************************************************)
(* Min of a set of numbers.                                                 *)
LEMMA MinIs ==
  ASSUME NEW S \in SUBSET Nat, S # {}
  PROVE  Min(S) \in S /\ \A y \in S : Min(S) <= y
<1>1. PICK n \in S : \A k \in S : <<k, n>> \notin OpToRel(<, Nat)
  BY NatLessThanWellFounded, WFMin, Zenon
<1>2. \A k \in S : ~(k < n)
  BY <1>1, Zenon DEF OpToRel
<1>3. \E x \in S : \A y \in S : x <= y
  BY <1>2
<1>4. QED
  BY <1>3 DEF Min

(* Elements behind the least one do not change it.                          *)
LEMMA MinSame ==
  ASSUME NEW S \in SUBSET Nat, S # {}, NEW T \in SUBSET Nat, S \subseteq T,
         \A y \in T : y \in S \/ \A x \in S : x <= y
  PROVE  Min(T) = Min(S)
<1>1. Min(S) \in S /\ \A y \in S : Min(S) <= y
  BY MinIs
<1>2. Min(T) \in T /\ \A y \in T : Min(T) <= y
  BY MinIs
<1>3. Min(T) <= Min(S)
  BY <1>1, <1>2
<1>4. Min(S) <= Min(T)
  BY <1>1, <1>2
<1>5. Min(S) \in Nat /\ Min(T) \in Nat
  BY <1>1, <1>2
<1>6. \A x, y \in Nat : x <= y /\ y <= x => x = y
  OBVIOUS
<1>7. QED
  BY <1>3, <1>4, <1>5, <1>6, Zenon

(* The smaller of two numbers.                                              *)
LEMMA LeastIs ==
  ASSUME NEW a \in Int, NEW b \in Int
  PROVE  least(a, b) = IF a <= b THEN a ELSE b
<1>1. \E x \in {a, b} : \A y \in {a, b} : x <= y
  OBVIOUS
<1>2. least(a, b) \in {a, b} /\ \A y \in {a, b} : least(a, b) <= y
  BY <1>1 DEF least, Min
<1>3. QED
  BY <1>2

(* The larger of two numbers.                                               *)
LEMMA MaxIs ==
  ASSUME NEW a \in Int, NEW b \in Int
  PROVE  Max({a, b}) = IF a >= b THEN a ELSE b
<1>1. \E x \in {a, b} : \A y \in {a, b} : x >= y
  OBVIOUS
<1>2. Max({a, b}) \in {a, b} /\ \A y \in {a, b} : Max({a, b}) >= y
  BY <1>1 DEF Max
<1>3. QED
  BY <1>2

(* The unsigned difference shrinks with what was read.                      *)
LEMMA ModMinus ==
  ASSUME NEW W \in Nat \ {0}, NEW a \in Int, NEW r \in Nat, r <= a % W
  PROVE  (a - r) % W = (a % W) - r
<1> DEFINE b == a - r
           p == b \div W
           q == a \div W
<1>1. W \in Nat /\ W > 0 /\ b \in Int
  OBVIOUS
<1>2. q \in Int /\ a = W * q + (a % W) /\ a % W \in 0..W - 1
  BY <1>1
<1>3. p \in Int /\ b = W * p + (b % W) /\ b % W \in 0..W - 1
  BY <1>1
<1> HIDE DEF p, q
<1>4. W * q + ((a % W) - r) = W * p + (b % W)
  BY <1>2, <1>3
<1> DEFINE m == (a % W) - r
           n == b % W
<1>5. m \in 0..W - 1 /\ n \in 0..W - 1
  BY <1>2, <1>3
<1> HIDE DEF m, n
<1>6. W * q + m = W * p + n
  BY <1>4 DEF m, n
<1>7. q = p
  <2>1. CASE q < p
    <3>1. W * (q + 1) <= W * p
      BY <1>1, <1>2, <1>3, <2>1, SMTT(30)
    <3>2. QED
      BY <1>1, <1>2, <1>3, <1>5, <1>6, <3>1
  <2>2. CASE p < q
    <3>1. W * (p + 1) <= W * q
      BY <1>1, <1>2, <1>3, <2>2, SMTT(30)
    <3>2. QED
      BY <1>1, <1>2, <1>3, <1>5, <1>6, <3>1
  <2>3. QED
    BY <1>2, <1>3, <2>1, <2>2
<1>8. m = n
  BY <1>1, <1>2, <1>5, <1>6, <1>7
<1>9. QED
  BY <1>8 DEF m, n, b

(***************************************************************************)
(* phfs.                                                                   *)
(***************************************************************************)
(* The file behind a handle.                                                *)
LEMMA MediumType ==
  ASSUME DeviceTypes, NEW x, valid(x)
  PROVE  medium(x) \in Seq(Nat) /\ Len(medium(x)) \in Nat /\ aliasAddr(x) \in Nat
<1>1. CASE x.prot = "raw" /\ x.id \in 0..Len(files)
  <2>1. medium(x) \in Seq(Nat)
    BY <1>1 DEF medium, DeviceTypes
  <2>2. x.id # 0 => files[x.id] \in FileEntry
    <3>1. Len(files) \in Nat
      BY LenProperties DEF DeviceTypes
    <3>2. x.id # 0 => x.id \in 1..Len(files)
      BY <1>1, <3>1
    <3>3. QED
      BY <3>2, ElementOfSeq DEF DeviceTypes
  <2>3. aliasAddr(x) \in Nat
    BY <2>2 DEF aliasAddr, FileEntry
  <2>4. QED
    BY <2>1, <2>3, LenProperties
<1>2. CASE x.prot = "phoenixd" /\ x.id \in DOMAIN host
  <2>1. x.prot # "raw"
    BY <1>2
  <2>2. medium(x) \in Seq(Nat) /\ aliasAddr(x) = 0
    BY <1>2, <2>1 DEF medium, DeviceTypes, aliasAddr
  <2>3. QED
    BY <2>2, LenProperties
<1>3. QED
  BY <1>1, <1>2 DEF valid

(* The entry of an alias.                                                   *)
LEMMA EntryType ==
  ASSUME DeviceTypes, NEW x, valid(x), x.prot = "raw", x.id # 0
  PROVE  /\ x.id \in 1..Len(files) /\ files[x.id].addr \in Nat
         /\ files[x.id].size \in 0..Word - 1
         /\ \A offs \in Nat : (files[x.id].size - offs) % Word \in 0..Word - 1
<1>1. Len(files) \in Nat
  BY LenProperties DEF DeviceTypes
<1>2. x.id \in 1..Len(files)
  BY <1>1 DEF valid
<1>3. files[x.id] \in FileEntry
  BY <1>2, ElementOfSeq DEF DeviceTypes
<1> DEFINE z == files[x.id].size
<1>4. z \in 0..Word - 1 /\ files[x.id].addr \in Nat
  BY <1>3 DEF FileEntry
<1> HIDE DEF z
<1>5. Word \in Nat \ {0}
  BY PhfsAssumption
<1>6. \A offs \in Nat : (z - offs) % Word \in 0..Word - 1
  BY <1>4, <1>5
<1>7. QED
  BY <1>2, <1>4, <1>6 DEF z

(* What phfs_read returns: some of the bytes of the file, and nothing only  *)
(* if there is nothing.                                                     *)
LEMMA ReadFacts ==
  ASSUME DeviceTypes, NEW x, valid(x), NEW offs \in Nat, NEW len \in Nat,
         NEW data \in phfs_read(x, offs, len)
  PROVE  LET at == deviceOffs(x, offs)
         IN /\ data \in Seq(Nat) /\ Len(data) \in Nat /\ Len(data) <= len
            /\ Len(data) > 0 => at + Len(data) <= Len(medium(x))
            /\ \A i \in 1..Len(data) : data[i] = medium(x)[at + i]
            /\ within(x, offs, Len(data))
            /\ data = <<>> => \/ len = 0 \/ at >= Len(medium(x))
                              \/ x.prot = "raw" /\ x.id # 0 /\ (files[x.id].size - offs) % Word = 0
<1> DEFINE m == medium(x)
           at == deviceOffs(x, offs)
           lim == limit(x, offs, len)
           e == least(at + lim, Len(m))
           all == SubSeq(m, at + 1, e)
           left == (files[x.id].size - offs) % Word
           alias == x.prot = "raw" /\ x.id # 0
<1>1. m \in Seq(Nat) /\ Len(m) \in Nat /\ at \in Nat
  BY MediumType DEF deviceOffs
<1>2. alias => left \in Nat
  <2>1. alias => left \in 0..Word - 1
    BY EntryType
  <2> HIDE DEF left
  <2>2. QED
    BY <2>1
<1>3. lim = (IF alias THEN IF len <= left THEN len ELSE left ELSE len)
  <2>1. CASE alias
    <3>1. lim = least(len, left)
      BY <2>1 DEF limit
    <3> HIDE DEF lim, left
    <3>2. least(len, left) = IF len <= left THEN len ELSE left
      BY <1>2, <2>1, LeastIs
    <3>3. QED
      BY <2>1, <3>1, <3>2
  <2>2. CASE ~alias
    BY <2>2 DEF limit
  <2>3. QED
    BY <2>1, <2>2
<1> HIDE DEF lim, left, alias, m, at
<1>4. lim \in Nat /\ lim <= len /\ (alias => lim <= left) /\ (lim = 0 => len = 0 \/ (alias /\ left = 0))
  BY <1>2, <1>3
<1>5. e = (IF at + lim <= Len(m) THEN at + lim ELSE Len(m)) /\ e \in Nat
  BY <1>1, <1>4, LeastIs
<1> HIDE DEF e
<1>6. \A i \in at + 1..e : m[i] \in Nat
  <2> SUFFICES ASSUME NEW i \in at + 1..e PROVE m[i] \in Nat
    OBVIOUS
  <2>1. i \in 1..Len(m)
    BY <1>1, <1>4, <1>5
  <2>2. QED
    BY <1>1, <2>1, ElementOfSeq
<1>7. /\ all \in Seq(Nat) /\ Len(all) = IF at + 1 <= e THEN e - (at + 1) + 1 ELSE 0
      /\ \A i \in 1..e - (at + 1) + 1 : all[i] = m[(at + 1) + i - 1]
  BY <1>1, <1>5, <1>6, SubSeqProperties
<1>8. phfs_read(x, offs, len) = {SubSeq(all, 1, n) : n \in least(1, Len(all))..Len(all)}
  BY DEF phfs_read, available, all, e, lim, at, m
<1> HIDE DEF all
<1>9. Len(all) \in Nat /\ (at + 1 <= e => Len(all) = e - at) /\ (at + 1 > e => Len(all) = 0)
  <2>1. Len(all) = IF at + 1 <= e THEN e - (at + 1) + 1 ELSE 0
    BY <1>7
  <2>2. at \in Nat /\ e \in Nat
    BY <1>1, <1>5
  <2>3. QED
    BY <2>1, <2>2
<1>10. PICK n \in least(1, Len(all))..Len(all) : data = SubSeq(all, 1, n)
  BY <1>8
<1>11. n \in 0..Len(all) /\ (n = 0 => Len(all) = 0)
  BY <1>9, LeastIs
<1>12. \A i \in 1..n : all[i] \in Nat
  <2> SUFFICES ASSUME NEW i \in 1..n PROVE all[i] \in Nat
    OBVIOUS
  <2>1. i \in 1..Len(all)
    BY <1>9, <1>11
  <2>2. QED
    BY <1>7, <2>1, ElementOfSeq
<1>13. /\ data \in Seq(Nat) /\ Len(data) = IF 1 <= n THEN n - 1 + 1 ELSE 0
       /\ \A i \in 1..n - 1 + 1 : data[i] = all[1 + i - 1]
  BY <1>10, <1>11, <1>12, SubSeqProperties
<1>14. Len(data) = n
  BY <1>11, <1>13
<1>15. \A i \in 1..Len(data) : data[i] = m[at + i]
  <2> SUFFICES ASSUME NEW i \in 1..n PROVE data[i] = m[at + i]
    BY <1>14
  <2>1. i \in 1..n - 1 + 1 /\ 1 + i - 1 = i /\ i \in 1..e - (at + 1) + 1 /\ (at + 1) + i - 1 = at + i
    BY <1>1, <1>5, <1>9, <1>11, SMTT(30)
  <2>2. data[i] = all[i]
    BY <1>13, <2>1
  <2>3. all[i] = m[at + i]
    BY <1>7, <2>1
  <2>4. QED
    BY <2>2, <2>3
<1>16. n <= len /\ (n > 0 => at + n <= Len(m)) /\ (alias => n <= left)
  BY <1>1, <1>2, <1>4, <1>5, <1>9, <1>11, SMTT(30)
<1>17. n = 0 => len = 0 \/ at >= Len(m) \/ (alias /\ left = 0)
  BY <1>1, <1>4, <1>5, <1>9, <1>11
<1>18. data = <<>> => n = 0
  BY <1>14
<1>19. QED
  BY <1>11, <1>13, <1>14, <1>15, <1>16, <1>17, <1>18 DEF m, at, alias, left, within

(* The handle phfs_open yields.                                             *)
LEMMA OpenedHandle ==
  ASSUME DeviceTypes, NEW alias, NEW file \in Names \cup {None}, NEW create \in BOOLEAN,
         NEW x \in phfs_open(alias, file, create)
  PROVE  /\ x \in Handles /\ x # NoHandle
         /\ \/ /\ x.prot = "phoenixd" /\ x.id = file /\ file \in Names
               /\ ~create => file \in DOMAIN host
            \/ /\ x.prot = "raw" /\ x.id \in 0..Len(files) /\ (file = None => x.id = 0)
               /\ file # None => denotes(x, file)
<1>1. Len(files) \in Nat
  BY LenProperties DEF DeviceTypes
<1>2. CASE devices[Min(named(devices, alias))].prot = "phoenixd"
  <2>1. x = handle("phoenixd", file) /\ (file \in DOMAIN host \/ (create /\ file # None))
    BY <1>2 DEF phfs_open
  <2>2. file \in Names
    BY <2>1 DEF DeviceTypes
  <2>3. x = [prot |-> "phoenixd", id |-> file]
    BY <2>1 DEF handle
  <2>4. x \in Handles /\ x # NoHandle /\ x.prot = "phoenixd" /\ x.id = file
    BY <2>2, <2>3 DEF Handles, NoHandle, handle
  <2>5. QED
    BY <2>1, <2>2, <2>4
<1>3. CASE devices[Min(named(devices, alias))].prot # "phoenixd" /\ file = None
  <2>1. x = handle("raw", 0)
    BY <1>3 DEF phfs_open
  <2>2. x = [prot |-> "raw", id |-> 0]
    BY <2>1 DEF handle
  <2>3. x \in Handles /\ x # NoHandle /\ x.prot = "raw" /\ x.id = 0
    BY <2>2 DEF Handles, NoHandle, handle
  <2>4. QED
    BY <1>1, <1>3, <2>3
<1>4. CASE devices[Min(named(devices, alias))].prot # "phoenixd" /\ file # None
  <2>1. PICK i \in named(files, file) : x = handle("raw", i)
    BY <1>4 DEF phfs_open
  <2>2. i \in 1..Len(files) /\ files[i].alias = file
    BY <2>1 DEF named, DeviceTypes
  <2>3. x = [prot |-> "raw", id |-> i]
    BY <2>1 DEF handle
  <2>4. i \in Nat
    BY <1>1, <2>2
  <2>5. x \in Handles /\ x # NoHandle /\ x.prot = "raw" /\ x.id = i
    BY <2>3, <2>4 DEF Handles, NoHandle, handle
  <2>6. denotes(x, file)
    BY <2>2, <2>5 DEF denotes
  <2>7. QED
    BY <1>1, <1>4, <2>2, <2>5, <2>6
<1>5. QED
  BY <1>2, <1>3, <1>4

Grows ==
  /\ Len(files) <= Len(files') /\ \A i \in 1..Len(files) : files'[i] = files[i]
  /\ DOMAIN host \subseteq DOMAIN host'

(* A table that grows, and a host that gets files, keep the handles.        *)
LEMMA StillDenotes ==
  ASSUME DeviceTypes, DeviceTypes', Grows, NEW x
  PROVE  /\ valid(x) => valid(x)'
         /\ \A n : denotes(x, n) => denotes(x, n)'
         /\ script(x) => script(x)'
<1>1. Len(files) \in Nat /\ Len(files') \in Nat
  BY LenProperties DEF DeviceTypes
<1>2. ASSUME valid(x) PROVE valid(x)'
  BY <1>1, <1>2 DEF valid, Grows
<1>3. ASSUME NEW n, denotes(x, n) PROVE denotes(x, n)'
  <2>1. CASE x.prot = "raw" /\ x.id \in 1..Len(files) /\ files[x.id].alias = n
    <3>1. x.id \in 1..Len(files') /\ files'[x.id] = files[x.id]
      BY <1>1, <2>1 DEF Grows
    <3>2. QED
      BY <2>1, <3>1 DEF denotes
  <2>2. CASE x.prot = "phoenixd" /\ x.id \in DOMAIN host /\ x.id = n
    BY <2>2 DEF denotes, Grows
  <2>3. QED
    BY <1>3, <2>1, <2>2 DEF denotes
<1>4. script(x) => script(x)'
  BY <1>3 DEF script
<1>5. QED
  BY <1>2, <1>3, <1>4

(* A handle of a file is one.                                               *)
LEMMA DenotesValid ==
  ASSUME DeviceTypes, NEW x, NEW n, denotes(x, n)
  PROVE  valid(x)
<1>1. Len(files) \in Nat
  BY LenProperties DEF DeviceTypes
<1>2. QED
  BY <1>1 DEF denotes, valid

(***************************************************************************)
(* Bags of handles.                                                        *)
(***************************************************************************)
times(B, x) == IF x \in DOMAIN B THEN B[x] ELSE 0

(* One handle.                                                              *)
LEMMA OneBag ==
  ASSUME NEW y
  PROVE  /\ IsABag(one(y)) /\ DOMAIN one(y) = {y}
         /\ \A x : times(one(y), x) = IF x = y THEN 1 ELSE 0
BY DEF one, SetToBag, IsABag, times

(* A bag counts.                                                            *)
LEMMA TimesNat ==
  ASSUME NEW B, IsABag(B), NEW x
  PROVE  times(B, x) \in Nat /\ (x \in DOMAIN B <=> times(B, x) > 0)
BY DEF IsABag, times

(* phfs_open puts a handle into the bag.                                    *)
LEMMA BagPlus ==
  ASSUME NEW B, IsABag(B), NEW C, IsABag(C)
  PROVE  /\ IsABag(B (+) C) /\ DOMAIN (B (+) C) = DOMAIN B \cup DOMAIN C
         /\ \A x : times(B (+) C, x) = times(B, x) + times(C, x)
<1> DEFINE D == B (+) C
<1>1. D = [e \in DOMAIN B \cup DOMAIN C |-> times(B, e) + times(C, e)]
  BY DEF (+), times
<1> HIDE DEF D
<1>2. DOMAIN D = DOMAIN B \cup DOMAIN C /\ \A e \in DOMAIN B \cup DOMAIN C : D[e] = times(B, e) + times(C, e)
  BY <1>1
<1>3. \A e \in DOMAIN B \cup DOMAIN C : times(B, e) + times(C, e) \in {n \in Nat : n > 0}
  BY TimesNat
<1>4. IsABag(D)
  BY <1>1, <1>3 DEF IsABag
<1>5. ASSUME NEW x PROVE times(D, x) = times(B, x) + times(C, x)
  <2>1. CASE x \in DOMAIN B \cup DOMAIN C
    BY <1>2, <2>1 DEF times
  <2>2. CASE x \notin DOMAIN B \cup DOMAIN C
    BY <1>2, <2>2 DEF times
  <2>3. QED
    BY <2>1, <2>2
<1>6. QED
  BY <1>2, <1>4, <1>5 DEF D

(* phfs_close takes handles out of it.                                      *)
LEMMA BagMinus ==
  ASSUME NEW B, IsABag(B), NEW C, IsABag(C)
  PROVE  /\ IsABag(B (-) C) /\ DOMAIN (B (-) C) \subseteq DOMAIN B
         /\ \A x : times(B (-) C, x) = IF times(B, x) > times(C, x) THEN times(B, x) - times(C, x) ELSE 0
<1> DEFINE f == [e \in DOMAIN B |-> times(B, e) - times(C, e)]
           D == B (-) C
<1>0. \A e \in DOMAIN B : (IF e \in DOMAIN C THEN B[e] - C[e] ELSE B[e]) = times(B, e) - times(C, e)
  BY DEF times, IsABag
<1>1. D = [e \in {d \in DOMAIN f : f[d] > 0} |-> f[e]]
  <2>1. f = [e \in DOMAIN B |-> IF e \in DOMAIN C THEN B[e] - C[e] ELSE B[e]]
    BY <1>0
  <2> HIDE DEF f
  <2>2. QED
    BY <2>1, Zenon DEF (-), D
<1> HIDE DEF D
<1>2. DOMAIN f = DOMAIN B /\ \A e \in DOMAIN B : f[e] = times(B, e) - times(C, e)
  OBVIOUS
<1>3. \A e \in DOMAIN B : f[e] \in Int
  BY <1>2, TimesNat
<1> HIDE DEF f
<1>4. DOMAIN D = {d \in DOMAIN B : f[d] > 0} /\ \A e \in DOMAIN D : D[e] = f[e]
  BY <1>1, <1>2
<1>5. IsABag(D)
  <2>1. D \in [DOMAIN D -> {n \in Nat : n > 0}]
    BY <1>1, <1>2, <1>3, <1>4
  <2>2. QED
    BY <2>1 DEF IsABag
<1>6. ASSUME NEW x PROVE times(D, x) = IF times(B, x) > times(C, x) THEN times(B, x) - times(C, x) ELSE 0
  <2>0. times(B, x) \in Nat /\ times(C, x) \in Nat
    BY TimesNat
  <2>1. CASE x \in DOMAIN B /\ f[x] > 0
    BY <1>2, <1>4, <2>0, <2>1 DEF times
  <2>2. CASE x \in DOMAIN B /\ ~(f[x] > 0)
    <3>1. x \notin DOMAIN D /\ ~(times(B, x) > times(C, x))
      BY <1>2, <1>4, <2>0, <2>2
    <3>2. QED
      BY <3>1 DEF times
  <2>3. CASE x \notin DOMAIN B
    <3>1. x \notin DOMAIN D /\ times(B, x) = 0
      BY <1>4, <2>3 DEF times
    <3>2. QED
      BY <2>0, <3>1 DEF times
  <2>4. QED
    BY <2>1, <2>2, <2>3
<1>7. QED
  BY <1>4, <1>5, <1>6 DEF D

(***************************************************************************)
(* The end of a command.                                                   *)
(***************************************************************************)
(* Nothing is left of it in its locals.                                     *)
LEMMA Forgotten ==
  ASSUME forget
  PROVE  /\ LocalTypes' /\ Command' /\ ValidHandles' /\ Unstarted' /\ Loading' /\ Segments' /\ Copying'
         /\ pc' = "idle" /\ \A x : inUse(x)' = 0
<1>1. /\ pc' = "idle" /\ h' = NoHandle /\ g' = NoHandle
      /\ size' = 0 /\ rd' = 0 /\ wr' = 0 /\ buf' = <<>> /\ image' = <<>> /\ segs' = <<>>
  BY DEF forget
<1>2. pc' \notin HasSrc /\ pc' \notin HasDst /\ pc' \in Labels
  BY <1>1 DEF HasSrc, HasDst, Labels
<1>3. LocalTypes'
  <2>1. NoHandle \in Handles /\ <<>> \in Seq(Nat) /\ <<>> \in Seq(Seg)
    BY EmptySeq DEF Handles
  <2>2. QED
    BY <1>1, <1>2, <2>1 DEF LocalTypes
<1>4. Command' /\ ValidHandles'
  BY <1>1, <1>2 DEF Command, ValidHandles
<1>5. Unstarted' /\ Loading' /\ Segments'
  BY <1>1 DEF Unstarted, Loading, Segments
<1>6. Copying'
  BY <1>1, <1>2 DEF Copying
<1>7. \A x : inUse(x)' = 0
  BY <1>2 DEF inUse
<1>8. QED
  BY <1>1, <1>3, <1>4, <1>5, <1>6, <1>7

(* The bag of open handles counts them.                                     *)
LEMMA TimesOpen ==
  /\ \A x : timesOpen(x) = times(open, x)
  /\ \A x : timesOpen(x)' = times(open', x)
BY DEF timesOpen, times, BagIn, BagToSet

(* A command that opens and closes its own handles only.                    *)
LEMMA ExcessKept ==
  ASSUME LoaderInv, DeviceTypes', Grows, IsABag(open'), DOMAIN open' \subseteq Handles \ {NoHandle},
         \A x \in Handles : excess(x)' = excess(x),
         (stack' = stack /\ failed' = failed) \/ (stack' = <<>> /\ failed')
  PROVE  OpenHandles' /\ Balanced'
<1>1. DeviceTypes /\ OpenHandles /\ Balanced
  BY DEF LoaderInv
<1>2. \A x \in Handles : excess(x)' >= 0 /\ (excess(x)' > 0 => script(x)')
  <2> SUFFICES ASSUME NEW x \in Handles PROVE excess(x)' >= 0 /\ (excess(x)' > 0 => script(x)')
    OBVIOUS
  <2>1. excess(x) >= 0 /\ (excess(x) > 0 => script(x))
    BY <1>1 DEF OpenHandles
  <2>2. excess(x)' = excess(x)
    OBVIOUS
  <2>3. script(x) => script(x)'
    BY <1>1, StillDenotes
  <2>4. QED
    BY <2>1, <2>2, <2>3
<1>3. (\A i \in 1..Len(stack) : stack[i].h = NoHandle \/ script(stack[i].h))'
  <2>1. CASE stack' = <<>>
    BY <2>1
  <2>2. CASE stack' = stack
    <3> SUFFICES ASSUME NEW i \in 1..Len(stack') PROVE (stack[i].h = NoHandle \/ script(stack[i].h))'
      OBVIOUS
    <3>1. PICK y : y = stack[i].h
      OBVIOUS
    <3>2. y = NoHandle \/ script(y)
      BY <1>1, <2>2, <3>1 DEF OpenHandles
    <3>3. script(y) => script(y)'
      BY <1>1, StillDenotes
    <3>4. y = stack'[i].h
      BY <2>2, <3>1
    <3>5. QED
      BY <3>2, <3>3, <3>4 DEF script, denotes
  <2>3. QED
    BY <2>1, <2>2
<1>4. OpenHandles'
  BY <1>2, <1>3 DEF OpenHandles, BagToSet
<1>5. Balanced'
  <2>1. CASE failed'
    BY <2>1 DEF Balanced
  <2>2. CASE stack' = stack /\ failed' = failed
    <3>1. \A x : frames(x)' = frames(x)
      BY <2>2 DEF frames
    <3>2. QED
      BY <1>1, <2>2, <3>1 DEF Balanced
  <2>3. QED
    BY <2>1, <2>2
<1>6. QED
  BY <1>4, <1>5

(* The numbers of a bag.                                                    *)
LEMMA ExcessIs ==
  ASSUME LoaderInv, NEW x
  PROVE  excess(x) = times(open, x) - inUse(x) /\ times(open, x) \in Nat /\ inUse(x) \in Nat
<1>1. IsABag(open)
  BY DEF LoaderInv, OpenHandles
<1>2. inUse(x) \in Nat
  BY DEF inUse
<1>3. QED
  BY <1>1, <1>2, TimesNat, TimesOpen DEF excess

(* phfs_close of the file.                                                  *)
LEMMA CloseSource ==
  ASSUME LoaderInv, pc \in HasSrc \ HasDst, phfs_close(one(h)), pc' \notin HasSrc
  PROVE  /\ UNCHANGED <<files, devices, flash, host>>
         /\ IsABag(open') /\ DOMAIN open' \subseteq Handles \ {NoHandle}
         /\ \A x \in Handles : excess(x)' = excess(x)
         /\ Synced'
<1>1. UNCHANGED <<files, devices, flash, host>> /\ open' = open (-) one(h)
  BY DEF phfs_close, tables
<1>2. IsABag(open) /\ DOMAIN open \subseteq Handles \ {NoHandle}
  BY DEF LoaderInv, OpenHandles, BagToSet
<1>3. IsABag(one(h)) /\ DOMAIN one(h) = {h} /\ \A x : times(one(h), x) = IF x = h THEN 1 ELSE 0
  BY OneBag
<1>4. /\ IsABag(open') /\ DOMAIN open' \subseteq DOMAIN open
      /\ \A x : times(open', x) = IF times(open, x) > times(one(h), x)
                                  THEN times(open, x) - times(one(h), x) ELSE 0
  BY <1>1, <1>2, <1>3, BagMinus
<1>5. pc' \notin HasDst
  BY DEF HasSrc
<1>6. ASSUME NEW x \in Handles PROVE excess(x)' = excess(x)
  <2>1. excess(x) = times(open, x) - inUse(x) /\ times(open, x) \in Nat /\ excess(x) >= 0
    BY ExcessIs DEF LoaderInv, OpenHandles
  <2>2. inUse(x) = (IF x = h THEN 1 ELSE 0) /\ inUse(x)' = 0
    BY <1>5 DEF inUse
  <2>3. excess(x)' = times(open', x) - 0
    BY <2>2, TimesOpen DEF excess
  <2>4. times(open', x) = times(open, x) - (IF x = h THEN 1 ELSE 0)
    <3>1. times(one(h), x) = IF x = h THEN 1 ELSE 0
      BY <1>3
    <3>2. times(open', x) = IF times(open, x) > times(one(h), x) THEN times(open, x) - times(one(h), x) ELSE 0
      BY <1>4
    <3>3. QED
      BY <2>1, <2>2, <3>1, <3>2
  <2>5. QED
    BY <2>1, <2>2, <2>3, <2>4
<1>7. Synced'
  <2>1. synced \/ "sync" \in lapses
    BY DEF LoaderInv, Synced
  <2>2. synced' \/ "sync" \in lapses'
    BY <2>1 DEF phfs_close
  <2>3. QED
    BY <2>2 DEF Synced
<1>8. QED
  BY <1>1, <1>2, <1>4, <1>6, <1>7

(* phfs_close of both files of a copy.                                      *)
LEMMA CloseBoth ==
  ASSUME LoaderInv, pc \in HasDst, phfs_close(opened(one(h), g)), pc' \notin HasSrc
  PROVE  /\ UNCHANGED <<files, devices, flash, host>>
         /\ IsABag(open') /\ DOMAIN open' \subseteq Handles \ {NoHandle}
         /\ \A x \in Handles : excess(x)' = excess(x)
         /\ Synced'
<1> DEFINE C == opened(one(h), g)
<1>1. UNCHANGED <<files, devices, flash, host>> /\ open' = open (-) C
  BY DEF phfs_close, tables
<1>2. IsABag(open) /\ DOMAIN open \subseteq Handles \ {NoHandle}
  BY DEF LoaderInv, OpenHandles, BagToSet
<1>3. IsABag(one(h)) /\ DOMAIN one(h) = {h} /\ \A x : times(one(h), x) = IF x = h THEN 1 ELSE 0
  BY OneBag
<1>a. IsABag(one(g)) /\ DOMAIN one(g) = {g} /\ \A x : times(one(g), x) = IF x = g THEN 1 ELSE 0
  BY OneBag
<1>b. IsABag(C) /\ DOMAIN C = {h, g} /\ \A x : times(C, x) = times(one(h), x) + times(one(g), x)
  <2>1. C = one(h) (+) one(g)
    BY DEF opened
  <2> HIDE DEF C
  <2>2. QED
    BY <1>3, <1>a, <2>1, BagPlus
<1> HIDE DEF C
<1>4. /\ IsABag(open') /\ DOMAIN open' \subseteq DOMAIN open
      /\ \A x : times(open', x) = IF times(open, x) > times(C, x)
                                  THEN times(open, x) - times(C, x) ELSE 0
  BY <1>1, <1>2, <1>b, BagMinus
<1>5. pc' \notin HasDst /\ pc \in HasSrc
  BY DEF HasSrc
<1>6. ASSUME NEW x \in Handles PROVE excess(x)' = excess(x)
  <2>1. excess(x) = times(open, x) - inUse(x) /\ times(open, x) \in Nat /\ excess(x) >= 0
    BY ExcessIs DEF LoaderInv, OpenHandles
  <2>2. inUse(x) = (IF x = h THEN 1 ELSE 0) + (IF x = g THEN 1 ELSE 0) /\ inUse(x)' = 0
    BY <1>5 DEF inUse
  <2>3. excess(x)' = times(open', x) - 0
    BY <2>2, TimesOpen DEF excess
  <2>4. times(C, x) = inUse(x) /\ inUse(x) \in Nat
    BY <1>3, <1>a, <1>b, <2>2
  <2>5. times(open', x) = IF times(open, x) > times(C, x) THEN times(open, x) - times(C, x) ELSE 0
    BY <1>4
  <2>6. QED
    BY <2>1, <2>3, <2>4, <2>5
<1>7. Synced'
  <2>1. synced \/ "sync" \in lapses \/ g.prot = "raw"
    BY DEF LoaderInv, Synced
  <2>2. g.prot = "raw" => \E x \in BagToSet(C) : x.prot = "raw"
    BY <1>b DEF BagToSet
  <2>3. synced' \/ "sync" \in lapses'
    BY <2>1, <2>2 DEF phfs_close, C
  <2>4. QED
    BY <2>3 DEF Synced
<1>8. QED
  BY <1>1, <1>2, <1>4, <1>6, <1>7

(* A command that ends: its handles are closed or were never open, and what *)
(* it leaves in the tables is right.                                        *)
LEMMA Ends ==
  ASSUME LoaderInv, forget, DeviceTypes', SessionTypes', Grows, AliasDenotes', Complete', Synced',
         IsABag(open'), DOMAIN open' \subseteq Handles \ {NoHandle},
         \A x \in Handles : excess(x)' = excess(x),
         (stack' = stack /\ failed' = failed) \/ (stack' = <<>> /\ failed')
  PROVE  LoaderInv'
<1>1. OpenHandles' /\ Balanced'
  BY ExcessKept
<1>2. QED
  BY <1>1, Forgotten DEF LoaderInv

(* Tables that do not change.                                               *)
LEMMA TablesSame ==
  ASSUME LoaderInv, UNCHANGED <<files, flash, host>>
  PROVE  DeviceTypes' /\ Grows
<1>1. DeviceTypes'
  BY DEF LoaderInv, DeviceTypes
<1>2. Len(files) \in Nat
  BY LenProperties DEF LoaderInv, DeviceTypes
<1>3. QED
  BY <1>1, <1>2 DEF Grows

(* Names nobody registers keep their meaning.                               *)
LEMMA AliasesSame ==
  ASSUME AliasDenotes, UNCHANGED <<files, promised>>
  PROVE  AliasDenotes'
BY DEF AliasDenotes, named

(* The end of a command that closes its file, or both.                      *)
LEMMA EndsClosed ==
  ASSUME LoaderInv, forget,
         (pc \in HasSrc \ HasDst /\ phfs_close(one(h))) \/ (pc \in HasDst /\ phfs_close(opened(one(h), g))),
         UNCHANGED <<base, promised>>, progs' \in Seq(Prog), failed' \/ progs' = progs,
         (stack' = stack /\ failed' = failed) \/ (stack' = <<>> /\ failed')
  PROVE  LoaderInv'
<1>1. pc' \notin HasSrc
  BY Forgotten DEF HasSrc, HasDst
<1>2. /\ UNCHANGED <<files, devices, flash, host>>
      /\ IsABag(open') /\ DOMAIN open' \subseteq Handles \ {NoHandle}
      /\ \A x \in Handles : excess(x)' = excess(x)
      /\ Synced'
  BY <1>1, CloseSource, CloseBoth
<1>3. DeviceTypes' /\ Grows
  BY <1>2, TablesSame
<1>4. SessionTypes'
  BY EmptySeq DEF LoaderInv, SessionTypes
<1>5. AliasDenotes'
  BY <1>2, AliasesSame DEF LoaderInv
<1>6. Complete'
  BY DEF LoaderInv, Complete
<1>7. QED
  BY <1>2, <1>3, <1>4, <1>5, <1>6, Ends

(***************************************************************************)
(* Commands in progress.                                                   *)
(***************************************************************************)
(* A step that leaves the devices alone and keeps its handles: what is left *)
(* to show of it is what it does to the locals.                             *)
LEMMA Goes ==
  ASSUME LoaderInv, UNCHANGED <<files, flash, host, open, synced, h, g, cmd, stack, failed, promised>>,
         pc \in HasSrc, pc' \in HasSrc, pc' \in HasDst <=> pc \in HasDst, lapses \subseteq lapses'
  PROVE  /\ DeviceTypes' /\ ValidHandles' /\ OpenHandles' /\ Balanced' /\ Synced' /\ AliasDenotes'
         /\ medium(h)' = medium(h) /\ aliasAddr(h)' = aliasAddr(h)
         /\ sizeOf(h)' = sizeOf(h) /\ contents(h)' = contents(h)
<1>1. DeviceTypes' /\ Grows
  BY TablesSame
<1>2. ValidHandles'
  BY DEF LoaderInv, ValidHandles, valid, denotes
<1>3. \A x : inUse(x)' = inUse(x) /\ timesOpen(x)' = timesOpen(x)
  BY DEF inUse, timesOpen, BagIn, BagToSet
<1>4. \A x : excess(x)' = excess(x)
  BY <1>3 DEF excess
<1>5. IsABag(open') /\ DOMAIN open' \subseteq Handles \ {NoHandle}
  BY DEF LoaderInv, OpenHandles, BagToSet
<1>6. OpenHandles' /\ Balanced'
  BY <1>1, <1>4, <1>5, ExcessKept
<1>7. Synced'
  BY DEF LoaderInv, Synced
<1>8. AliasDenotes'
  BY AliasesSame DEF LoaderInv
<1>9. /\ medium(h)' = medium(h) /\ aliasAddr(h)' = aliasAddr(h)
      /\ sizeOf(h)' = sizeOf(h) /\ contents(h)' = contents(h)
  BY DEF medium, aliasAddr, sizeOf, contents
<1>10. QED
  BY <1>1, <1>2, <1>6, <1>7, <1>8, <1>9

(* A command that fails with its file open closes it and starts afresh.     *)
LEMMA CloseAndFail ==
  ASSUME LoaderInv, closeAndFail, pc \in HasSrc \ HasDst
  PROVE  LoaderInv'
<1>1. /\ forget /\ phfs_close(one(h)) /\ stack' = <<>> /\ failed' = TRUE
      /\ UNCHANGED <<base, promised, progs>>
  BY DEF closeAndFail, fail, session
<1>2. progs' \in Seq(Prog)
  BY <1>1 DEF LoaderInv, SessionTypes
<1>3. QED
  BY <1>1, <1>2, EndsClosed

(* The same for copy, that has a source and a destination to close.         *)
LEMMA CloseBothAndFail ==
  ASSUME LoaderInv, phfs_close(opened(one(h), g)), fail, UNCHANGED session, pc \in HasDst
  PROVE  LoaderInv'
<1>1. forget /\ stack' = <<>> /\ failed' = TRUE /\ UNCHANGED <<base, promised, progs>>
  BY DEF fail, session
<1>2. progs' \in Seq(Prog)
  BY <1>1 DEF LoaderInv, SessionTypes
<1>3. QED
  BY <1>1, <1>2, EndsClosed

(* A command that ends without having opened anything.                      *)
LEMMA EndsUnopened ==
  ASSUME LoaderInv, forget, pc \notin HasSrc, DeviceTypes', Grows, AliasDenotes',
         UNCHANGED <<open, synced, lapses, progs>>, base' \in Nat,
         (stack' = stack /\ failed' = failed) \/ (stack' = <<>> /\ failed')
  PROVE  LoaderInv'
<1>1. \A x : inUse(x)' = 0
  BY Forgotten
<1>2. \A x : inUse(x) = 0
  BY DEF inUse, HasSrc
<1>3. \A x : timesOpen(x)' = timesOpen(x)
  BY DEF timesOpen, BagIn, BagToSet
<1>4. \A x : excess(x)' = excess(x)
  BY <1>1, <1>2, <1>3 DEF excess
<1>5. IsABag(open') /\ DOMAIN open' \subseteq Handles \ {NoHandle}
  BY DEF LoaderInv, OpenHandles, BagToSet
<1>6. Synced' /\ Complete'
  BY DEF LoaderInv, Synced, Complete, HasSrc
<1>7. SessionTypes'
  BY EmptySeq DEF LoaderInv, SessionTypes
<1>8. QED
  BY <1>4, <1>5, <1>6, <1>7, Ends

(***************************************************************************)
(* Names.                                                                  *)
(***************************************************************************)
(* phfs_aliasReg: an entry behind the others, which does not hide any.      *)
LEMMA AliasRegistered ==
  ASSUME LoaderInv, NEW name \in Names, NEW addr \in Nat, NEW sz \in 0..Word - 1,
         ~aliasRefused(name), phfs_aliasReg(name, addr, sz), promise(name, addr, sz),
         UNCHANGED <<flash, host>>
  PROVE  DeviceTypes' /\ Grows /\ AliasDenotes'
<1> DEFINE e == [alias |-> kept(name), addr |-> addr, size |-> sz]
           L == Len(files)
<1>1. files \in Seq(FileEntry) /\ L \in Nat
  BY LenProperties DEF LoaderInv, DeviceTypes
<1>2. e \in FileEntry
  BY DEF FileEntry, kept
<1>a. e.alias = kept(name) /\ e.addr = addr /\ e.size = sz
  OBVIOUS
<1>3. files' = Append(files, e)
  BY DEF phfs_aliasReg
<1> HIDE DEF e
<1>4. /\ files' \in Seq(FileEntry) /\ Len(files') = L + 1
      /\ \A i \in 1..L : files'[i] = files[i]
      /\ files'[L + 1] = e
  BY <1>1, <1>2, <1>3, AppendProperties
<1>5. DeviceTypes'
  BY <1>4 DEF LoaderInv, DeviceTypes
<1>6. Grows
  BY <1>1, <1>4 DEF Grows
<1>7. ASSUME NEW n
      PROVE  /\ named(files, n) \subseteq 1..L /\ named(files', n) \subseteq 1..L + 1
             /\ named(files, n) = named(files', n) \ {L + 1}
             /\ L + 1 \in named(files', n) <=> n = kept(name)
  <2>1. DOMAIN files = 1..L /\ DOMAIN files' = 1..L + 1
    BY <1>1, <1>4, LenProperties
  <2>2. QED
    BY <1>1, <1>4, <1>a, <2>1 DEF named
<1>8. ASSUME NEW n, named(files, n) # {}
      PROVE  /\ named(files', n) # {} /\ Min(named(files', n)) = Min(named(files, n))
             /\ files'[Min(named(files', n))] = files[Min(named(files, n))]
  <2> DEFINE S == named(files, n)
             T == named(files', n)
  <2>1. S \subseteq 1..L /\ T \subseteq 1..L + 1 /\ S = T \ {L + 1}
    BY <1>7
  <2>2. S # {}
    BY <1>8
  <2> HIDE DEF S, T
  <2>3. S \in SUBSET Nat /\ T \in SUBSET Nat /\ S \subseteq T
    BY <1>1, <2>1
  <2>4. \A y \in T : y \in S \/ \A x \in S : x <= y
    BY <1>1, <2>1
  <2>5. Min(T) = Min(S)
    BY <2>2, <2>3, <2>4, MinSame
  <2>6. Min(S) \in 1..L
    BY <2>1, <2>2, <2>3, MinIs
  <2>7. T # {}
    BY <2>2, <2>3
  <2>8. QED
    BY <1>4, <2>5, <2>6, <2>7 DEF S, T
<1>9. AliasDenotes'
  <2> SUFFICES ASSUME NEW n \in DOMAIN promised'
               PROVE  /\ named(files', n) # {}
                      /\ <<files'[Min(named(files', n))].addr, files'[Min(named(files', n))].size>> = promised'[n]
    BY DEF AliasDenotes, named
  <2>1. CASE n \in DOMAIN promised /\ promised'[n] = promised[n]
    <3>1. /\ named(files, n) # {}
          /\ <<files[Min(named(files, n))].addr, files[Min(named(files, n))].size>> = promised[n]
      BY <2>1 DEF LoaderInv, AliasDenotes
    <3>2. QED
      BY <1>8, <2>1, <3>1
  <2>2. CASE n = name /\ name \notin Long /\ promised'[n] = <<addr, sz>>
    <3>1. n = kept(name) /\ named(files, n) = {}
      BY <2>2 DEF kept, aliasRefused
    <3>2. named(files', n) = {L + 1}
      BY <1>7, <3>1
    <3>3. Min({L + 1}) = L + 1
      <4>1. {L + 1} \in SUBSET Nat /\ {L + 1} # {}
        BY <1>1
      <4>2. Min({L + 1}) \in {L + 1}
        BY <4>1, MinIs, Zenon
      <4>3. QED
        BY <4>2
    <3>4. files'[Min(named(files', n))] = e
      BY <1>4, <3>2, <3>3
    <3>5. QED
      BY <1>a, <2>2, <3>2, <3>4
  <2>3. QED
    <3>1. CASE name \in Long
      BY <2>1, <3>1 DEF promise
    <3>2. CASE name \notin Long
      <4>1. promised' = [x \in DOMAIN promised \cup {name} |-> IF x = name THEN <<addr, sz>> ELSE promised[x]]
        BY <3>2 DEF promise, with
      <4>2. n = name => promised'[n] = <<addr, sz>>
        BY <4>1
      <4>3. n # name => n \in DOMAIN promised /\ promised'[n] = promised[n]
        BY <4>1
      <4>4. QED
        BY <2>1, <2>2, <3>2, <4>2, <4>3
    <3>3. QED
      BY <3>1, <3>2
<1>10. QED
  BY <1>5, <1>6, <1>9

(* What the line in progress asks for.                                      *)
LEMMA LineIs ==
  ASSUME LoaderInv, pc # "idle"
  PROVE  /\ cmd \in Lines
         /\ cmd.op = "alias" => cmd.name \in Names /\ cmd.addr \in 0..Word - 1 /\ cmd.size \in 0..Word - 1
         /\ cmd.op = "base" => cmd.addr \in 0..Word - 1
         /\ cmd.op = "copy" => /\ cmd.file \in Names \cup {None} /\ cmd.dfile \in Names \cup {None}
                               /\ cmd.offs \in 0..Word - 1 /\ cmd.size \in 0..Word - 1
                               /\ cmd.doffs \in 0..Word - 1 /\ cmd.dsize \in 0..Word - 1
                               /\ cmd.file # None => cmd.offs = 0
         /\ cmd.op \in {"app", "blob", "kernel", "kernelimg", "call"} => cmd.name \in Names
         /\ cmd.op = "call" /\ cmd.magic => cmd.name \in DOMAIN Scripts
<1>1. cmd \in Lines
  BY DEF LoaderInv, Command
<1>2. QED
  BY <1>1, LinesAssumption

(* phfs, alias and base.                                                    *)
LEMMA RegisterStep ==
  ASSUME LoaderInv, pc = "line",
         \/ cmd.op = "phfs" /\ cmd_phfs(cmd)
         \/ cmd.op = "alias" /\ cmd_alias(cmd)
         \/ cmd.op = "base" /\ cmd_aliasBase(cmd)
  PROVE  LoaderInv'
<1>0. base \in Nat /\ Word \in Nat \ {0} /\ pc \notin HasSrc /\ AliasDenotes
  BY PhfsAssumption DEF LoaderInv, SessionTypes, HasSrc, HasDst
<1>1. CASE cmd.op = "phfs" /\ cmd_phfs(cmd)
  <2>1. /\ forget /\ UNCHANGED <<files, flash, host, open, synced, base, progs, promised, lapses>>
        /\ (stack' = stack /\ failed' = failed) \/ (stack' = <<>> /\ failed')
    BY <1>1 DEF cmd_phfs, fail, succeed, session
  <2>2. DeviceTypes' /\ Grows /\ AliasDenotes'
    BY <1>0, <2>1, TablesSame, AliasesSame
  <2>3. QED
    BY <1>0, <2>1, <2>2, EndsUnopened
<1>2. CASE cmd.op = "alias" /\ cmd_alias(cmd)
  <2> DEFINE addr == IF cmd.rel THEN (cmd.addr + base) % Word ELSE cmd.addr
  <2>1. cmd.name \in Names /\ cmd.addr \in 0..Word - 1 /\ cmd.size \in 0..Word - 1
    BY <1>2, LineIs
  <2>2. addr \in Nat
    BY <1>0, <2>1
  <2>3. /\ IF addr < cmd.addr \/ aliasRefused(cmd.name)
           THEN fail /\ UNCHANGED <<files, promised>>
           ELSE phfs_aliasReg(cmd.name, addr, cmd.size) /\ promise(cmd.name, addr, cmd.size) /\ succeed
        /\ UNCHANGED <<flash, host, open, synced, base, progs, lapses>>
    BY <1>2 DEF cmd_alias
  <2> HIDE DEF addr
  <2>4. forget /\ ((stack' = stack /\ failed' = failed) \/ (stack' = <<>> /\ failed'))
    BY <2>3 DEF fail, succeed
  <2>5. DeviceTypes' /\ Grows /\ AliasDenotes'
    <3>1. CASE UNCHANGED <<files, promised>>
      BY <1>0, <2>3, <3>1, TablesSame, AliasesSame
    <3>2. CASE ~aliasRefused(cmd.name) /\ phfs_aliasReg(cmd.name, addr, cmd.size) /\ promise(cmd.name, addr, cmd.size)
      BY <2>1, <2>2, <2>3, <3>2, AliasRegistered
    <3>3. QED
      BY <2>3, <3>1, <3>2
  <2>6. QED
    BY <1>0, <2>3, <2>4, <2>5, EndsUnopened
<1>3. CASE cmd.op = "base" /\ cmd_aliasBase(cmd)
  <2>1. cmd.addr \in 0..Word - 1
    BY <1>3, LineIs
  <2>2. base' = IF cmd.rel THEN (base + cmd.addr) % Word ELSE cmd.addr
    BY <1>3 DEF cmd_aliasBase
  <2>3. base' \in Nat
    BY <1>0, <2>1, <2>2
  <2>4. /\ forget /\ UNCHANGED <<files, flash, host, open, synced, progs, promised, lapses>>
        /\ stack' = stack /\ failed' = failed
    BY <1>3 DEF cmd_aliasBase, succeed, phfsVars
  <2>5. DeviceTypes' /\ Grows /\ AliasDenotes'
    BY <1>0, <2>4, TablesSame, AliasesSame
  <2>6. QED
    BY <1>0, <2>3, <2>4, <2>5, EndsUnopened
<1>4. QED
  BY <1>1, <1>2, <1>3

(* The copy is registered.                                                  *)
LEMMA CopyAliasStep ==
  ASSUME LoaderInv, copyAlias
  PROVE  LoaderInv'
<1> DEFINE name == IF cmd.dfile = None THEN cmd.file ELSE cmd.dfile
<1>1. pc = "copyalias" /\ cmd.op = "copy" /\ pc \notin HasSrc /\ AliasDenotes
  BY DEF LoaderInv, copyAlias, Command, HasSrc, HasDst
<1>2. /\ cmd.file \in Names \cup {None} /\ cmd.dfile \in Names \cup {None}
      /\ cmd.doffs \in 0..Word - 1
  BY <1>1, LineIs
<1>3. wr \in 0..Word - 1 /\ cmd.doffs \in Nat /\ base \in Nat
  BY <1>1, <1>2, PhfsAssumption DEF LoaderInv, Copying, LocalTypes, SessionTypes
<1>4. /\ IF aliasRefused(name) THEN fail /\ UNCHANGED <<files, promised>>
         ELSE phfs_aliasReg(name, cmd.doffs, wr) /\ promise(name, cmd.doffs, wr) /\ succeed
      /\ UNCHANGED <<flash, host, open, synced, base, progs, lapses>>
  BY DEF copyAlias
<1>5. name \in Names \cup {None}
  BY <1>2
<1> HIDE DEF name
<1>6. forget /\ ((stack' = stack /\ failed' = failed) \/ (stack' = <<>> /\ failed'))
  BY <1>4 DEF fail, succeed
<1>7. DeviceTypes' /\ Grows /\ AliasDenotes'
  <2>1. CASE UNCHANGED <<files, promised>>
    BY <1>1, <1>4, <2>1, TablesSame, AliasesSame
  <2>2. CASE ~aliasRefused(name) /\ phfs_aliasReg(name, cmd.doffs, wr) /\ promise(name, cmd.doffs, wr)
    <3>1. name \in Names
      BY <1>5, <2>2 DEF aliasRefused
    <3>2. QED
      BY <1>3, <1>4, <2>2, <3>1, AliasRegistered
  <2>3. QED
    BY <1>4, <2>1, <2>2
<1>8. QED
  BY <1>1, <1>3, <1>4, <1>6, <1>7, EndsUnopened

(***************************************************************************)
(* Scripts.                                                                *)
(***************************************************************************)
atHandle(s, x) == {i \in 1..Len(s) : s[i].h = x}

(* A script on top of the others is one more of its file.                   *)
LEMMA OneMore ==
  ASSUME NEW s, NEW t, Len(t) \in Nat, Len(s) = Len(t) + 1,
         \A i \in 1..Len(t) : s[i + 1] = t[i], NEW x
  PROVE  /\ Cardinality(atHandle(t, x)) \in Nat
         /\ Cardinality(atHandle(s, x)) = Cardinality(atHandle(t, x)) + (IF s[1].h = x THEN 1 ELSE 0)
<1> DEFINE T == atHandle(t, x)
           U == atHandle(s, x) \ {1}
           S == atHandle(s, x)
           f == [i \in T |-> i + 1]
<1>1. T \subseteq 1..Len(t) /\ S \subseteq 1..Len(t) + 1
  BY DEF atHandle
<1>2. IsFiniteSet(T) /\ IsFiniteSet(S)
  <2>1. IsFiniteSet(1..Len(t)) /\ IsFiniteSet(1..Len(t) + 1)
    BY FS_Interval
  <2>2. QED
    BY <1>1, <2>1, FS_Subset
<1>3. \A i \in T : i + 1 \in U
  BY DEF atHandle
<1>4. \A j \in U : j - 1 \in T /\ j - 1 + 1 = j
  <2> SUFFICES ASSUME NEW j \in U PROVE j - 1 \in T /\ j - 1 + 1 = j
    OBVIOUS
  <2>1. j \in 1..Len(t) + 1 /\ j # 1 /\ s[j].h = x
    BY DEF atHandle
  <2>2. j - 1 \in 1..Len(t) /\ j - 1 + 1 = j
    BY <2>1
  <2>3. t[j - 1] = s[j]
    BY <2>2
  <2>4. QED
    BY <2>1, <2>2, <2>3 DEF atHandle
<1>5. T \subseteq Int /\ U \subseteq Int
  BY <1>1
<1> HIDE DEF T, U, S
<1>6. f \in Bijection(T, U)
  <2>1. f \in [T -> U]
    BY <1>3
  <2>2. \A a, b \in T : f[a] = f[b] => a = b
    BY <1>5
  <2>3. \A j \in U : \E i \in T : f[i] = j
    BY <1>4
  <2>4. QED
    BY <2>1, <2>2, <2>3 DEF Bijection, Injection, Surjection, IsInjective
<1>7. ExistsBijection(T, U)
  BY <1>6 DEF ExistsBijection
<1>8. IsFiniteSet(U) /\ Cardinality(U) = Cardinality(T)
  BY <1>2, <1>7, FS_Bijection
<1>9. Cardinality(U) = IF 1 \in S THEN Cardinality(S) - 1 ELSE Cardinality(S)
  BY <1>2, FS_RemoveElement DEF U, S
<1>10. 1 \in S <=> s[1].h = x
  BY DEF S, atHandle
<1>11. Cardinality(S) \in Nat /\ Cardinality(T) \in Nat
  BY <1>2, FS_CardinalityType
<1>12. QED
  BY <1>8, <1>9, <1>10, <1>11 DEF S, T

(* Between commands no command has anything open.                           *)
LEMMA IdleExcess ==
  ASSUME LoaderInv, pc = "idle", NEW x
  PROVE  excess(x) = times(open, x) /\ excess(x) \in Nat
<1>1. inUse(x) = 0
  BY DEF inUse, HasSrc, HasDst
<1>2. QED
  BY <1>1, ExcessIs

(* phfs_close of the script on top, if it has a file.                       *)
LEMMA CloseScript ==
  ASSUME LoaderInv, pc = "idle", pc' = "idle", stack # <<>>, NEW y, y = stack[1].h, phfs_close(one(y))
  PROVE  /\ UNCHANGED <<files, devices, flash, host>>
         /\ IsABag(open') /\ DOMAIN open' \subseteq Handles \ {NoHandle}
         /\ \A x \in Handles : excess(x)' = IF excess(x) > 0 /\ x = y THEN excess(x) - 1 ELSE excess(x)
         /\ Synced'
<1>1. UNCHANGED <<files, devices, flash, host>> /\ open' = open (-) one(y)
  BY DEF phfs_close, tables
<1>2. IsABag(open) /\ DOMAIN open \subseteq Handles \ {NoHandle}
  BY DEF LoaderInv, OpenHandles, BagToSet
<1>3. IsABag(one(y)) /\ DOMAIN one(y) = {y} /\ \A x : times(one(y), x) = IF x = y THEN 1 ELSE 0
  BY OneBag
<1>4. /\ IsABag(open') /\ DOMAIN open' \subseteq DOMAIN open
      /\ \A x : times(open', x) = IF times(open, x) > times(one(y), x)
                                  THEN times(open, x) - times(one(y), x) ELSE 0
  BY <1>1, <1>2, <1>3, BagMinus
<1>5. ASSUME NEW x \in Handles
      PROVE  excess(x)' = IF excess(x) > 0 /\ x = y THEN excess(x) - 1 ELSE excess(x)
  <2>1. excess(x) = times(open, x) /\ excess(x) \in Nat
    BY IdleExcess
  <2>2. inUse(x)' = 0
    BY DEF inUse, HasSrc, HasDst
  <2>3. excess(x)' = times(open', x) - 0
    BY <2>2, TimesOpen DEF excess
  <2>4. times(one(y), x) = IF x = y THEN 1 ELSE 0
    BY <1>3
  <2>5. times(open', x) = IF times(open, x) > times(one(y), x) THEN times(open, x) - times(one(y), x) ELSE 0
    BY <1>4
  <2>6. QED
    BY <2>1, <2>3, <2>4, <2>5
<1>6. Synced'
  <2>1. synced \/ "sync" \in lapses
    BY DEF LoaderInv, Synced, HasDst
  <2>2. synced' \/ "sync" \in lapses'
    BY <2>1 DEF phfs_close
  <2>3. QED
    BY <2>2 DEF Synced
<1>7. QED
  BY <1>1, <1>2, <1>4, <1>5, <1>6

(* A script ends.                                                           *)
LEMMA CallEndsStep ==
  ASSUME LoaderInv, callEnds
  PROVE  LoaderInv'
<1>1. /\ pc = "idle" /\ pc' = "idle" /\ stack # <<>> /\ phfs_close(one(stack[1].h)) /\ stack' = Tail(stack)
      /\ UNCHANGED <<locals, base, progs, promised, failed>>
  BY DEF callEnds, session
<1>2. UNCHANGED <<h, g, size, rd, wr, buf, image, segs>>
  BY <1>1 DEF locals
<1>3. PICK y : y = stack[1].h
  OBVIOUS
<1>4. /\ UNCHANGED <<files, devices, flash, host>>
      /\ IsABag(open') /\ DOMAIN open' \subseteq Handles \ {NoHandle}
      /\ \A x \in Handles : excess(x)' = IF excess(x) > 0 /\ x = y THEN excess(x) - 1 ELSE excess(x)
      /\ Synced'
  BY <1>1, <1>3, CloseScript
<1>5. DeviceTypes' /\ Grows /\ DeviceTypes
  BY <1>4, TablesSame DEF LoaderInv
<1>6. stack \in Seq(ScriptFrame) /\ Len(stack) \in Nat
  BY LenProperties DEF LoaderInv, SessionTypes
<1>7. /\ stack' \in Seq(ScriptFrame) /\ Len(stack') = Len(stack) - 1
      /\ \A i \in 1..Len(stack') : stack'[i] = stack[i + 1]
  BY <1>1, <1>6, HeadTailProperties
<1>8. Len(stack') \in Nat /\ Len(stack) = Len(stack') + 1
  BY <1>6, <1>7, LenProperties
<1>9. SessionTypes' /\ Complete' /\ AliasDenotes'
  BY <1>1, <1>4, <1>7, AliasesSame DEF LoaderInv, SessionTypes, Complete
<1>10. LocalTypes' /\ Unstarted'
  BY <1>1, <1>2 DEF LoaderInv, LocalTypes, Unstarted, Early, Labels
<1>11. Command' /\ ValidHandles' /\ Loading' /\ Segments' /\ Copying'
  BY <1>1 DEF Command, ValidHandles, Loading, Segments, Copying, HasSrc, HasDst
<1>12. OpenHandles'
  <2>1. ASSUME NEW x \in Handles PROVE excess(x)' >= 0 /\ (excess(x)' > 0 => script(x)')
    <3>1. excess(x) \in Nat /\ (excess(x) > 0 => script(x))
      BY <1>1, IdleExcess DEF LoaderInv, OpenHandles
    <3>2. excess(x)' = IF excess(x) > 0 /\ x = y THEN excess(x) - 1 ELSE excess(x)
      BY <1>4
    <3>3. script(x) => script(x)'
      BY <1>5, StillDenotes
    <3>4. excess(x)' >= 0 /\ (excess(x)' > 0 => excess(x) > 0)
      BY <3>1, <3>2
    <3>5. QED
      BY <3>1, <3>3, <3>4
  <2>2. (\A i \in 1..Len(stack) : stack[i].h = NoHandle \/ script(stack[i].h))'
    <3> SUFFICES ASSUME NEW i \in 1..Len(stack') PROVE (stack[i].h = NoHandle \/ script(stack[i].h))'
      OBVIOUS
    <3>1. stack'[i] = stack[i + 1] /\ i + 1 \in 1..Len(stack)
      BY <1>7, <1>8
    <3>2. PICK z : z = stack[i + 1].h
      OBVIOUS
    <3>3. z = NoHandle \/ script(z)
      BY <3>1, <3>2 DEF LoaderInv, OpenHandles
    <3>4. script(z) => script(z)'
      BY <1>5, StillDenotes
    <3>5. z = stack'[i].h
      BY <3>1, <3>2
    <3>6. QED
      BY <3>3, <3>4, <3>5 DEF script, denotes
  <2>3. QED
    BY <1>4, <2>1, <2>2 DEF OpenHandles, BagToSet
<1>13. Balanced'
  <2> SUFFICES ASSUME ~failed', NEW x \in Handles \ {NoHandle} PROVE excess(x)' = Cardinality(frames(x)')
    BY DEF Balanced
  <2>1. excess(x) = Cardinality(frames(x)) /\ excess(x) \in Nat
    BY <1>1, IdleExcess DEF LoaderInv, Balanced
  <2>2. frames(x) = atHandle(stack, x) /\ frames(x)' = atHandle(stack', x)
    BY DEF frames, atHandle
  <2>3. /\ Cardinality(atHandle(stack', x)) \in Nat
        /\ Cardinality(atHandle(stack, x)) = Cardinality(atHandle(stack', x)) + (IF y = x THEN 1 ELSE 0)
    <3>1. \A i \in 1..Len(stack') : stack[i + 1] = stack'[i]
      BY <1>7
    <3>2. QED
      BY <1>3, <1>8, <3>1, OneMore
  <2>4. excess(x)' = IF excess(x) > 0 /\ x = y THEN excess(x) - 1 ELSE excess(x)
    BY <1>4
  <2>5. QED
    BY <2>1, <2>2, <2>3, <2>4
<1>14. QED
  BY <1>4, <1>5, <1>9, <1>10, <1>11, <1>12, <1>13 DEF LoaderInv

(* A script fails, and with it the others.                                  *)
LEMMA CallFailsStep ==
  ASSUME LoaderInv, callFails
  PROVE  LoaderInv'
<1>1. /\ pc = "idle" /\ stack # <<>> /\ phfs_close(one(stack[1].h)) /\ forget /\ stack' = <<>> /\ failed'
      /\ UNCHANGED <<base, progs, promised>>
  BY DEF callFails, fail, session
<1>2. PICK y : y = stack[1].h
  OBVIOUS
<1>a. pc' = "idle"
  BY <1>1, Forgotten
<1>3. /\ UNCHANGED <<files, devices, flash, host>>
      /\ IsABag(open') /\ DOMAIN open' \subseteq Handles \ {NoHandle}
      /\ \A x \in Handles : excess(x)' = IF excess(x) > 0 /\ x = y THEN excess(x) - 1 ELSE excess(x)
      /\ Synced'
  BY <1>1, <1>2, <1>a, CloseScript
<1>4. DeviceTypes' /\ Grows /\ DeviceTypes
  BY <1>3, TablesSame DEF LoaderInv
<1>5. SessionTypes' /\ Complete' /\ AliasDenotes'
  BY <1>1, <1>3, AliasesSame, EmptySeq DEF LoaderInv, SessionTypes, Complete
<1>6. OpenHandles'
  <2>1. ASSUME NEW x \in Handles PROVE excess(x)' >= 0 /\ (excess(x)' > 0 => script(x)')
    <3>1. excess(x) \in Nat /\ (excess(x) > 0 => script(x))
      BY <1>1, IdleExcess DEF LoaderInv, OpenHandles
    <3>2. excess(x)' = IF excess(x) > 0 /\ x = y THEN excess(x) - 1 ELSE excess(x)
      BY <1>3
    <3>3. script(x) => script(x)'
      BY <1>4, StillDenotes
    <3>4. excess(x)' >= 0 /\ (excess(x)' > 0 => excess(x) > 0)
      BY <3>1, <3>2
    <3>5. QED
      BY <3>1, <3>3, <3>4
  <2>2. (\A i \in 1..Len(stack) : stack[i].h = NoHandle \/ script(stack[i].h))'
    BY <1>1
  <2>3. QED
    BY <1>3, <2>1, <2>2 DEF OpenHandles, BagToSet
<1>7. Balanced'
  BY <1>1 DEF Balanced
<1>8. QED
  BY <1>1, <1>3, <1>4, <1>5, <1>6, <1>7, Forgotten DEF LoaderInv

(* A script starts: its handle is kept for it.                              *)
LEMMA CallMagicStep ==
  ASSUME LoaderInv, callMagic
  PROVE  LoaderInv'
<1>1. pc = "magic" /\ pc \in HasSrc \ HasDst /\ cmd.op = "call" /\ denotes(h, cmd.name)
  BY DEF LoaderInv, callMagic, Command, HasSrc, HasDst, ValidHandles
<1>2. CASE ~cmd.magic /\ phfs_close(one(h)) /\ succeed /\ UNCHANGED session
  <2>1. forget /\ UNCHANGED <<stack, failed, base, promised, progs>>
    BY <1>2 DEF succeed, session
  <2>2. progs' \in Seq(Prog)
    BY <2>1 DEF LoaderInv, SessionTypes
  <2>3. QED
    BY <1>1, <1>2, <2>1, <2>2, EndsClosed
<1>3. CASE /\ cmd.magic
           /\ stack' = <<[h |-> h, lines |-> Scripts[cmd.name]]>> \o stack
           /\ forget
           /\ UNCHANGED <<phfsVars, session, failed, lapses>>
  <2>1. UNCHANGED <<files, flash, host, open, synced, base, progs, promised, failed, lapses>>
    BY <1>3 DEF phfsVars, session
  <2>2. cmd.name \in DOMAIN Scripts
    BY <1>1, <1>3, LineIs
  <2>3. PICK y : y = h
    OBVIOUS
  <2>4. y \in Handles /\ script(y)
    BY <1>1, <2>2, <2>3 DEF LoaderInv, LocalTypes, script
  <2> DEFINE f == [h |-> y, lines |-> Scripts[cmd.name]]
  <2>5. f \in ScriptFrame /\ f.h = y
    BY <2>2, <2>4, LinesAssumption DEF ScriptFrame
  <2>6. stack \in Seq(ScriptFrame) /\ Len(stack) \in Nat
    BY LenProperties DEF LoaderInv, SessionTypes
  <2>7. stack' = <<f>> \o stack
    BY <1>3, <2>3
  <2> HIDE DEF f
  <2>8. /\ stack' \in Seq(ScriptFrame) /\ Len(stack') = Len(stack) + 1 /\ stack'[1] = f
        /\ \A i \in 1..Len(stack) : stack'[i + 1] = stack[i]
    <3>1. <<f>> \in Seq(ScriptFrame) /\ Len(<<f>>) = 1 /\ <<f>>[1] = f
      BY <2>5
    <3>2. /\ stack' \in Seq(ScriptFrame) /\ Len(stack') = 1 + Len(stack)
          /\ \A i \in 1..1 + Len(stack) : stack'[i] = IF i <= 1 THEN <<f>>[i] ELSE stack[i - 1]
      BY <2>6, <2>7, <3>1, ConcatProperties
    <3>3. stack'[1] = f
      BY <2>6, <3>1, <3>2
    <3>4. ASSUME NEW i \in 1..Len(stack) PROVE stack'[i + 1] = stack[i]
      <4>1. i + 1 \in 1..1 + Len(stack) /\ ~(i + 1 <= 1) /\ i + 1 - 1 = i
        BY <2>6
      <4>2. QED
        BY <3>2, <4>1
    <3>5. QED
      BY <2>6, <3>2, <3>3, <3>4
  <2>9. DeviceTypes' /\ Grows /\ DeviceTypes
    BY <2>1, TablesSame DEF LoaderInv
  <2>10. SessionTypes' /\ Complete' /\ AliasDenotes' /\ Synced'
    BY <1>1, <2>1, <2>8, AliasesSame DEF LoaderInv, SessionTypes, Complete, Synced
  <2>11. ASSUME NEW x PROVE excess(x)' = excess(x) + (IF x = y THEN 1 ELSE 0) /\ excess(x) \in Int
    <3>1. excess(x) = times(open, x) - inUse(x) /\ times(open, x) \in Nat
      BY ExcessIs
    <3>2. inUse(x) = IF x = y THEN 1 ELSE 0
      BY <1>1, <2>3 DEF inUse
    <3>3. inUse(x)' = 0
      BY <1>3, Forgotten
    <3>4. excess(x)' = times(open, x) - 0
      BY <2>1, <3>3, TimesOpen DEF excess
    <3>5. QED
      BY <3>1, <3>2, <3>4
  <2>12. OpenHandles'
    <3>1. ASSUME NEW x \in Handles PROVE excess(x)' >= 0 /\ (excess(x)' > 0 => script(x)')
      <4>1. excess(x) >= 0 /\ (excess(x) > 0 => script(x))
        BY DEF LoaderInv, OpenHandles
      <4>2. excess(x)' = excess(x) + (IF x = y THEN 1 ELSE 0) /\ excess(x) \in Int
        BY <2>11
      <4>3. script(x) => script(x)'
        BY <2>9, StillDenotes
      <4>4. excess(x)' >= 0 /\ (excess(x)' > 0 => excess(x) > 0 \/ x = y)
        BY <4>1, <4>2
      <4>5. QED
        BY <2>4, <4>1, <4>3, <4>4
    <3>2. (\A i \in 1..Len(stack) : stack[i].h = NoHandle \/ script(stack[i].h))'
      <4> SUFFICES ASSUME NEW i \in 1..Len(stack') PROVE (stack[i].h = NoHandle \/ script(stack[i].h))'
        OBVIOUS
      <4>1. PICK z : z = stack'[i].h
        OBVIOUS
      <4>2. z = NoHandle \/ script(z)
        <5>1. CASE i = 1
          BY <2>4, <2>5, <2>8, <4>1, <5>1
        <5>2. CASE i # 1
          <6>1. i - 1 \in 1..Len(stack) /\ i - 1 + 1 = i
            BY <2>6, <2>8, <5>2
          <6>2. stack'[i] = stack[i - 1]
            BY <2>8, <6>1
          <6>3. QED
            BY <4>1, <6>1, <6>2 DEF LoaderInv, OpenHandles
        <5>3. QED
          BY <5>1, <5>2
      <4>3. script(z) => script(z)'
        BY <2>9, StillDenotes
      <4>4. QED
        BY <4>1, <4>2, <4>3 DEF script, denotes
    <3>3. IsABag(open') /\ DOMAIN open' \subseteq Handles \ {NoHandle}
      BY <2>1 DEF LoaderInv, OpenHandles, BagToSet
    <3>4. QED
      BY <3>1, <3>2, <3>3 DEF OpenHandles, BagToSet
  <2>13. Balanced'
    <3> SUFFICES ASSUME ~failed', NEW x \in Handles \ {NoHandle} PROVE excess(x)' = Cardinality(frames(x)')
      BY DEF Balanced
    <3>1. excess(x) = Cardinality(frames(x))
      BY <2>1 DEF LoaderInv, Balanced
    <3>2. frames(x) = atHandle(stack, x) /\ frames(x)' = atHandle(stack', x)
      BY DEF frames, atHandle
    <3>3. Cardinality(atHandle(stack', x)) = Cardinality(atHandle(stack, x)) + (IF stack'[1].h = x THEN 1 ELSE 0)
      BY <2>6, <2>8, OneMore
    <3>4. excess(x)' = excess(x) + (IF x = y THEN 1 ELSE 0)
      BY <2>11
    <3>5. stack'[1].h = y
      BY <2>5, <2>8
    <3>6. QED
      BY <3>1, <3>2, <3>3, <3>4, <3>5
  <2>14. QED
    BY <1>3, <2>9, <2>10, <2>12, <2>13, Forgotten DEF LoaderInv
<1>4. QED
  BY <1>2, <1>3 DEF callMagic

(* plo starts, for the first time or again: the devices keep what they hold. *)
Started ==
  /\ flash \in Seq(Nat) /\ Len(flash) = DevSize
  /\ host \in [DOMAIN host -> Seq(Nat)] /\ DOMAIN host \subseteq Names
  /\ files = <<>> /\ open = EmptyBag /\ synced = TRUE
  /\ pc = "idle" /\ h = NoHandle /\ g = NoHandle
  /\ size = 0 /\ rd = 0 /\ wr = 0 /\ buf = <<>> /\ image = <<>> /\ segs = <<>>
  /\ base = 0 /\ progs = <<>> /\ stack = cmd_run
  /\ promised = <<>>

(* Nothing is in progress then but the script built into plo.               *)
LEMMA StartInv == Started => LoaderInv
<1> SUFFICES ASSUME Started PROVE LoaderInv
  OBVIOUS
<1> DEFINE f == [h |-> NoHandle, lines |-> Preinit]
<1>1. stack = <<f>> /\ f.h = NoHandle
  BY DEF Started, cmd_run
<1>2. f \in ScriptFrame
  BY LinesAssumption DEF ScriptFrame, Handles
<1> HIDE DEF f
<1>3. stack \in Seq(ScriptFrame) /\ Len(stack) = 1 /\ stack[1].h = NoHandle
  BY <1>1, <1>2
<1>4. DeviceTypes
  BY EmptySeq DEF Started, DeviceTypes
<1>5. SessionTypes
  <2>1. progs \in Seq(Prog) /\ base \in Nat
    BY EmptySeq DEF Started
  <2>2. QED
    BY <1>3, <2>1 DEF SessionTypes
<1>6. pc \in Early /\ pc \in Labels /\ pc = "idle" /\ pc \notin HasSrc /\ pc \notin HasDst
  BY DEF Started, Early, Labels, HasSrc, HasDst
<1>7. LocalTypes
  <2>1. NoHandle \in Handles /\ <<>> \in Seq(Nat) /\ <<>> \in Seq(Seg)
    BY EmptySeq DEF Handles
  <2>2. QED
    BY <1>6, <2>1 DEF LocalTypes, Started
<1>8. Command /\ ValidHandles
  BY <1>6 DEF Command, ValidHandles
<1>a. Unstarted /\ Loading /\ Segments
  BY <1>6 DEF Unstarted, Loading, Segments, Started
<1>b. Copying /\ Synced
  BY <1>6 DEF Copying, Synced, Started
<1>9. open = [e \in {} |-> 1] /\ DOMAIN open = {}
  BY DEF Started, EmptyBag, SetToBag
<1>10. \A x : excess(x) = 0
  BY <1>6, <1>9 DEF excess, timesOpen, BagIn, BagToSet, inUse
<1>11. OpenHandles
  <2>1. IsABag(open) /\ BagToSet(open) = {}
    BY <1>9 DEF IsABag, BagToSet
  <2>2. QED
    BY <1>3, <1>10, <2>1 DEF OpenHandles
<1>12. Balanced
  <2> SUFFICES ASSUME NEW x \in Handles \ {NoHandle} PROVE excess(x) = Cardinality(frames(x))
    BY DEF Balanced
  <2>1. frames(x) = {}
    BY <1>3 DEF frames
  <2>2. QED
    BY <1>10, <2>1, FS_EmptySet
<1>13. Complete /\ AliasDenotes
  BY DEF Started, Complete, AliasDenotes
<1>14. QED
  BY <1>4, <1>5, <1>7, <1>8, <1>a, <1>b, <1>11, <1>12, <1>13 DEF LoaderInv

(* The first start.                                                         *)
LEMMA InitInv == Init => LoaderInv
<1>1. Init => Started
  BY LoaderAssumption DEF Init, Started
<1>2. QED
  BY <1>1, StartInv

(* A restart.                                                               *)
LEMMA BootStep ==
  ASSUME LoaderInv, boot
  PROVE  LoaderInv'
<1>1. Started'
  <2>1. UNCHANGED <<flash, host>> /\ DeviceTypes
    BY DEF boot, LoaderInv
  <2>2. QED
    BY <2>1 DEF boot, forget, Started, DeviceTypes, cmd_run
<1>2. Started' => LoaderInv'
  BY StartInv, PTL
<1>3. QED
  BY <1>1, <1>2

(* The last step of a command that loads a file.                            *)
LEMMA LoadCloseStep ==
  ASSUME LoaderInv, loadClose
  PROVE  LoaderInv'
<1>1. /\ pc \in HasSrc \ HasDst /\ phfs_close(one(h)) /\ forget
      /\ UNCHANGED <<stack, failed, base, promised, progs>>
  BY DEF loadClose, succeed, session, HasSrc, HasDst
<1>2. progs' \in Seq(Prog)
  BY <1>1 DEF LoaderInv, SessionTypes
<1>3. QED
  BY <1>1, <1>2, EndsClosed

(* A file that cannot be opened.                                            *)
LEMMA NotOpened ==
  ASSUME LoaderInv, pc = "line", fail, UNCHANGED <<phfsVars, session, lapses>>
  PROVE  LoaderInv'
<1>1. /\ forget /\ stack' = <<>> /\ failed'
      /\ UNCHANGED <<files, flash, host, open, synced, base, progs, promised, lapses>>
  BY DEF fail, phfsVars, session
<1>2. pc \notin HasSrc /\ base \in Nat
  BY DEF HasSrc, HasDst, LoaderInv, SessionTypes
<1>3. DeviceTypes' /\ Grows /\ AliasDenotes'
  BY <1>1, TablesSame, AliasesSame DEF LoaderInv
<1>4. QED
  BY <1>1, <1>2, <1>3, EndsUnopened

(* Any call that fails.                                                     *)
LEMMA DeviceFailsStep ==
  ASSUME LoaderInv, deviceFails
  PROVE  LoaderInv'
<1>1. CASE /\ closeAndFail
           /\ pc \in {"header", "place", "load", "kernel", "phdr", "segment", "kernelimg", "magic", "stat", "copyopen"}
  BY <1>1, CloseAndFail DEF HasSrc, HasDst
<1>2. CASE pc \in {"copy", "copywrite"} /\ phfs_close(opened(one(h), g)) /\ fail /\ UNCHANGED session
  BY <1>2, CloseBothAndFail DEF HasDst
<1>3. CASE pc = "line" /\ fail /\ UNCHANGED <<phfsVars, session, lapses>>
  BY <1>3, NotOpened
<1>4. QED
  BY <1>1, <1>2, <1>3 DEF deviceFails

(***************************************************************************)
(* Lines, and files that are opened.                                       *)
(***************************************************************************)
(* The next line, typed or of a script.                                     *)
LEMMA LineRead ==
  ASSUME LoaderInv, pc = "idle", pc' = "line", cmd' \in Lines,
         UNCHANGED <<files, flash, host, open, synced, h, g, size, rd, wr, buf, image, segs>>,
         UNCHANGED <<base, progs, promised, failed, lapses>>,
         stack' \in Seq(ScriptFrame), Len(stack') = Len(stack),
         \A i \in 1..Len(stack) : stack'[i].h = stack[i].h
  PROVE  LoaderInv'
<1>1. DeviceTypes' /\ Grows /\ DeviceTypes
  BY TablesSame DEF LoaderInv
<1>2. SessionTypes' /\ LocalTypes' /\ Complete' /\ AliasDenotes' /\ Unstarted'
  BY AliasesSame DEF LoaderInv, SessionTypes, LocalTypes, Labels, Complete, Unstarted, Early
<1>3. Command' /\ ValidHandles' /\ Loading' /\ Segments' /\ Copying'
  BY DEF Command, ValidHandles, Loading, Segments, Copying, HasSrc, HasDst
<1>4. Synced'
  BY DEF LoaderInv, Synced, HasDst
<1>5. ASSUME NEW x PROVE excess(x)' = excess(x) /\ frames(x)' = frames(x)
  <2>1. inUse(x) = 0 /\ inUse(x)' = 0
    BY DEF inUse, HasSrc, HasDst
  <2>2. timesOpen(x)' = timesOpen(x)
    BY DEF timesOpen, BagIn, BagToSet
  <2>3. QED
    BY <2>1, <2>2 DEF excess, frames
<1>6. OpenHandles'
  <2>1. ASSUME NEW x \in Handles PROVE excess(x)' >= 0 /\ (excess(x)' > 0 => script(x)')
    <3>1. script(x) => script(x)'
      BY <1>1, StillDenotes
    <3>2. QED
      BY <1>5, <3>1 DEF LoaderInv, OpenHandles
  <2>2. (\A i \in 1..Len(stack) : stack[i].h = NoHandle \/ script(stack[i].h))'
    <3> SUFFICES ASSUME NEW i \in 1..Len(stack') PROVE (stack[i].h = NoHandle \/ script(stack[i].h))'
      OBVIOUS
    <3>1. PICK z : z = stack[i].h
      OBVIOUS
    <3>2. z = NoHandle \/ script(z)
      BY <3>1 DEF LoaderInv, OpenHandles
    <3>3. script(z) => script(z)'
      BY <1>1, StillDenotes
    <3>4. z = stack'[i].h
      BY <3>1
    <3>5. QED
      BY <3>2, <3>3, <3>4 DEF script, denotes
  <2>3. IsABag(open') /\ BagToSet(open') \subseteq Handles \ {NoHandle}
    BY DEF LoaderInv, OpenHandles, BagToSet
  <2>4. QED
    BY <2>1, <2>2, <2>3 DEF OpenHandles, BagToSet
<1>7. Balanced'
  BY <1>5 DEF LoaderInv, Balanced
<1>8. QED
  BY <1>1, <1>2, <1>3, <1>4, <1>6, <1>7 DEF LoaderInv

(* The user types a line.                                                   *)
LEMMA TypeLineStep ==
  ASSUME LoaderInv, typeLine
  PROVE  LoaderInv'
<1>1. /\ pc = "idle" /\ pc' = "line" /\ cmd' \in Commands
      /\ UNCHANGED <<files, flash, host, open, synced, h, g, size, rd, wr, buf, image, segs>>
      /\ UNCHANGED <<base, progs, promised, failed, lapses>> /\ stack' = stack
  BY DEF typeLine, phfsVars
<1>2. cmd' \in Lines
  BY <1>1 DEF Lines
<1>3. stack \in Seq(ScriptFrame)
  BY DEF LoaderInv, SessionTypes
<1>4. QED
  BY <1>1, <1>2, <1>3, LineRead

(* A script goes on.                                                        *)
LEMMA CallLineStep ==
  ASSUME LoaderInv, callLine
  PROVE  LoaderInv'
<1>1. /\ pc = "idle" /\ pc' = "line" /\ stack # <<>> /\ stack[1].lines # <<>>
      /\ cmd' = Head(stack[1].lines) /\ stack' = [stack EXCEPT ![1].lines = Tail(@)]
      /\ UNCHANGED <<files, flash, host, open, synced, h, g, size, rd, wr, buf, image, segs>>
      /\ UNCHANGED <<base, progs, promised, failed, lapses>>
  BY DEF callLine, phfsVars, session
<1>2. stack \in Seq(ScriptFrame) /\ Len(stack) \in Nat /\ Len(stack) > 0
  BY <1>1, LenProperties, EmptySeq DEF LoaderInv, SessionTypes
<1> DEFINE f == stack[1]
           e == [f EXCEPT !.lines = Tail(@)]
<1>3. f \in ScriptFrame
  BY <1>2, ElementOfSeq
<1>4. f.lines \in Seq(Lines) /\ f.lines # <<>>
  BY <1>1, <1>3 DEF ScriptFrame
<1>5. Head(f.lines) \in Lines /\ Tail(f.lines) \in Seq(Lines)
  BY <1>4, HeadTailProperties
<1>6. e \in ScriptFrame /\ e.h = f.h
  BY <1>3, <1>5 DEF ScriptFrame
<1>7. stack' = [stack EXCEPT ![1] = e]
  BY <1>1
<1> HIDE DEF f, e
<1>8. /\ stack' \in Seq(ScriptFrame) /\ Len(stack') = Len(stack)
      /\ \A i \in 1..Len(stack) : stack'[i] = IF i = 1 THEN e ELSE stack[i]
  BY <1>2, <1>6, <1>7
<1>9. \A i \in 1..Len(stack) : stack'[i].h = stack[i].h
  BY <1>6, <1>8 DEF f
<1>10. cmd' \in Lines
  BY <1>1, <1>5 DEF f
<1>11. QED
  BY <1>1, <1>8, <1>9, <1>10, LineRead

(* phfs_open adds to what the command has to close.                         *)
LEMMA OpenKept ==
  ASSUME LoaderInv, DeviceTypes', Grows, NEW d \in Handles \ {NoHandle}, open' = opened(open, d),
         \A x \in Handles : inUse(x)' = inUse(x) + (IF x = d THEN 1 ELSE 0),
         stack' = stack, failed' = failed
  PROVE  OpenHandles' /\ Balanced'
<1>1. IsABag(open) /\ DOMAIN open \subseteq Handles \ {NoHandle}
  BY DEF LoaderInv, OpenHandles, BagToSet
<1>2. IsABag(one(d)) /\ DOMAIN one(d) = {d} /\ \A x : times(one(d), x) = IF x = d THEN 1 ELSE 0
  BY OneBag
<1>3. open' = open (+) one(d)
  BY DEF opened
<1>4. /\ IsABag(open') /\ DOMAIN open' = DOMAIN open \cup {d}
      /\ \A x : times(open', x) = times(open, x) + times(one(d), x)
  <2>1. PICK C : C = one(d)
    OBVIOUS
  <2>2. IsABag(C) /\ DOMAIN C = {d} /\ open' = open (+) C
    BY <1>2, <1>3, <2>1
  <2>3. /\ IsABag(open (+) C) /\ DOMAIN (open (+) C) = DOMAIN open \cup DOMAIN C
        /\ \A x : times(open (+) C, x) = times(open, x) + times(C, x)
    BY <1>1, <2>2, BagPlus, Zenon
  <2>4. QED
    BY <2>1, <2>2, <2>3
<1>5. ASSUME NEW x \in Handles PROVE excess(x)' = excess(x)
  <2>1. excess(x) = times(open, x) - inUse(x) /\ times(open, x) \in Nat /\ inUse(x) \in Nat
    BY ExcessIs
  <2>2. inUse(x)' = inUse(x) + (IF x = d THEN 1 ELSE 0)
    OBVIOUS
  <2>3. times(open', x) = times(open, x) + (IF x = d THEN 1 ELSE 0)
    BY <1>2, <1>4
  <2>4. excess(x)' = times(open', x) - inUse(x)'
    BY TimesOpen DEF excess
  <2>5. QED
    BY <2>1, <2>2, <2>3, <2>4
<1>6. DOMAIN open' \subseteq Handles \ {NoHandle}
  BY <1>1, <1>4
<1>7. QED
  BY <1>4, <1>5, <1>6, ExcessKept

(* Every command but those that only register opens a file.                 *)
LEMMA OpenFileStep ==
  ASSUME LoaderInv, pc = "line", NEW alias, NEW file \in Names \cup {None}, NEW label,
         openFile(alias, file, label),
         \/ label = "copyopen" /\ cmd.op = "copy" /\ file = cmd.file
         \/ /\ cmd.name = file /\ file \in Names
            /\ \/ label = "stat" /\ cmd.op \in {"app", "blob"}
               \/ label = "kernel" /\ cmd.op = "kernel"
               \/ label = "kernelimg" /\ cmd.op = "kernelimg"
               \/ label = "magic" /\ cmd.op = "call"
  PROVE  LoaderInv'
<1>1. CASE fail /\ UNCHANGED <<phfsVars, session, lapses>>
  BY <1>1, NotOpened
<1>2. ASSUME NEW x \in phfs_open(alias, file, FALSE),
             open' = opened(open, x), h' = x,
             size' = IF cmd.op = "copy" THEN copySize(cmd.size, cmd.dsize) ELSE 0,
             goto(label),
             UNCHANGED <<tables, flash, host, synced, cmd, g, rd, wr, buf, image, segs, lapses>>
      PROVE  LoaderInv'
  <2>1. /\ pc' = label /\ label \in HasSrc \ HasDst /\ label \in Labels /\ label \in Early
        /\ label \notin {"header", "place", "load", "add", "imgmap", "loaded", "phdr", "segment", "copyalias"}
    BY <1>2 DEF goto, HasSrc, HasDst, Labels, Early
  <2>2. UNCHANGED <<files, flash, host, synced, cmd, g, rd, wr, buf, image, segs, lapses, stack, failed>>
    BY <1>2 DEF goto, tables
  <2>3. UNCHANGED <<base, progs, promised>>
    BY <1>2 DEF goto, session
  <2>4. DeviceTypes' /\ Grows /\ DeviceTypes
    BY <2>2, TablesSame DEF LoaderInv
  <2>5. /\ x \in Handles /\ x # NoHandle
        /\ \/ x.prot = "phoenixd" /\ x.id = file /\ file \in Names /\ file \in DOMAIN host
           \/ /\ x.prot = "raw" /\ x.id \in 0..Len(files) /\ (file = None => x.id = 0)
              /\ file # None => denotes(x, file)
    <3>1. FALSE \in BOOLEAN
      OBVIOUS
    <3>2. QED
      BY <1>2, <2>4, <3>1, OpenedHandle
  <2>6. valid(x) /\ (file \in Names => denotes(x, file))
    <3>1. file \in Names => file # None
      BY PhfsAssumption
    <3>2. QED
      BY <2>5, <3>1 DEF valid, denotes
  <2>7. ValidHandles'
    <3>1. valid(x)' /\ (file \in Names => denotes(x, file)')
      BY <2>4, <2>6, StillDenotes
    <3>2. valid(h)' /\ (file \in Names => (denotes(h, file))')
      BY <1>2, <3>1 DEF valid, denotes
    <3>3. QED
      BY <2>1, <2>2, <3>2 DEF ValidHandles, denotes
  <2>8. size' \in Nat /\ size' <= Word - 1
    <3>0. Word \in Nat /\ Word > 0
      BY PhfsAssumption
    <3>1. CASE cmd.op = "copy"
      <4>1. cmd.size \in 0..Word - 1 /\ cmd.dsize \in 0..Word - 1
        BY <3>1, LineIs
      <4>2. size' = copySize(cmd.size, cmd.dsize)
        BY <1>2, <3>1
      <4>3. PICK a, b : a = cmd.size /\ b = cmd.dsize
        OBVIOUS
      <4>4. a \in 0..Word - 1 /\ b \in 0..Word - 1
        BY <4>1, <4>3
      <4>5. least(a, b) \in 0..Word - 1 /\ Max({a, b}) \in 0..Word - 1
        BY <3>0, <4>4, LeastIs, MaxIs
      <4>6. copySize(a, b) \in 0..Word - 1
        BY <3>0, <4>5 DEF copySize
      <4>7. QED
        BY <3>0, <4>2, <4>3, <4>6
    <3>2. CASE cmd.op # "copy"
      BY <1>2, <3>0, <3>2
    <3>3. QED
      BY <3>1, <3>2
  <2>9. LocalTypes' /\ SessionTypes'
    BY <1>2, <2>1, <2>2, <2>3, <2>5, <2>8 DEF LoaderInv, LocalTypes, SessionTypes
  <2>10. Command'
    <3>1. cmd \in Lines
      BY LineIs
    <3>2. QED
      BY <2>1, <2>2, <3>1 DEF Command
  <2>11. Unstarted'
    BY <2>1, <2>2 DEF LoaderInv, Unstarted, Early
  <2>12. Loading' /\ Segments'
    BY <2>1 DEF Loading, Segments
  <2>13. Copying'
    <3>1. cmd.op = "copy" /\ cmd.file # None => cmd.offs = 0
      BY LineIs
    <3>2. label = "copyopen" /\ x.prot = "raw" /\ x.id # 0 => cmd.offs = 0
      BY <2>5, <3>1
    <3>3. h' = x /\ cmd' = cmd
      BY <1>2, <2>2
    <3>4. QED
      BY <2>1, <2>8, <3>2, <3>3 DEF Copying, HasDst
  <2>14. OpenHandles' /\ Balanced'
    <3>1. ASSUME NEW y \in Handles PROVE inUse(y)' = inUse(y) + (IF y = x THEN 1 ELSE 0)
      <4>1. inUse(y) = 0
        BY DEF inUse, HasSrc, HasDst
      <4>2. inUse(y)' = (IF y = x THEN 1 ELSE 0) + 0
        BY <1>2, <2>1 DEF inUse
      <4>3. QED
        BY <4>1, <4>2
    <3>2. QED
      BY <1>2, <2>2, <2>4, <2>5, <3>1, OpenKept
  <2>15. Synced' /\ Complete' /\ AliasDenotes'
    BY <2>2, <2>3, AliasesSame DEF LoaderInv, Synced, HasDst, Complete
  <2>16. QED
    BY <2>4, <2>7, <2>9, <2>10, <2>11, <2>12, <2>13, <2>14, <2>15 DEF LoaderInv
<1>3. QED
  BY <1>1, <1>2 DEF openFile

(* The first step of every command.                                         *)
LEMMA CmdParseStep ==
  ASSUME LoaderInv, cmd_parse
  PROVE  LoaderInv'
<1>1. pc = "line"
  BY DEF cmd_parse
<1>2. CASE \/ cmd.op = "phfs" /\ cmd_phfs(cmd)
           \/ cmd.op = "alias" /\ cmd_alias(cmd)
           \/ cmd.op = "base" /\ cmd_aliasBase(cmd)
  BY <1>1, <1>2, RegisterStep
<1>3. CASE cmd.op = "copy" /\ openFile(cmd.src, cmd.file, "copyopen")
  <2>1. cmd.file \in Names \cup {None}
    BY <1>1, <1>3, LineIs
  <2>2. QED
    BY <1>1, <1>3, <2>1, OpenFileStep
<1>4. ASSUME NEW label, openFile(cmd.dev, cmd.name, label),
             \/ label = "stat" /\ cmd.op \in {"app", "blob"}
             \/ label = "kernel" /\ cmd.op = "kernel"
             \/ label = "kernelimg" /\ cmd.op = "kernelimg"
             \/ label = "magic" /\ cmd.op = "call"
      PROVE  LoaderInv'
  <2>1. cmd.name \in Names
    BY <1>1, <1>4, LineIs
  <2>2. QED
    BY <1>1, <1>4, <2>1, OpenFileStep
<1>5. CASE cmd.op \in {"app", "blob"} /\ openFile(cmd.dev, cmd.name, "stat")
  BY <1>4, <1>5
<1>6. CASE cmd.op = "kernel" /\ openFile(cmd.dev, cmd.name, "kernel")
  BY <1>4, <1>6
<1>7. CASE cmd.op = "kernelimg" /\ openFile(cmd.dev, cmd.name, "kernelimg")
  BY <1>4, <1>7
<1>8. CASE cmd.op = "call" /\ openFile(cmd.dev, cmd.name, "magic")
  BY <1>4, <1>8
<1>9. QED
  BY <1>2, <1>3, <1>5, <1>6, <1>7, <1>8 DEF cmd_parse

(***************************************************************************)
(* copy.                                                                   *)
(***************************************************************************)
(* The file of a handle that is opened to write it exists from then on.     *)
LEMMA Created ==
  ASSUME DeviceTypes, NEW d, d.prot = "phoenixd" => d.id \in Names, host' = created(d), UNCHANGED <<files, flash>>
  PROVE  DeviceTypes' /\ Grows /\ (d.prot = "phoenixd" => d.id \in DOMAIN host')
<1>1. Len(files) \in Nat
  BY LenProperties DEF DeviceTypes
<1>2. CASE d.prot = "phoenixd" /\ d.id \notin DOMAIN host
  <2>1. host' = [y \in DOMAIN host \cup {d.id} |-> IF y = d.id THEN <<>> ELSE host[y]]
    BY <1>2 DEF created, with
  <2>2. DOMAIN host' = DOMAIN host \cup {d.id} /\ <<>> \in Seq(Nat)
    BY <2>1, EmptySeq
  <2>3. \A y \in DOMAIN host' : host'[y] \in Seq(Nat)
    BY <2>1, <2>2 DEF DeviceTypes
  <2>4. host' \in [DOMAIN host' -> Seq(Nat)]
    BY <2>1, <2>2, <2>3
  <2>5. QED
    BY <1>1, <1>2, <2>2, <2>4 DEF DeviceTypes, Grows
<1>3. CASE ~(d.prot = "phoenixd" /\ d.id \notin DOMAIN host)
  <2>1. host' = host
    BY <1>3 DEF created
  <2>2. QED
    BY <1>1, <1>3, <2>1 DEF DeviceTypes, Grows
<1>4. QED
  BY <1>2, <1>3

(* The destination is opened.                                               *)
LEMMA CopyOpenStep ==
  ASSUME LoaderInv, copyOpen
  PROVE  LoaderInv'
<1>1. /\ pc = "copyopen" /\ cmd.op = "copy" /\ pc \in HasSrc \ HasDst /\ pc \in Early
      /\ DeviceTypes /\ valid(h) /\ size \in Nat /\ size <= Word - 1
      /\ h.prot = "raw" /\ h.id # 0 => cmd.offs = 0
  BY DEF LoaderInv, copyOpen, Command, HasSrc, HasDst, Early, ValidHandles, LocalTypes, Copying
<1>2. CASE closeAndFail
  BY <1>1, <1>2, CloseAndFail
<1>3. ASSUME NEW d \in phfs_open(cmd.dst, cmd.dfile, TRUE),
             open' = opened(open, d), g' = d, host' = created(d), goto("copy"), lapses' = lapses \ {"short"},
             UNCHANGED <<tables, flash, synced, cmd, h, size, rd, wr, buf, image, segs>>
      PROVE  LoaderInv'
  <2>1. /\ pc' = "copy" /\ pc' \in HasSrc /\ pc' \in HasDst /\ pc' \in Labels /\ pc' \notin Early
        /\ UNCHANGED <<files, flash, synced, cmd, h, size, rd, wr, buf, image, segs, stack, failed>>
        /\ UNCHANGED <<base, progs, promised>>
    BY <1>3 DEF goto, tables, session, HasSrc, HasDst, Labels, Early
  <2>2. /\ cmd.dfile \in Names \cup {None} /\ cmd.offs \in Nat /\ cmd.offs \in 0..Word - 1 /\ cmd \in Lines
    BY <1>1, LineIs, PhfsAssumption
  <2>3. /\ d \in Handles /\ d # NoHandle
        /\ \/ d.prot = "phoenixd" /\ d.id = cmd.dfile /\ cmd.dfile \in Names
           \/ d.prot = "raw" /\ d.id \in 0..Len(files)
    <3>1. PICK alias, file : alias = cmd.dst /\ file = cmd.dfile
      OBVIOUS
    <3>2. TRUE \in BOOLEAN /\ file \in Names \cup {None} /\ d \in phfs_open(alias, file, TRUE)
      BY <1>3, <2>2, <3>1
    <3>3. /\ d \in Handles /\ d # NoHandle
          /\ \/ d.prot = "phoenixd" /\ d.id = file /\ file \in Names
             \/ d.prot = "raw" /\ d.id \in 0..Len(files)
      BY <1>1, <3>2, OpenedHandle
    <3>4. QED
      BY <3>1, <3>3
  <2>4. DeviceTypes' /\ Grows /\ (d.prot = "phoenixd" => d.id \in DOMAIN host')
    <3>1. d.prot = "phoenixd" => d.id \in Names
      BY <2>3
    <3>2. QED
      BY <1>1, <1>3, <2>1, <3>1, Created
  <2>5. ValidHandles'
    <3>1. valid(h)'
      <4>1. PICK y : y = h
        OBVIOUS
      <4>2. valid(y)'
        BY <1>1, <2>4, <4>1, StillDenotes
      <4>3. QED
        BY <2>1, <4>1, <4>2 DEF valid
    <3>2. valid(g)'
      BY <1>3, <2>1, <2>3, <2>4 DEF valid
    <3>3. QED
      BY <1>1, <2>1, <3>1, <3>2 DEF ValidHandles
  <2>6. /\ rd = 0 /\ wr = 0 /\ buf = <<>> /\ image = <<>> /\ segs = <<>>
    BY <1>1 DEF LoaderInv, Unstarted
  <2>7. LocalTypes' /\ SessionTypes'
    BY <1>3, <2>1, <2>3 DEF LoaderInv, LocalTypes, SessionTypes
  <2>8. Command' /\ Unstarted' /\ Loading' /\ Segments'
    BY <1>1, <2>1, <2>2 DEF Command, Unstarted, Loading, Segments
  <2>9. Copying'
    <3>1. within(h, cmd.offs, 0)
      BY <1>1, <2>2, EntryType, SMTT(30) DEF within
    <3>2. within(h, cmd.offs, rd)'
      BY <2>1, <2>6, <3>1 DEF within
    <3>3. Written' /\ OnTheWay'
      BY <2>1, <2>6 DEF Written, OnTheWay
    <3>4. Len(buf') = 0 /\ wr' = 0 /\ rd' = 0 /\ size' = size /\ buf' = <<>>
      BY <2>1, <2>6
    <3>5. QED
      BY <1>1, <2>1, <3>2, <3>3, <3>4 DEF Copying
  <2>10. OpenHandles' /\ Balanced'
    <3>1. ASSUME NEW y \in Handles PROVE inUse(y)' = inUse(y) + (IF y = d THEN 1 ELSE 0)
      <4>1. inUse(y) = IF y = h THEN 1 ELSE 0
        BY <1>1 DEF inUse
      <4>2. inUse(y)' = (IF y = h THEN 1 ELSE 0) + (IF y = d THEN 1 ELSE 0)
        BY <1>3, <2>1 DEF inUse
      <4>3. QED
        BY <4>1, <4>2
    <3>2. QED
      BY <1>3, <2>1, <2>3, <2>4, <3>1, OpenKept
  <2>11. Synced' /\ Complete' /\ AliasDenotes'
    <3>1. "sync" \in lapses => "sync" \in lapses'
      BY <1>3
    <3>2. QED
      BY <1>1, <2>1, <3>1, AliasesSame DEF LoaderInv, Synced, Complete
  <2>12. QED
    BY <2>4, <2>5, <2>7, <2>8, <2>9, <2>10, <2>11 DEF LoaderInv
<1>4. QED
  BY <1>2, <1>3 DEF copyOpen

(* The numbers of a copy.                                                   *)
LEMMA CopyFacts ==
  ASSUME LoaderInv, pc \in HasDst
  PROVE  /\ cmd.op = "copy" /\ cmd \in Lines /\ valid(h) /\ valid(g) /\ DeviceTypes
         /\ cmd.offs \in Nat /\ cmd.doffs \in Nat /\ from \in Nat /\ to \in Nat
         /\ size \in Nat /\ rd \in Nat /\ wr \in Nat /\ buf \in Seq(Nat) /\ Len(buf) \in Nat
         /\ size <= Word - 1 /\ wr + Len(buf) = rd /\ rd <= size /\ within(h, cmd.offs, rd)
         /\ rd > 0 => from + rd <= Len(medium(h))
         /\ wr > 0 => to + wr <= Len(medium(g))
         /\ pc # "copywrite" => buf = <<>>
         /\ h.prot = "raw" /\ h.id # 0 => cmd.offs = 0
         /\ ~overlap(rd, wr) /\ FullWrites => Written /\ OnTheWay
<1>1. pc # "idle" /\ pc \in HasSrc /\ cmd.op = "copy" /\ cmd \in Lines
  BY DEF LoaderInv, Command, HasDst, HasSrc
<1>2. valid(h) /\ valid(g) /\ DeviceTypes
  BY <1>1 DEF LoaderInv, ValidHandles
<1>3. cmd.offs \in Nat /\ cmd.doffs \in Nat
  BY <1>1, LineIs, PhfsAssumption
<1>4. from \in Nat /\ to \in Nat
  BY <1>2, <1>3, MediumType DEF from, to, deviceOffs
<1>5. size \in Nat /\ rd \in Nat /\ wr \in Nat /\ buf \in Seq(Nat) /\ Len(buf) \in Nat
  BY LenProperties DEF LoaderInv, LocalTypes
<1>6. /\ size <= Word - 1 /\ wr + Len(buf) = rd /\ rd <= size /\ within(h, cmd.offs, rd)
      /\ rd > 0 => from + rd <= Len(medium(h))
      /\ wr > 0 => to + wr <= Len(medium(g))
      /\ pc # "copywrite" => buf = <<>>
      /\ h.prot = "raw" /\ h.id # 0 => cmd.offs = 0
      /\ ~overlap(rd, wr) /\ FullWrites => Written /\ OnTheWay
  BY DEF LoaderInv, Copying, HasDst
<1>7. QED
  BY <1>1, <1>2, <1>3, <1>4, <1>5, <1>6

(* A read of copy.                                                          *)
LEMMA CopyReadStep ==
  ASSUME LoaderInv, copyRead
  PROVE  LoaderInv'
<1> DEFINE len == least((size - rd) % Word, SIZE_MSG_BUFF)
<1>0. pc = "copy" /\ pc \in HasDst /\ pc \in HasSrc
  BY DEF copyRead, HasDst, HasSrc
<1>1. PICK data \in phfs_read(h, cmd.offs + rd, len) :
         /\ rd' = rd + Len(data) /\ buf' = data
         /\ goto(IF data = <<>> THEN "copied" ELSE "copywrite")
         /\ UNCHANGED <<phfsVars, cmd, h, g, size, wr, image, segs, lapses>>
  BY DEF copyRead
<1>2. /\ cmd.op = "copy" /\ cmd \in Lines /\ valid(h) /\ valid(g) /\ DeviceTypes
      /\ cmd.offs \in Nat /\ cmd.doffs \in Nat /\ from \in Nat /\ to \in Nat
      /\ size \in Nat /\ rd \in Nat /\ wr \in Nat
      /\ size <= Word - 1 /\ wr + Len(buf) = rd /\ rd <= size /\ within(h, cmd.offs, rd)
      /\ rd > 0 => from + rd <= Len(medium(h))
      /\ wr > 0 => to + wr <= Len(medium(g))
      /\ buf = <<>>
      /\ h.prot = "raw" /\ h.id # 0 => cmd.offs = 0
      /\ ~overlap(rd, wr) /\ FullWrites => Written /\ OnTheWay
  BY <1>0, CopyFacts
<1>3. wr = rd
  BY <1>2
<1>4. len = (IF size - rd <= SIZE_MSG_BUFF THEN size - rd ELSE SIZE_MSG_BUFF) /\ len \in Nat
  <2>1. Word \in Nat /\ SIZE_MSG_BUFF \in Nat
    BY PhfsAssumption, LoaderAssumption
  <2>2. (size - rd) % Word = size - rd
    BY <1>2, <2>1, SMTT(30)
  <2>3. QED
    BY <1>2, <2>1, <2>2, LeastIs
<1> HIDE DEF len
<1>5. PICK at : at = deviceOffs(h, cmd.offs + rd)
  OBVIOUS
<1>6. at = from + rd /\ at \in Nat
  <2>1. aliasAddr(h) \in Nat
    BY <1>2, MediumType
  <2>2. from = aliasAddr(h) + cmd.offs /\ at = aliasAddr(h) + (cmd.offs + rd)
    BY <1>5 DEF from, deviceOffs
  <2>3. QED
    BY <1>2, <2>1, <2>2
<1>7. cmd.offs + rd \in Nat
  BY <1>2
<1>8. /\ data \in Seq(Nat) /\ Len(data) \in Nat /\ Len(data) <= len
      /\ Len(data) > 0 => at + Len(data) <= Len(medium(h))
      /\ \A i \in 1..Len(data) : data[i] = medium(h)[at + i]
      /\ within(h, cmd.offs + rd, Len(data))
      /\ data = <<>> => \/ len = 0 \/ at >= Len(medium(h))
                        \/ h.prot = "raw" /\ h.id # 0 /\ (files[h.id].size - (cmd.offs + rd)) % Word = 0
  <2>1. PICK offs : offs = cmd.offs + rd
    OBVIOUS
  <2>2. offs \in Nat /\ data \in phfs_read(h, offs, len) /\ at = deviceOffs(h, offs)
    BY <1>1, <1>5, <1>7, <2>1
  <2>3. /\ data \in Seq(Nat) /\ Len(data) \in Nat /\ Len(data) <= len
        /\ Len(data) > 0 => at + Len(data) <= Len(medium(h))
        /\ \A i \in 1..Len(data) : data[i] = medium(h)[at + i]
        /\ within(h, offs, Len(data))
        /\ data = <<>> => \/ len = 0 \/ at >= Len(medium(h))
                          \/ h.prot = "raw" /\ h.id # 0 /\ (files[h.id].size - offs) % Word = 0
    BY <1>2, <1>4, <2>2, ReadFacts, SMTT(30)
  <2>4. QED
    BY <2>1, <2>3
<1>9. h.prot = "raw" /\ h.id # 0 =>
        /\ (files[h.id].size - cmd.offs) % Word \in Nat
        /\ (files[h.id].size - (cmd.offs + rd)) % Word = ((files[h.id].size - cmd.offs) % Word) - rd
  <2> SUFFICES ASSUME h.prot = "raw", h.id # 0
               PROVE  /\ (files[h.id].size - cmd.offs) % Word \in Nat
                      /\ (files[h.id].size - (cmd.offs + rd)) % Word = ((files[h.id].size - cmd.offs) % Word) - rd
    OBVIOUS
  <2>1. files[h.id].size \in 0..Word - 1 /\ Word \in Nat \ {0}
    BY <1>2, EntryType, PhfsAssumption
  <2>2. PICK a : a = files[h.id].size - cmd.offs
    OBVIOUS
  <2>3. a \in Int /\ rd <= a % Word /\ a % Word \in Nat
    BY <1>2, <2>1, <2>2 DEF within
  <2>4. (a - rd) % Word = (a % Word) - rd
    BY <1>2, <2>1, <2>3, ModMinus
  <2>5. a - rd = files[h.id].size - (cmd.offs + rd)
    BY <1>2, <2>1, <2>2
  <2>6. QED
    BY <2>2, <2>3, <2>4, <2>5
<1>10. /\ pc' = (IF data = <<>> THEN "copied" ELSE "copywrite")
       /\ pc' \in HasDst /\ pc' \in HasSrc /\ pc' \in Labels /\ pc' \notin Early
       /\ UNCHANGED <<files, flash, host, open, synced, cmd, h, g, size, wr, image, segs, lapses>>
       /\ UNCHANGED <<stack, failed, base, progs, promised>>
  BY <1>1 DEF goto, session, phfsVars, HasDst, HasSrc, Labels, Early
<1>11. /\ DeviceTypes' /\ ValidHandles' /\ OpenHandles' /\ Balanced' /\ Synced' /\ AliasDenotes'
       /\ medium(h)' = medium(h)
  BY <1>0, <1>10, Goes
<1>12. SessionTypes' /\ LocalTypes' /\ Complete'
  BY <1>1, <1>2, <1>8, <1>10 DEF LoaderInv, SessionTypes, LocalTypes, Complete
<1>13. Command' /\ Unstarted' /\ Loading' /\ Segments'
  BY <1>2, <1>10 DEF Command, Unstarted, Loading, Segments
<1>14. Copying'
  <2>1. from' = from /\ to' = to /\ medium(g)' = medium(g)
    BY <1>10 DEF from, to, deviceOffs, aliasAddr, medium
  <2>2. size' <= Word - 1 /\ wr' + Len(buf') = rd' /\ rd' <= size'
    BY <1>1, <1>2, <1>3, <1>4, <1>8, <1>10
  <2>3. within(h, cmd.offs, rd)'
    <3>1. h.prot = "raw" /\ h.id # 0 => rd + Len(data) <= (files[h.id].size - cmd.offs) % Word
      BY <1>2, <1>8, <1>9 DEF within
    <3>2. QED
      BY <1>1, <1>10, <3>1 DEF within
  <2>4. rd' > 0 => from' + rd' <= Len(medium(h)')
    <3>1. CASE Len(data) = 0
      BY <1>1, <1>2, <1>11, <2>1, <3>1
    <3>2. CASE Len(data) > 0
      <4>1. Len(medium(h)) \in Nat
        BY <1>2, MediumType
      <4>2. QED
        BY <1>1, <1>2, <1>6, <1>8, <1>11, <2>1, <3>2, <4>1
    <3>3. QED
      BY <1>8, <3>1, <3>2
  <2>5. wr' > 0 => to' + wr' <= Len(medium(g)')
    BY <1>2, <1>10, <2>1
  <2>6. ~overlap(rd, wr)' /\ FullWrites' => Written' /\ OnTheWay'
    <3> SUFFICES ASSUME ~overlap(rd, wr)', FullWrites' PROVE Written' /\ OnTheWay'
      OBVIOUS
    <3>1. ~overlap(rd, wr)
      BY <1>1, <1>2, <1>8, <1>10, <2>1 DEF overlap
    <3>2. Written'
      BY <1>2, <1>10, <1>11, <2>1, <3>1 DEF Written, FullWrites
    <3>3. ASSUME NEW i \in 1..Len(data) PROVE data[i] = medium(h)[from + wr + i]
      BY <1>3, <1>6, <1>8
    <3>4. OnTheWay'
      BY <1>1, <1>10, <1>11, <2>1, <3>3 DEF OnTheWay
    <3>5. QED
      BY <3>2, <3>4
  <2>7. pc' = "copied" => \/ rd' = size' \/ from' + rd' >= Len(medium(h)')
                          \/ (h.prot = "raw" /\ h.id # 0 /\ rd = (files[h.id].size - cmd.offs) % Word)'
    <3> SUFFICES ASSUME data = <<>>
                 PROVE  \/ rd' = size' \/ from' + rd' >= Len(medium(h)')
                        \/ (h.prot = "raw" /\ h.id # 0 /\ rd = (files[h.id].size - cmd.offs) % Word)'
      BY <1>10
    <3>1. Len(data) = 0 /\ rd' = rd
      BY <1>1, <1>2
    <3>2. CASE len = 0
      <4>1. SIZE_MSG_BUFF > 0 /\ SIZE_MSG_BUFF \in Nat
        BY LoaderAssumption
      <4>2. rd = size
        BY <1>2, <1>4, <3>2, <4>1
      <4>3. QED
        BY <1>10, <3>1, <4>2
    <3>3. CASE at >= Len(medium(h))
      BY <1>6, <1>11, <2>1, <3>1, <3>3
    <3>4. CASE h.prot = "raw" /\ h.id # 0 /\ (files[h.id].size - (cmd.offs + rd)) % Word = 0
      <4>1. rd = (files[h.id].size - cmd.offs) % Word
        BY <1>2, <1>9, <3>4
      <4>2. QED
        BY <1>10, <3>1, <3>4, <4>1
    <3>5. QED
      BY <1>8, <3>2, <3>3, <3>4
  <2>8. pc' # "copywrite" => buf' = <<>>
    BY <1>1, <1>10
  <2>9. QED
    BY <1>2, <1>10, <2>2, <2>3, <2>4, <2>5, <2>6, <2>7, <2>8 DEF Copying
<1>15. QED
  BY <1>11, <1>12, <1>13, <1>14 DEF LoaderInv

(* A write replaces the bytes from at on, and keeps the others.             *)
LEMMA Overwritten ==
  ASSUME NEW s \in Seq(Nat), NEW at \in Nat, NEW data \in Seq(Nat)
  PROVE  LET r == overwrite(s, at, data)
         IN /\ r \in Seq(Nat)
            /\ Len(r) = IF Len(s) >= at + Len(data) THEN Len(s) ELSE at + Len(data)
            /\ \A i \in at + 1..at + Len(data) : r[i] = data[i - at]
            /\ \A i \in 1..Len(s) : i \notin at + 1..at + Len(data) => r[i] = s[i]
<1> DEFINE r == overwrite(s, at, data)
           m == Max({Len(s), at + Len(data)})
<1>1. Len(s) \in Nat /\ Len(data) \in Nat
  BY LenProperties
<1>2. m = (IF Len(s) >= at + Len(data) THEN Len(s) ELSE at + Len(data)) /\ m \in Nat
  <2>1. PICK a, b : a = Len(s) /\ b = at + Len(data)
    OBVIOUS
  <2>2. a \in Nat /\ b \in Nat
    BY <1>1, <2>1
  <2>3. Max({a, b}) = IF a >= b THEN a ELSE b
    BY <2>2, MaxIs
  <2>4. QED
    BY <2>1, <2>2, <2>3
<1>3. r = [i \in 1..m |-> IF i \in at + 1..at + Len(data) THEN data[i - at]
                          ELSE IF i <= Len(s) THEN s[i] ELSE 0]
  BY DEF overwrite
<1> HIDE DEF r, m
<1>4. \A i \in at + 1..at + Len(data) : i - at \in 1..Len(data) /\ i \in 1..m
  BY <1>1, <1>2
<1>5. ASSUME NEW i \in 1..m PROVE r[i] \in Nat
  <2>1. CASE i \in at + 1..at + Len(data)
    <3>1. r[i] = data[i - at] /\ i - at \in 1..Len(data)
      BY <1>3, <1>4, <2>1
    <3>2. QED
      BY <3>1, ElementOfSeq
  <2>2. CASE i \notin at + 1..at + Len(data) /\ i <= Len(s)
    <3>1. r[i] = s[i] /\ i \in 1..Len(s)
      BY <1>1, <1>2, <1>3, <2>2
    <3>2. QED
      BY <3>1, ElementOfSeq
  <2>3. CASE i \notin at + 1..at + Len(data) /\ ~(i <= Len(s))
    BY <1>3, <2>3
  <2>4. QED
    BY <2>1, <2>2, <2>3
<1>6. r \in [1..m -> Nat]
  BY <1>3, <1>5
<1>7. r \in Seq(Nat) /\ Len(r) = m
  <2>1. r \in Seq(Nat)
    BY <1>2, <1>6, SeqDef
  <2>2. DOMAIN r = 1..m /\ DOMAIN r = 1..Len(r) /\ Len(r) \in Nat
    BY <1>6, <2>1, LenProperties
  <2>3. QED
    BY <1>2, <2>1, <2>2
<1>8. \A i \in at + 1..at + Len(data) : r[i] = data[i - at]
  BY <1>3, <1>4
<1>9. \A i \in 1..Len(s) : i \notin at + 1..at + Len(data) => r[i] = s[i]
  BY <1>1, <1>2, <1>3
<1>10. QED
  BY <1>2, <1>7, <1>8, <1>9 DEF r

(* What phfs_write may take.                                                *)
LEMMA WriteFacts ==
  ASSUME DeviceTypes, NEW x, valid(x), NEW offs \in Nat, NEW len \in Nat, NEW n \in phfs_write(x, offs, len)
  PROVE  n \in Nat /\ n <= len /\ (x.prot = "raw" => deviceOffs(x, offs) + n <= DevSize)
<1> DEFINE lim == limit(x, offs, len)
           left == (files[x.id].size - offs) % Word
<1>1. lim \in Nat /\ lim <= len
  <2>1. CASE x.prot = "raw" /\ x.id # 0
    <3>1. lim = least(len, left)
      BY <2>1 DEF limit
    <3>2. left \in 0..Word - 1
      BY <2>1, EntryType
    <3> HIDE DEF lim, left
    <3>3. least(len, left) = IF len <= left THEN len ELSE left
      BY <3>2, LeastIs
    <3>4. QED
      BY <3>1, <3>2, <3>3
  <2>2. CASE ~(x.prot = "raw" /\ x.id # 0)
    BY <2>2 DEF limit
  <2>3. QED
    BY <2>1, <2>2
<1>2. /\ ~(x.prot = "raw" /\ deviceOffs(x, offs) + lim > DevSize) /\ n \in least(1, lim)..lim
  BY DEF phfs_write
<1> HIDE DEF lim
<1>3. least(1, lim) \in Nat
  BY <1>1, LeastIs
<1>4. n \in Nat /\ n <= lim
  BY <1>1, <1>2, <1>3
<1>5. deviceOffs(x, offs) \in Nat /\ DevSize \in Nat
  BY MediumType, PhfsAssumption DEF deviceOffs
<1>6. QED
  BY <1>1, <1>2, <1>4, <1>5

(* What a write changes: the bytes of its file from at on.                  *)
LEMMA StoredFacts ==
  ASSUME DeviceTypes, NEW x, valid(x), NEW offs \in Nat, NEW data \in Seq(Nat), stored(x, offs, data),
         x.prot = "raw" => deviceOffs(x, offs) + Len(data) <= DevSize
  PROVE  /\ DeviceTypes' /\ Grows /\ UNCHANGED <<devices, files, open>>
         /\ x.prot # "raw" => synced' = synced
         /\ medium(x)' = overwrite(medium(x), deviceOffs(x, offs), data)
         /\ \A y : valid(y) => /\ medium(y)' \in Seq(Nat)
                               /\ \/ medium(y)' = medium(y)
                                  \/ /\ medium(y) = medium(x) /\ medium(y)' = medium(x)'
                                     /\ y.prot = x.prot /\ (x.prot = "phoenixd" => y.id = x.id)
<1> DEFINE at == deviceOffs(x, offs)
           r == overwrite(medium(x), at, data)
<1>1. medium(x) \in Seq(Nat) /\ Len(medium(x)) \in Nat /\ at \in Nat /\ Len(files) \in Nat
  BY MediumType, LenProperties DEF deviceOffs, DeviceTypes
<1> HIDE DEF at
<1>2. r \in Seq(Nat) /\ Len(r) = IF Len(medium(x)) >= at + Len(data) THEN Len(medium(x)) ELSE at + Len(data)
  BY <1>1, Overwritten
<1>3. UNCHANGED <<devices, files, open>>
  BY DEF stored
<1>4. CASE x.prot = "raw"
  <2>1. flash' = r /\ host' = host /\ medium(x) = flash
    BY <1>4 DEF stored, medium, at
  <2>2. Len(r) = DevSize
    <3>1. at + Len(data) <= DevSize /\ Len(medium(x)) = DevSize /\ Len(data) \in Nat /\ DevSize \in Nat
      BY <1>4, <2>1, LenProperties, PhfsAssumption DEF DeviceTypes, at
    <3>2. QED
      BY <1>1, <1>2, <3>1
  <2> HIDE DEF r
  <2>3. DeviceTypes' /\ Grows
    BY <1>1, <1>2, <1>3, <2>1, <2>2 DEF DeviceTypes, Grows
  <2>4. medium(x)' = r
    BY <1>4, <2>1 DEF medium
  <2>5. ASSUME NEW y, valid(y)
        PROVE  /\ medium(y)' \in Seq(Nat)
               /\ \/ medium(y)' = medium(y)
                  \/ /\ medium(y) = medium(x) /\ medium(y)' = medium(x)'
                     /\ y.prot = x.prot /\ (x.prot = "phoenixd" => y.id = x.id)
    <3>1. CASE y.prot = "raw"
      BY <1>2, <1>4, <2>1, <3>1 DEF medium
    <3>2. CASE y.prot # "raw"
      <4>1. medium(y)' = medium(y) /\ medium(y) \in Seq(Nat)
        BY <2>1, <2>5, <3>2, MediumType DEF medium
      <4>2. QED
        BY <4>1
    <3>3. QED
      BY <3>1, <3>2
  <2>6. QED
    BY <1>3, <1>4, <2>3, <2>4, <2>5 DEF r, at
<1>5. CASE x.prot # "raw"
  <2>1. x.prot = "phoenixd" /\ x.id \in DOMAIN host /\ medium(x) = host[x.id] /\ at = offs
    <3>1. x.prot = "phoenixd" /\ x.id \in DOMAIN host
      BY <1>5 DEF valid
    <3>2. medium(x) = host[x.id] /\ at = 0 + offs
      BY <1>5 DEF medium, at, deviceOffs, aliasAddr
    <3>3. QED
      BY <3>1, <3>2
  <2>2. host' = [host EXCEPT ![x.id] = overwrite(host[x.id], offs, data)] /\ flash' = flash /\ synced' = synced
    BY <1>5 DEF stored
  <2>3. host' = [host EXCEPT ![x.id] = r]
    BY <2>1, <2>2
  <2> HIDE DEF r
  <2>4. /\ DOMAIN host' = DOMAIN host /\ host'[x.id] = r
        /\ \A y \in DOMAIN host : y # x.id => host'[y] = host[y]
    BY <2>1, <2>3 DEF DeviceTypes
  <2>5. host' \in [DOMAIN host' -> Seq(Nat)]
    BY <1>2, <2>1, <2>3, <2>4 DEF DeviceTypes
  <2>6. DeviceTypes' /\ Grows
    BY <1>1, <1>3, <2>2, <2>4, <2>5 DEF DeviceTypes, Grows
  <2>7. medium(x)' = r
    BY <1>5, <2>4 DEF medium
  <2>8. ASSUME NEW y, valid(y)
        PROVE  /\ medium(y)' \in Seq(Nat)
               /\ \/ medium(y)' = medium(y)
                  \/ /\ medium(y) = medium(x) /\ medium(y)' = medium(x)'
                     /\ y.prot = x.prot /\ (x.prot = "phoenixd" => y.id = x.id)
    <3>1. CASE y.prot = "phoenixd" /\ y.id = x.id
      <4>1. y.prot # "raw"
        BY <3>1
      <4>2. medium(y) = host[x.id] /\ medium(y)' = host'[x.id]
        BY <3>1, <4>1 DEF medium
      <4>3. QED
        BY <1>2, <2>1, <2>4, <2>7, <3>1, <4>2
    <3>2. CASE ~(y.prot = "phoenixd" /\ y.id = x.id)
      <4>1. medium(y)' = medium(y)
        BY <2>2, <2>4, <2>8, <3>2 DEF medium, valid
      <4>2. medium(y) \in Seq(Nat)
        BY <2>8, MediumType
      <4>3. QED
        BY <4>1, <4>2
    <3>3. QED
      BY <3>1, <3>2
  <2>9. QED
    BY <1>3, <2>2, <2>6, <2>7, <2>8 DEF r, at
<1>6. QED
  BY <1>4, <1>5

(* A step of a copy that keeps both files open.                             *)
LEMMA Moved ==
  ASSUME LoaderInv, DeviceTypes', Grows, UNCHANGED <<open, h, g, cmd, stack, failed>>,
         pc \in HasDst, pc' \in HasDst
  PROVE  ValidHandles' /\ OpenHandles' /\ Balanced'
<1>1. pc \in HasSrc /\ pc' \in HasSrc
  BY DEF HasSrc
<1>2. valid(h) /\ valid(g) /\ cmd.op = "copy" /\ DeviceTypes
  BY CopyFacts
<1>3. ValidHandles'
  <2>1. PICK x, y : x = h /\ y = g
    OBVIOUS
  <2>2. valid(x)' /\ valid(y)'
    BY <1>2, <2>1, StillDenotes
  <2>3. QED
    BY <1>2, <2>1, <2>2 DEF ValidHandles, valid
<1>4. \A x : excess(x)' = excess(x)
  BY <1>1 DEF excess, inUse, timesOpen, BagIn, BagToSet
<1>5. IsABag(open') /\ DOMAIN open' \subseteq Handles \ {NoHandle}
  BY DEF LoaderInv, OpenHandles, BagToSet
<1>6. QED
  BY <1>3, <1>4, <1>5, ExcessKept

(* A write of copy, short or not: what was written before stays, and so does *)
(* what has not been read, unless the two overlap.                           *)
LEMMA CopyWriteStep ==
  ASSUME LoaderInv, copyWrite
  PROVE  LoaderInv'
<1>0. pc = "copywrite" /\ pc \in HasDst /\ pc \in HasSrc
  BY DEF copyWrite, HasDst, HasSrc
<1>1. CASE phfs_close(opened(one(h), g)) /\ fail /\ UNCHANGED session
  BY <1>0, <1>1, CloseBothAndFail
<1>2. ASSUME NEW n \in phfs_write(g, cmd.doffs + wr, Len(buf)),
             stored(g, cmd.doffs + wr, SubSeq(buf, 1, n)),
             wr' = wr + n, buf' = SubSeq(buf, 1, Len(buf) - n),
             lapses' = IF n \in 1..Len(buf) - 1 THEN lapses \cup {"short"} ELSE lapses,
             goto(IF buf' # <<>> THEN "copywrite" ELSE IF size = rd THEN "copied" ELSE "copy"),
             UNCHANGED <<cmd, h, g, size, rd, image, segs>>
      PROVE  LoaderInv'
  <2>1. /\ cmd.op = "copy" /\ cmd \in Lines /\ valid(h) /\ valid(g) /\ DeviceTypes
        /\ cmd.offs \in Nat /\ cmd.doffs \in Nat /\ from \in Nat /\ to \in Nat
        /\ size \in Nat /\ rd \in Nat /\ wr \in Nat /\ buf \in Seq(Nat) /\ Len(buf) \in Nat
        /\ size <= Word - 1 /\ wr + Len(buf) = rd /\ rd <= size /\ within(h, cmd.offs, rd)
        /\ rd > 0 => from + rd <= Len(medium(h))
        /\ wr > 0 => to + wr <= Len(medium(g))
        /\ h.prot = "raw" /\ h.id # 0 => cmd.offs = 0
        /\ ~overlap(rd, wr) /\ FullWrites => Written /\ OnTheWay
    BY <1>0, CopyFacts
  <2>2. PICK offs : offs = cmd.doffs + wr
    OBVIOUS
  <2>3. PICK at : at = deviceOffs(g, offs)
    OBVIOUS
  <2>4. offs \in Nat /\ at = to + wr /\ at \in Nat
    <3>1. aliasAddr(g) \in Nat
      BY <2>1, MediumType
    <3>2. at = aliasAddr(g) + (cmd.doffs + wr) /\ to = aliasAddr(g) + cmd.doffs
      BY <2>2, <2>3 DEF deviceOffs, to
    <3>3. cmd.doffs \in Nat /\ wr \in Nat
      BY <2>1
    <3>4. QED
      BY <2>2, <3>1, <3>2, <3>3
  <2>5. n \in Nat /\ n <= Len(buf) /\ (g.prot = "raw" => at + n <= DevSize)
    BY <1>2, <2>1, <2>2, <2>3, <2>4, WriteFacts
  <2>6. PICK data : data = SubSeq(buf, 1, n)
    OBVIOUS
  <2>7. data \in Seq(Nat) /\ Len(data) = n /\ \A i \in 1..n : data[i] = buf[i]
    <3>1. \A i \in 1..n : buf[i] \in Nat
      BY <2>1, <2>5, ElementOfSeq, SMTT(30)
    <3>2. /\ data \in Seq(Nat) /\ Len(data) = IF 1 <= n THEN n - 1 + 1 ELSE 0
          /\ \A i \in 1..n - 1 + 1 : data[i] = buf[1 + i - 1]
      BY <2>5, <2>6, <3>1, SubSeqProperties
    <3>3. QED
      BY <2>5, <3>2
  <2>8. /\ buf' \in Seq(Nat) /\ Len(buf') = Len(buf) - n
        /\ FullWrites' => FullWrites /\ \A i \in 1..Len(buf) - n : buf'[i] = buf[n + i]
    <3>1. Len(buf) \in Nat
      BY <2>1
    <3>2. \A i \in 1..Len(buf) - n : buf[i] \in Nat
      BY <2>1, <2>5, <3>1, ElementOfSeq, SMTT(30)
    <3>3. PICK k \in Nat : k = Len(buf) - n
      <4>1. Len(buf) - n \in Nat
        BY <2>5, <3>1
      <4>2. QED
        BY <4>1
    <3>4. /\ buf' \in Seq(Nat) /\ Len(buf') = IF 1 <= k THEN k - 1 + 1 ELSE 0
          /\ \A i \in 1..k - 1 + 1 : buf'[i] = buf[1 + i - 1]
      BY <1>2, <3>2, <3>3, SubSeqProperties
    <3>5. Len(buf') = k /\ \A i \in 1..k : buf'[i] = buf[i]
      BY <3>3, <3>4
    <3>6. FullWrites' => FullWrites /\ (n = 0 \/ k = 0)
      BY <1>2, <2>5, <3>1, <3>3 DEF FullWrites
    <3>7. (n = 0 \/ k = 0) => \A i \in 1..k : buf'[i] = buf[n + i]
      BY <3>3, <3>5
    <3>8. QED
      BY <3>3, <3>4, <3>5, <3>6, <3>7
  <2>9. stored(g, offs, data)
    BY <1>2, <2>2, <2>6
  <2>10. /\ DeviceTypes' /\ Grows /\ UNCHANGED <<devices, files, open>>
         /\ g.prot # "raw" => synced' = synced
         /\ medium(g)' = overwrite(medium(g), at, data)
         /\ \A y : valid(y) => /\ medium(y)' \in Seq(Nat)
                               /\ \/ medium(y)' = medium(y)
                                  \/ /\ medium(y) = medium(g) /\ medium(y)' = medium(g)'
                                     /\ y.prot = g.prot /\ (g.prot = "phoenixd" => y.id = g.id)
    <3>0. PICK x : x = g
      OBVIOUS
    <3>1. x.prot = "raw" => deviceOffs(x, offs) + Len(data) <= DevSize
      BY <2>3, <2>5, <2>7, <3>0
    <3>2. valid(x) /\ stored(x, offs, data)
      BY <2>1, <2>9, <3>0
    <3>3. /\ DeviceTypes' /\ Grows /\ UNCHANGED <<devices, files, open>>
          /\ x.prot # "raw" => synced' = synced
          /\ medium(x)' = overwrite(medium(x), deviceOffs(x, offs), data)
          /\ \A y : valid(y) => /\ medium(y)' \in Seq(Nat)
                                /\ \/ medium(y)' = medium(y)
                                   \/ /\ medium(y) = medium(x) /\ medium(y)' = medium(x)'
                                      /\ y.prot = x.prot /\ (x.prot = "phoenixd" => y.id = x.id)
      BY <2>1, <2>4, <2>7, <3>1, <3>2, StoredFacts
    <3>4. medium(x)' = medium(g)'
      BY <1>2, <3>0 DEF medium
    <3>5. QED
      BY <2>3, <3>0, <3>3, <3>4
  <2> DEFINE M == medium(g)
             N == overwrite(M, at, data)
             H == medium(h)
             K == medium(h)'
  <2>11. M \in Seq(Nat) /\ Len(M) \in Nat /\ H \in Seq(Nat) /\ Len(H) \in Nat
    BY <2>1, MediumType
  <2>12. /\ N \in Seq(Nat) /\ Len(N) \in Nat
         /\ Len(N) = IF Len(M) >= at + n THEN Len(M) ELSE at + n
         /\ \A i \in at + 1..at + n : N[i] = data[i - at]
         /\ \A i \in 1..Len(M) : i \notin at + 1..at + n => N[i] = M[i]
    <3> HIDE DEF M
    <3>1. /\ N \in Seq(Nat)
          /\ Len(N) = IF Len(M) >= at + Len(data) THEN Len(M) ELSE at + Len(data)
          /\ \A i \in at + 1..at + Len(data) : N[i] = data[i - at]
          /\ \A i \in 1..Len(M) : i \notin at + 1..at + Len(data) => N[i] = M[i]
      BY <2>4, <2>7, <2>11, Overwritten, ZenonT(60)
    <3>2. QED
      BY <2>4, <2>5, <2>7, <2>11, <3>1, SMTT(30)
  <2>13. \/ K = H
         \/ H = M /\ K = N /\ h.prot = g.prot /\ (g.prot = "phoenixd" => h.id = g.id)
    <3>1. PICK y : y = h
      OBVIOUS
    <3>2. \/ medium(y)' = medium(y)
          \/ /\ medium(y) = medium(g) /\ medium(y)' = medium(g)'
             /\ y.prot = g.prot /\ (g.prot = "phoenixd" => y.id = g.id)
      BY <2>1, <2>10, <3>1
    <3>3. medium(y)' = K /\ medium(y) = H
      BY <1>2, <3>1 DEF medium
    <3>4. QED
      BY <2>10, <3>1, <3>2, <3>3
  <2>14. medium(g)' = N
    BY <2>10
  <2> HIDE DEF M, N, H, K
  <2>15. Len(K) \in Nat /\ Len(K) >= Len(H)
    BY <2>11, <2>12, <2>13, <2>4, <2>5
  <2>16. /\ pc' = (IF buf' # <<>> THEN "copywrite" ELSE IF size = rd THEN "copied" ELSE "copy")
         /\ pc' \in HasDst /\ pc' \in HasSrc /\ pc' \in Labels /\ pc' \notin Early
         /\ UNCHANGED <<stack, failed, base, progs, promised, files, open, cmd, h, g, size, rd, image, segs>>
    BY <1>2, <2>10 DEF goto, session, HasDst, HasSrc, Labels, Early
  <2>17. ValidHandles' /\ OpenHandles' /\ Balanced'
    BY <1>0, <2>10, <2>16, Moved
  <2>18. SessionTypes' /\ LocalTypes' /\ Complete' /\ AliasDenotes'
    <3>1. wr' \in Nat /\ buf' \in Seq(Nat)
      <4>1. wr \in Nat
        BY <2>1
      <4>2. QED
        BY <1>2, <2>5, <2>8, <4>1
    <3>2. QED
      BY <2>16, <3>1, AliasesSame DEF LoaderInv, SessionTypes, LocalTypes, Complete
  <2>19. Command' /\ Unstarted' /\ Loading' /\ Segments'
    BY <2>1, <2>16 DEF Command, Unstarted, Loading, Segments
  <2>20. Synced'
    <3>1. "sync" \in lapses => "sync" \in lapses'
      BY <1>2
    <3>2. QED
      BY <2>10, <2>16, <3>1 DEF LoaderInv, Synced
  <2>21. from' = from /\ to' = to
    BY <2>16 DEF from, to, deviceOffs, aliasAddr
  <2>22. ~overlap(rd, wr)' /\ FullWrites' => Written' /\ OnTheWay'
    <3> SUFFICES ASSUME ~overlap(rd, wr)', FullWrites' PROVE Written' /\ OnTheWay'
      OBVIOUS
    <3>1. ~(h.prot = g.prot /\ (h.prot = "phoenixd" => h.id = g.id) /\ from < to + (wr + n) /\ to < from + rd)
      BY <1>2, <2>16, <2>21 DEF overlap
    <3>2. ~overlap(rd, wr)
      BY <2>1, <2>5, <3>1 DEF overlap
    <3>3. /\ \A i \in 1..wr : M[to + i] = H[from + i]
          /\ \A i \in 1..Len(buf) : buf[i] = H[from + wr + i]
      BY <2>1, <2>8, <3>2 DEF Written, OnTheWay, M, H
    <3>4. ASSUME NEW i \in 1..rd PROVE K[from + i] = H[from + i]
      <4>1. CASE K = H
        BY <4>1
      <4>2. CASE H = M /\ K = N /\ h.prot = g.prot /\ (g.prot = "phoenixd" => h.id = g.id)
        <5>1. from >= to + (wr + n) \/ to >= from + rd
          BY <2>1, <2>5, <3>1, <4>2
        <5>2. rd > 0
          BY <2>1
        <5>3. from + i \in 1..Len(M) /\ from + i \notin at + 1..at + n
          BY <2>1, <2>4, <2>5, <2>11, <4>2, <5>1, <5>2 DEF H
        <5>4. QED
          BY <2>12, <4>2, <5>3
      <4>3. QED
        BY <2>13, <4>1, <4>2
    <3>5. ASSUME NEW i \in 1..wr + n PROVE N[to + i] = K[from + i]
      <4>0. i \in 1..rd
        BY <2>1, <2>5
      <4>1. K[from + i] = H[from + i]
        BY <3>4, <4>0
      <4>2. CASE i <= wr
        <5>1. i \in 1..wr /\ wr > 0
          BY <2>1, <2>5, <4>2
        <5>2. to + i \in 1..Len(M) /\ to + i \notin at + 1..at + n
          BY <2>1, <2>4, <2>5, <2>11, <5>1 DEF M
        <5>3. QED
          BY <2>12, <3>3, <4>1, <5>1, <5>2
      <4>3. CASE i > wr
        <5>1. to + i \in at + 1..at + n /\ (to + i) - at = i - wr /\ i - wr \in 1..n /\ i - wr \in 1..Len(buf)
          BY <2>1, <2>4, <2>5, <4>3
        <5>2. N[to + i] = data[i - wr]
          BY <2>12, <5>1
        <5>3. data[i - wr] = buf[i - wr]
          BY <2>7, <5>1
        <5>4. buf[i - wr] = H[from + wr + (i - wr)]
          BY <3>3, <5>1
        <5>5. from + wr + (i - wr) = from + i
          BY <2>1
        <5>6. QED
          BY <4>1, <5>2, <5>3, <5>4, <5>5
      <4>4. QED
        BY <2>1, <2>5, <4>2, <4>3
    <3>6. ASSUME NEW i \in 1..Len(buf) - n PROVE buf'[i] = K[from + (wr + n) + i]
      <4>1. n + i \in 1..Len(buf) /\ wr + n + i \in 1..rd
        BY <2>1, <2>5
      <4>2. buf'[i] = buf[n + i]
        BY <2>8
      <4>3. buf[n + i] = H[from + wr + (n + i)]
        BY <3>3, <4>1
      <4>4. from + wr + (n + i) = from + (wr + n + i) /\ from + (wr + n) + i = from + (wr + n + i)
        BY <2>1, <2>5
      <4>5. K[from + (wr + n + i)] = H[from + (wr + n + i)]
        BY <3>4, <4>1
      <4>6. QED
        BY <4>2, <4>3, <4>4, <4>5
    <3>7. Written'
      BY <1>2, <2>14, <2>21, <3>5 DEF Written, K
    <3>8. OnTheWay'
      BY <1>2, <2>8, <2>21, <3>6 DEF OnTheWay, K
    <3>9. QED
      BY <3>7, <3>8
  <2>23. Copying'
    <3>1. size' <= Word - 1 /\ wr' + Len(buf') = rd' /\ rd' <= size'
      <4>1. size <= Word - 1 /\ wr + Len(buf) = rd /\ rd <= size /\ wr \in Nat /\ Len(buf) \in Nat /\ rd \in Nat
        BY <2>1
      <4>2. wr' = wr + n /\ Len(buf') = Len(buf) - n /\ rd' = rd /\ size' = size
        BY <1>2, <2>8
      <4>3. QED
        BY <2>5, <4>1, <4>2
    <3>2. within(h, cmd.offs, rd)'
      BY <2>1, <2>16 DEF within
    <3>3. rd' > 0 => from' + rd' <= Len(medium(h)')
      BY <2>1, <2>11, <2>15, <2>16, <2>21 DEF H, K
    <3>4. wr' > 0 => to' + wr' <= Len(medium(g)')
      <4>1. wr + n > 0 => to + (wr + n) <= Len(N)
        <5>1. CASE n = 0
          BY <2>1, <2>11, <2>12, <2>4, <5>1 DEF M
        <5>2. CASE n > 0
          BY <2>1, <2>4, <2>5, <2>11, <2>12, <5>2
        <5>3. QED
          BY <2>5, <5>1, <5>2
      <4>2. QED
        BY <1>2, <2>14, <2>21, <4>1
    <3>5. pc' # "copywrite" => buf' = <<>>
      BY <2>16
    <3>6. pc' = "copied" => rd' = size'
      BY <2>16
    <3>7. QED
      BY <2>1, <2>16, <2>22, <3>1, <3>2, <3>3, <3>4, <3>5, <3>6 DEF Copying
  <2>24. QED
    BY <2>10, <2>17, <2>18, <2>19, <2>20, <2>23 DEF LoaderInv
<1>3. QED
  BY <1>1, <1>2 DEF copyWrite

(* Both files are closed, and the copy has a length that fits a size_t.     *)
LEMMA CopyCloseStep ==
  ASSUME LoaderInv, copyClose
  PROVE  LoaderInv'
<1>1. /\ pc = "copied" /\ pc \in HasDst /\ phfs_close(opened(one(h), g)) /\ pc' = "copyalias"
      /\ pc' \notin HasSrc /\ pc' \notin HasDst /\ pc' \in Labels /\ pc' \notin Early
      /\ UNCHANGED <<cmd, h, g, size, rd, wr, buf, image, segs, stack, failed, base, progs, promised>>
  BY DEF copyClose, goto, session, locals, HasDst, HasSrc, Labels, Early
<1>2. /\ UNCHANGED <<files, devices, flash, host>>
      /\ IsABag(open') /\ DOMAIN open' \subseteq Handles \ {NoHandle}
      /\ \A x \in Handles : excess(x)' = excess(x)
      /\ Synced'
  BY <1>1, CloseBoth
<1>3. DeviceTypes' /\ Grows
  BY <1>2, TablesSame
<1>4. OpenHandles' /\ Balanced'
  BY <1>1, <1>2, <1>3, ExcessKept
<1>5. /\ cmd.op = "copy" /\ cmd \in Lines /\ size \in Nat /\ rd \in Nat /\ wr \in Nat /\ Len(buf) \in Nat
      /\ size <= Word - 1 /\ wr + Len(buf) = rd /\ rd <= size
  BY <1>1, CopyFacts
<1>6. Word \in Nat
  BY PhfsAssumption
<1>7. Copying'
  BY <1>1, <1>5, <1>6 DEF Copying
<1>8. Command' /\ ValidHandles' /\ Unstarted' /\ Loading' /\ Segments'
  BY <1>1, <1>5 DEF Command, ValidHandles, Unstarted, Loading, Segments
<1>9. SessionTypes' /\ LocalTypes' /\ Complete' /\ AliasDenotes'
  BY <1>1, <1>2, AliasesSame DEF LoaderInv, SessionTypes, LocalTypes, Complete
<1>10. QED
  BY <1>2, <1>3, <1>4, <1>7, <1>8, <1>9 DEF LoaderInv

(***************************************************************************)
(* Programs.                                                               *)
(***************************************************************************)
(* The bytes of a part of a sequence, which may go past its end.            *)
LEMMA SubSeqAt ==
  ASSUME NEW s, NEW m \in Int, NEW n \in Int
  PROVE  \A i \in 1..n - m + 1 : SubSeq(s, m, n)[i] = s[m + i - 1]
<1> DEFINE S == {s[i] : i \in m..n}
<1>1. \A i \in m..n : s[i] \in S
  OBVIOUS
<1> HIDE DEF S
<1>2. QED
  BY <1>1, SubSeqProperties

(* A part of a sequence is known by its bytes.                              *)
LEMMA SubSeqIs ==
  ASSUME NEW s, NEW m \in Nat, NEW img \in Seq(Nat), \A i \in 1..Len(img) : img[i] = s[m + i]
  PROVE  img = SubSeq(s, m + 1, m + Len(img))
<1> DEFINE L == Len(img)
           r == SubSeq(s, m + 1, m + L)
<1>1. L \in Nat
  BY LenProperties
<1>2. ASSUME NEW i \in m + 1..m + L PROVE s[i] \in Nat
  <2>1. i - m \in 1..L /\ m + (i - m) = i
    BY <1>1
  <2>2. img[i - m] \in Nat /\ img[i - m] = s[m + (i - m)]
    BY <2>1, ElementOfSeq
  <2>3. QED
    BY <2>1, <2>2
<1>a. m + 1 \in Int /\ m + L \in Int
  BY <1>1
<1>3. /\ r \in Seq(Nat) /\ Len(r) = IF m + 1 <= m + L THEN m + L - (m + 1) + 1 ELSE 0
      /\ \A i \in 1..m + L - (m + 1) + 1 : r[i] = s[m + 1 + i - 1]
  BY <1>2, <1>a, SubSeqProperties
<1> HIDE DEF r
<1>4. Len(r) = L
  BY <1>1, <1>3
<1>5. ASSUME NEW i \in 1..L PROVE img[i] = r[i]
  <2>1. i \in 1..m + L - (m + 1) + 1 /\ m + 1 + i - 1 = m + i
    BY <1>1
  <2>2. QED
    BY <1>3, <2>1
<1>6. img = r
  BY <1>3, <1>4, <1>5, SeqEqual
<1>7. QED
  BY <1>6 DEF r

(* The size of a file with a name.                                          *)
LEMMA SizeIs ==
  ASSUME DeviceTypes, NEW x, NEW n, denotes(x, n)
  PROVE  /\ sizeOf(x) \in Nat /\ valid(x)
         /\ x.prot = "raw" => /\ x.id # 0 /\ sizeOf(x) = files[x.id].size /\ sizeOf(x) <= Word - 1
                              /\ contents(x) = [i \in 1..sizeOf(x) |-> IF aliasAddr(x) + i <= Len(flash)
                                                                       THEN flash[aliasAddr(x) + i] ELSE -1]
         /\ x.prot # "raw" => /\ x.prot = "phoenixd" /\ medium(x) = contents(x) /\ medium(x) \in Seq(Nat)
                              /\ aliasAddr(x) = 0 /\ sizeOf(x) = Len(medium(x))
<1>1. valid(x) /\ Word \in Nat
  BY DenotesValid, PhfsAssumption
<1>2. CASE x.prot = "raw"
  <2>1. x.id # 0
    BY <1>2 DEF denotes
  <2>2. files[x.id].size \in 0..Word - 1
    BY <1>1, <1>2, <2>1, EntryType
  <2>3. sizeOf(x) = files[x.id].size
    BY <1>2 DEF sizeOf
  <2>4. contents(x) = [i \in 1..sizeOf(x) |-> IF aliasAddr(x) + i <= Len(flash)
                                            THEN flash[aliasAddr(x) + i] ELSE -1]
    BY <1>2, <2>3 DEF contents, DeviceTypes
  <2>5. QED
    BY <1>1, <1>2, <2>1, <2>2, <2>3, <2>4
<1>3. CASE x.prot # "raw"
  <2>1. x.prot = "phoenixd" /\ x.id \in DOMAIN host
    BY <1>3 DEF denotes
  <2>2. host[x.id] \in Seq(Nat)
    BY <2>1 DEF DeviceTypes
  <2>3. /\ medium(x) = host[x.id] /\ contents(x) = host[x.id] /\ aliasAddr(x) = 0
        /\ sizeOf(x) = Len(host[x.id])
    BY <1>3 DEF medium, contents, aliasAddr, sizeOf
  <2>4. QED
    BY <1>1, <1>3, <2>1, <2>2, <2>3, LenProperties
<1>4. QED
  BY <1>2, <1>3

(* A file that was read to its end is in memory.                            *)
LEMMA WholeFile ==
  ASSUME DeviceTypes, NEW x, NEW n, denotes(x, n), NEW img \in Seq(Nat), Len(img) = sizeOf(x), bytesFrom(img, x, 0)
  PROVE  img = contents(x)
<1>1. aliasAddr(x) \in Nat
  BY DenotesValid, MediumType
<1>2. \A i \in 1..Len(img) : /\ aliasAddr(x) + i <= Len(medium(x))
                             /\ img[i] = medium(x)[aliasAddr(x) + i]
  BY <1>1 DEF bytesFrom
<1>3. CASE x.prot = "raw"
  <2>1. img = [i \in 1..Len(img) |-> img[i]]
    BY LenProperties
  <2>2. contents(x) = [i \in 1..Len(img) |-> IF aliasAddr(x) + i <= Len(flash)
                                            THEN flash[aliasAddr(x) + i] ELSE -1]
    BY <1>3, SizeIs
  <2>3. medium(x) = flash
    BY <1>3 DEF medium
  <2>4. \A i \in 1..Len(img) : img[i] = (IF aliasAddr(x) + i <= Len(flash)
                                         THEN flash[aliasAddr(x) + i] ELSE -1)
    BY <1>2, <2>3
  <2>5. QED
    BY <2>1, <2>2, <2>4
<1>4. CASE x.prot # "raw"
  <2>1. medium(x) = contents(x) /\ medium(x) \in Seq(Nat) /\ aliasAddr(x) = 0 /\ sizeOf(x) = Len(medium(x))
    BY <1>4, SizeIs
  <2>2. PICK m : m = medium(x)
    OBVIOUS
  <2>3. m \in Seq(Nat) /\ Len(img) = Len(m) /\ Len(img) \in Nat
    BY <2>1, <2>2, LenProperties
  <2>4. \A i \in 1..Len(img) : img[i] = m[i]
    BY <1>2, <2>1, <2>2, <2>3
  <2>5. img = m
    BY <2>3, <2>4, SeqEqual
  <2>6. QED
    BY <2>1, <2>2, <2>5
<1>5. QED
  BY <1>3, <1>4

(* A part of it as well, as long as it ends before the file.                *)
LEMMA PartOfFile ==
  ASSUME DeviceTypes, NEW x, NEW n, denotes(x, n), NEW img \in Seq(Nat), NEW offs \in Nat,
         bytesFrom(img, x, offs), Len(img) > 0 => offs + Len(img) <= sizeOf(x)
  PROVE  img = SubSeq(contents(x), offs + 1, offs + Len(img))
<1> DEFINE a == aliasAddr(x)
           z == sizeOf(x)
           L == Len(img)
<1>1. a \in Nat /\ z \in Nat /\ L \in Nat
  BY DenotesValid, MediumType, SizeIs, LenProperties
<1>2. ASSUME NEW j \in 1..z, a + j <= Len(medium(x)) PROVE contents(x)[j] = medium(x)[a + j]
  <2>1. CASE x.prot = "raw"
    <3>1. /\ contents(x) = [i \in 1..z |-> IF a + i <= Len(flash) THEN flash[a + i] ELSE -1]
          /\ medium(x) = flash
      BY <2>1, SizeIs DEF medium
    <3> HIDE DEF a, z
    <3>2. QED
      BY <1>2, <3>1
  <2>2. CASE x.prot # "raw"
    <3>1. medium(x) = contents(x) /\ a = 0
      BY <2>2, SizeIs
    <3>2. a + j = j
      BY <1>1, <3>1
    <3>3. QED
      BY <3>1, <3>2
  <2>3. QED
    BY <2>1, <2>2
<1>3. ASSUME NEW i \in 1..L PROVE img[i] = contents(x)[offs + i]
  <2>1. img[i] = medium(x)[a + offs + i] /\ a + offs + i <= Len(medium(x))
    BY DEF bytesFrom
  <2> HIDE DEF a, z
  <2>2. L > 0 /\ offs + L <= z
    BY <1>1 DEF z
  <2>3. offs + i \in 1..z /\ a + offs + i = a + (offs + i)
    BY <1>1, <2>2
  <2>4. contents(x)[offs + i] = medium(x)[a + (offs + i)]
    BY <1>2, <2>1, <2>3
  <2>5. QED
    BY <2>1, <2>3, <2>4
<1>4. QED
  BY <1>3, SubSeqIs

(* Where a command that loads a file may be.                                *)
LoadLabels == {"stat", "header", "place", "load", "add", "loaded", "kernel", "phdr", "segment", "kernelimg", "imgmap", "fault"}

(* A step of such a command: left to show is what it loads.                 *)
LEMMA LoadGoes ==
  ASSUME LoaderInv, UNCHANGED <<phfsVars, cmd, h, g, buf, stack, failed, base, promised>>,
         pc \in LoadLabels, pc' \in LoadLabels, lapses \subseteq lapses',
         Command', Unstarted', Loading', Segments', Complete', progs' \in Seq(Prog),
         size' \in Nat, rd' \in Nat, wr' \in Nat, image' \in Seq(Nat), segs' \in Seq(Seg)
  PROVE  LoaderInv'
<1>1. /\ pc \in HasSrc /\ pc' \in HasSrc /\ pc \notin HasDst /\ pc' \notin HasDst /\ pc' \in Labels
      /\ pc' \notin {"copyopen", "copyalias"}
  BY DEF LoadLabels, HasSrc, HasDst, Labels
<1>2. UNCHANGED <<files, flash, host, open, synced>>
  BY DEF phfsVars
<1>3. DeviceTypes' /\ ValidHandles' /\ OpenHandles' /\ Balanced' /\ Synced' /\ AliasDenotes'
  BY <1>1, <1>2, Goes
<1>4. SessionTypes' /\ LocalTypes'
  BY <1>1 DEF LoaderInv, SessionTypes, LocalTypes
<1>5. Copying'
  BY <1>1 DEF Copying, HasDst
<1>6. QED
  BY <1>3, <1>4, <1>5 DEF LoaderInv

(* The facts such a step starts from.                                       *)
LEMMA LoadFacts ==
  ASSUME LoaderInv, pc \in LoadLabels
  PROVE  /\ DeviceTypes /\ cmd \in Lines /\ denotes(h, cmd.name) /\ valid(h)
         /\ size \in Nat /\ rd \in Nat /\ wr \in Nat /\ image \in Seq(Nat) /\ segs \in Seq(Seg)
         /\ Len(image) \in Nat /\ Len(segs) \in Nat /\ aliasAddr(h) \in Nat /\ Len(medium(h)) \in Nat
         /\ sizeOf(h) \in Nat /\ progs \in Seq(Prog)
<1>1. /\ pc \in HasSrc /\ cmd \in Lines /\ cmd.op # "copy"
      /\ DeviceTypes
  BY DEF LoaderInv, Command, LoadLabels, HasSrc
<1>2. denotes(h, cmd.name) /\ valid(h)
  BY <1>1 DEF LoaderInv, ValidHandles
<1>3. size \in Nat /\ rd \in Nat /\ wr \in Nat /\ image \in Seq(Nat) /\ segs \in Seq(Seg)
  BY DEF LoaderInv, LocalTypes
<1>4. Len(image) \in Nat /\ Len(segs) \in Nat
  BY <1>3, LenProperties
<1>5. aliasAddr(h) \in Nat /\ Len(medium(h)) \in Nat /\ sizeOf(h) \in Nat
  BY <1>1, <1>2, MediumType, SizeIs
<1>6. progs \in Seq(Prog)
  BY DEF LoaderInv, SessionTypes
<1>7. QED
  BY <1>1, <1>2, <1>3, <1>4, <1>5, <1>6

(* The size of the file.                                                    *)
LEMMA LoadStatStep ==
  ASSUME LoaderInv, loadStat
  PROVE  LoaderInv'
<1>1. /\ pc = "stat" /\ pc \in LoadLabels /\ pc \in Early /\ size' = sizeOf(h)
      /\ pc' = (CASE cmd.op = "app" -> "header" [] cmd.op = "blob" -> "place" [] OTHER -> "imgmap")
      /\ UNCHANGED <<phfsVars, cmd, h, g, rd, wr, buf, image, segs, lapses, stack, failed, base, progs, promised>>
  BY DEF loadStat, goto, session, LoadLabels, Early
<1>2. cmd.op \in {"app", "blob", "kernelimg"} /\ Complete /\ Unstarted
  BY <1>1 DEF LoaderInv, Command
<1>3. \/ pc' = "header" /\ cmd.op = "app"
      \/ pc' = "place" /\ cmd.op = "blob"
      \/ pc' = "imgmap" /\ cmd.op = "kernelimg"
  BY <1>1, <1>2
<1>4. pc' \in LoadLabels
  BY <1>3 DEF LoadLabels
<1>5. /\ cmd \in Lines /\ rd \in Nat /\ wr \in Nat /\ image \in Seq(Nat) /\ segs \in Seq(Seg)
      /\ sizeOf(h) \in Nat /\ progs \in Seq(Prog)
  BY <1>1, LoadFacts
<1>6. sizeOf(h)' = sizeOf(h)
  BY <1>1 DEF phfsVars, sizeOf
<1>7. Command' /\ Segments'
  BY <1>1, <1>3, <1>5 DEF Command, Segments
<1>8. Unstarted' /\ Complete'
  BY <1>1, <1>2 DEF Unstarted, Complete
<1>9. Loading'
  BY <1>1, <1>3, <1>6 DEF Loading
<1>10. QED
  BY <1>1, <1>4, <1>5, <1>7, <1>8, <1>9, LoadGoes

(* The header of a program.                                                 *)
LEMMA AppHeaderStep ==
  ASSUME LoaderInv, appHeader
  PROVE  LoaderInv'
<1>1. CASE closeAndFail
  BY <1>1, CloseAndFail DEF appHeader, HasSrc, HasDst
<1>2. CASE goto("place") /\ UNCHANGED <<phfsVars, locals, lapses>>
  <2>1. /\ pc = "header" /\ pc \in LoadLabels /\ pc \in Early /\ pc' = "place" /\ pc' \in LoadLabels
        /\ UNCHANGED <<phfsVars, cmd, h, g, size, rd, wr, buf, image, segs, lapses, stack, failed, base, progs, promised>>
    BY <1>2 DEF appHeader, goto, session, locals, LoadLabels, Early
  <2>2. cmd.op = "app" /\ Complete /\ Unstarted /\ size = sizeOf(h)
    BY <2>1 DEF LoaderInv, Command, Loading
  <2>3. /\ cmd \in Lines /\ size \in Nat /\ rd \in Nat /\ wr \in Nat /\ image \in Seq(Nat) /\ segs \in Seq(Seg)
        /\ progs \in Seq(Prog)
    BY <2>1, LoadFacts
  <2>4. sizeOf(h)' = sizeOf(h)
    BY <2>1 DEF phfsVars, sizeOf
  <2>5. Command' /\ Segments' /\ Loading'
    BY <2>1, <2>2, <2>3, <2>4 DEF Command, Segments, Loading
  <2>6. Unstarted' /\ Complete'
    BY <2>1, <2>2 DEF Unstarted, Complete
  <2>7. QED
    BY <2>1, <2>3, <2>5, <2>6, LoadGoes
<1>3. QED
  BY <1>1, <1>2 DEF appHeader

(* A program that is used where it is, or gets memory.                      *)
LEMMA PlaceStep ==
  ASSUME LoaderInv, place
  PROVE  LoaderInv'
<1>1. CASE closeAndFail
  BY <1>1, CloseAndFail DEF place, HasSrc, HasDst
<1>2. CASE /\ \/ /\ h.prot = "raw" /\ aliasAddr(h) + size <= DevSize
                 /\ image' = SubSeq(flash, aliasAddr(h) + 1, aliasAddr(h) + size)
                 /\ goto("add")
                 /\ UNCHANGED lapses
              \/ /\ lapses' = lapses \cup {"address"}
                 /\ goto("add")
                 /\ UNCHANGED image
              \/ /\ goto(IF size = 0 THEN "add" ELSE "load")
                 /\ UNCHANGED <<image, lapses>>
           /\ UNCHANGED <<phfsVars, cmd, h, g, size, rd, wr, buf, segs>>
  <2>1. /\ pc = "place" /\ pc \in LoadLabels /\ pc \in Early
        /\ UNCHANGED <<phfsVars, cmd, h, g, size, rd, wr, buf, segs, stack, failed, base, progs, promised>>
        /\ pc' \in {"add", "load"} /\ pc' \in LoadLabels /\ pc' \notin Early /\ lapses \subseteq lapses'
    BY <1>2 DEF place, goto, session, LoadLabels, Early
  <2>2. /\ cmd.op \in {"app", "blob"} /\ Complete /\ size = sizeOf(h)
        /\ rd = 0 /\ image = <<>>
    BY <2>1 DEF LoaderInv, Command, Loading, Unstarted
  <2>3. /\ DeviceTypes /\ cmd \in Lines /\ denotes(h, cmd.name) /\ valid(h)
        /\ size \in Nat /\ rd \in Nat /\ wr \in Nat /\ image \in Seq(Nat) /\ segs \in Seq(Seg)
        /\ progs \in Seq(Prog) /\ aliasAddr(h) \in Nat
    BY <2>1, LoadFacts
  <2>4. sizeOf(h)' = sizeOf(h) /\ contents(h)' = contents(h)
    BY <2>1 DEF phfsVars, sizeOf, contents, aliasAddr
  <2>5. image' \in Seq(Nat) /\ (pc' = "add" /\ Reliable' => image' = contents(h)) /\ (pc' = "load" => image' = <<>>)
    <3>1. CASE /\ h.prot = "raw" /\ aliasAddr(h) + size <= DevSize /\ pc' = "add"
               /\ image' = SubSeq(flash, aliasAddr(h) + 1, aliasAddr(h) + size)
      <4>1. image' \in Seq(Nat) /\ Len(image') = size /\ bytesFrom(image', h, 0)
        <5>1. flash \in Seq(Nat) /\ Len(flash) = DevSize /\ DevSize \in Nat
          BY <2>3, PhfsAssumption DEF DeviceTypes
        <5>2. PICK m, k : m = aliasAddr(h) + 1 /\ k = aliasAddr(h) + size
          OBVIOUS
        <5>3. m \in Nat /\ m > 0 /\ k \in Nat /\ k <= Len(flash) /\ Len(flash) \in Nat
          <6>1. aliasAddr(h) \in Nat /\ size \in Nat /\ aliasAddr(h) + size <= DevSize
            BY <2>3, <3>1
          <6>2. QED
            BY <5>1, <5>2, <6>1
        <5>4. ASSUME NEW i \in m..k PROVE flash[i] \in Nat
          <6>1. i \in 1..Len(flash)
            BY <5>3
          <6>2. QED
            BY <5>1, <6>1, ElementOfSeq
        <5>5. /\ SubSeq(flash, m, k) \in Seq(Nat)
              /\ Len(SubSeq(flash, m, k)) = (IF m <= k THEN k - m + 1 ELSE 0)
              /\ \A i \in 1..k - m + 1 : SubSeq(flash, m, k)[i] = flash[m + i - 1]
          BY <5>3, <5>4, SubSeqProperties
        <5>6. k - m + 1 = size /\ Len(SubSeq(flash, m, k)) = size
          BY <2>3, <5>2, <5>5
        <5>7. medium(h) = flash
          BY <3>1 DEF medium
        <5>8. ASSUME NEW i \in 1..size
              PROVE  /\ aliasAddr(h) + 0 + i <= Len(flash) /\ m + i - 1 = aliasAddr(h) + 0 + i
                     /\ image'[i] = flash[m + i - 1]
          <6>1. i \in 1..k - m + 1
            BY <5>6
          <6>2. image'[i] = flash[m + i - 1]
            BY <3>1, <5>2, <5>5, <6>1
          <6>3. aliasAddr(h) \in Nat /\ size \in Nat /\ aliasAddr(h) + size <= DevSize
            BY <2>3, <3>1
          <6>4. aliasAddr(h) + 0 + i <= Len(flash) /\ m + i - 1 = aliasAddr(h) + 0 + i
            <7>1. PICK a : a = aliasAddr(h)
              OBVIOUS
            <7>2. a \in Nat /\ size \in Nat /\ i \in Nat /\ i <= size /\ a + size <= DevSize /\ DevSize \in Nat
              BY <5>1, <6>3, <7>1
            <7>3. a + 0 + i <= DevSize /\ a + 1 + i - 1 = a + 0 + i
              BY <7>2
            <7>4. QED
              BY <5>1, <5>2, <7>1, <7>3
          <6>5. QED
            BY <6>2, <6>4
        <5>9. QED
          BY <3>1, <5>2, <5>5, <5>6, <5>7, <5>8 DEF bytesFrom
      <4>2. image' = contents(h)
        <5>1. PICK r : r = image'
          OBVIOUS
        <5>2. r \in Seq(Nat) /\ Len(r) = sizeOf(h) /\ bytesFrom(r, h, 0)
          BY <2>2, <4>1, <5>1
        <5>3. r = contents(h)
          BY <2>3, <5>2, WholeFile
        <5>4. QED
          BY <5>1, <5>3
      <4>3. QED
        BY <3>1, <4>1, <4>2
    <3>2. CASE lapses' = lapses \cup {"address"} /\ pc' = "add" /\ image' = image
      BY <2>3, <3>2 DEF Reliable
    <3>3. CASE image' = image /\ pc' = (IF size = 0 THEN "add" ELSE "load")
      <4>1. size = 0 => image = contents(h)
        <5> SUFFICES ASSUME size = 0 PROVE image = contents(h)
          OBVIOUS
        <5>1. Len(image) = 0
          BY <2>2
        <5>2. Len(image) = sizeOf(h) /\ bytesFrom(image, h, 0)
          BY <2>2, <5>1 DEF bytesFrom
        <5>3. QED
          BY <2>3, <5>2, WholeFile
      <4>2. QED
        BY <2>2, <2>3, <3>3, <4>1
    <3>4. QED
      BY <1>2, <3>1, <3>2, <3>3 DEF goto
  <2>6. Command' /\ Unstarted' /\ Segments' /\ Complete'
    BY <2>1, <2>2, <2>3 DEF Command, Unstarted, Segments, Complete
  <2>7. Loading'
    <3>1. pc' = "load" => Len(image') = 0 /\ bytesFrom(image, h, 0)'
      BY <2>5 DEF bytesFrom
    <3>2. rd' = 0 /\ size' \in Nat /\ size' = sizeOf(h)'
      BY <2>1, <2>2, <2>3, <2>4
    <3>3. pc' # "loaded"
      BY <2>1
    <3>4. QED
      BY <2>4, <2>5, <3>1, <3>2, <3>3 DEF Loading
  <2>8. QED
    BY <2>1, <2>3, <2>5, <2>6, <2>7, LoadGoes
<1>3. QED
  BY <1>1, <1>2 DEF place

(* The bytes of another read go behind those in memory.                     *)
LEMMA ReadMore ==
  ASSUME DeviceTypes, NEW x, valid(x), NEW img \in Seq(Nat), NEW offs \in Nat, NEW len \in Nat,
         NEW data \in phfs_read(x, offs + Len(img), len)
  PROVE  /\ Len(data) \in Nat /\ Len(data) <= len
         /\ img \o data \in Seq(Nat) /\ Len(img \o data) = Len(img) + Len(data)
         /\ bytesFrom(img, x, offs) => bytesFrom(img \o data, x, offs)
         /\ Len(data) > 0 => aliasAddr(x) + offs + Len(img) + Len(data) <= Len(medium(x))
         /\ within(x, offs + Len(img), Len(data))
<1> DEFINE a == aliasAddr(x)
           m == medium(x)
           n == Len(img)
<1>1. a \in Nat /\ n \in Nat /\ Len(m) \in Nat
  BY MediumType, LenProperties
<1>2. PICK o : o = offs + n
  OBVIOUS
<1>3. o \in Nat /\ data \in phfs_read(x, o, len)
  BY <1>1, <1>2
<1>4. PICK at : at = deviceOffs(x, o)
  OBVIOUS
<1>5. /\ data \in Seq(Nat) /\ Len(data) \in Nat /\ Len(data) <= len
      /\ Len(data) > 0 => at + Len(data) <= Len(m)
      /\ \A i \in 1..Len(data) : data[i] = m[at + i]
      /\ within(x, o, Len(data))
  BY <1>3, <1>4, ReadFacts
<1> DEFINE r == img \o data
<1>6. at = a + offs + n
  <2>1. at = a + o
    BY <1>4 DEF deviceOffs
  <2> HIDE DEF a, n
  <2>2. QED
    BY <1>1, <1>2, <2>1
<1>7. /\ r \in Seq(Nat) /\ Len(r) = n + Len(data)
      /\ \A i \in 1..n + Len(data) : r[i] = IF i <= n THEN img[i] ELSE data[i - n]
  BY <1>5, ConcatProperties
<1> HIDE DEF a, m, n, r
<1>8. bytesFrom(img, x, offs) => bytesFrom(r, x, offs)
  <2> SUFFICES ASSUME bytesFrom(img, x, offs), NEW i \in 1..n + Len(data)
               PROVE  a + offs + i <= Len(m) /\ r[i] = m[a + offs + i]
    BY <1>7 DEF bytesFrom, a, m
  <2>1. CASE i <= n
    <3>1. i \in 1..n
      BY <1>1, <2>1
    <3>2. a + offs + i <= Len(m) /\ img[i] = m[a + offs + i]
      BY <3>1 DEF bytesFrom, a, m, n
    <3>3. QED
      BY <1>7, <2>1, <3>2
  <2>2. CASE ~(i <= n)
    <3>0. Len(data) \in Nat
      BY <1>5
    <3>1. i - n \in 1..Len(data) /\ at + (i - n) = a + offs + i
      BY <1>1, <1>6, <2>2, <3>0
    <3>2. data[i - n] = m[at + (i - n)]
      BY <1>5, <3>1
    <3>3. Len(data) > 0 /\ a + offs + i <= at + Len(data)
      BY <1>1, <1>6, <2>2, <3>0
    <3>4. a + offs + i <= Len(m)
      BY <1>1, <1>5, <1>6, <3>0, <3>3
    <3>5. QED
      BY <1>7, <2>2, <3>1, <3>2, <3>4
  <2>3. QED
    BY <2>1, <2>2
<1>9. QED
  BY <1>2, <1>5, <1>6, <1>7, <1>8 DEF a, m, n, r

(* cmd_cp2ent: however short the reads are, what is in memory is the        *)
(* beginning of the file, and at the end all of it.                         *)
LEMMA CmdCp2entStep ==
  ASSUME LoaderInv, cmd_cp2ent
  PROVE  LoaderInv'
<1> DEFINE len == least(SIZE_MSG_BUFF, size - rd)
<1>1. pc = "load" /\ pc \in LoadLabels
  BY DEF cmd_cp2ent, LoadLabels
<1>2. PICK data \in phfs_read(h, rd, len) :
        /\ rd' = rd + Len(data) /\ image' = image \o data
        /\ goto(IF rd' = size THEN "add" ELSE "load")
        /\ UNCHANGED <<phfsVars, cmd, h, g, size, wr, buf, segs, lapses>>
  BY DEF cmd_cp2ent
<1>3. /\ DeviceTypes /\ cmd \in Lines /\ denotes(h, cmd.name) /\ valid(h)
      /\ size \in Nat /\ rd \in Nat /\ wr \in Nat /\ image \in Seq(Nat) /\ segs \in Seq(Seg)
      /\ progs \in Seq(Prog) /\ Len(image) \in Nat
  BY <1>1, LoadFacts
<1>4. /\ cmd.op \in {"app", "blob"} /\ Complete /\ size = sizeOf(h)
      /\ Len(image) = rd /\ rd <= size /\ bytesFrom(image, h, 0)
  BY <1>1 DEF LoaderInv, Command, Loading
<1>5. len = (IF SIZE_MSG_BUFF <= size - rd THEN SIZE_MSG_BUFF ELSE size - rd) /\ len \in Nat /\ len <= size - rd
  <2>1. SIZE_MSG_BUFF \in Nat
    BY LoaderAssumption
  <2>2. QED
    BY <1>3, <1>4, <2>1, LeastIs
<1> HIDE DEF len
<1>6. data \in phfs_read(h, 0 + Len(image), len)
  <2>1. 0 + Len(image) = rd
    BY <1>3, <1>4
  <2>2. QED
    BY <1>2, <2>1
<1>7. /\ Len(data) \in Nat /\ Len(data) <= len /\ image \o data \in Seq(Nat)
      /\ Len(image \o data) = Len(image) + Len(data) /\ bytesFrom(image \o data, h, 0)
  <2>1. PICK o : o = 0
    OBVIOUS
  <2>2. o \in Nat /\ data \in phfs_read(h, o + Len(image), len) /\ bytesFrom(image, h, o)
    BY <1>4, <1>6, <2>1
  <2>3. /\ Len(data) \in Nat /\ Len(data) <= len /\ image \o data \in Seq(Nat)
        /\ Len(image \o data) = Len(image) + Len(data) /\ bytesFrom(image \o data, h, o)
    BY <1>3, <1>5, <2>2, ReadMore
  <2>4. QED
    BY <2>1, <2>3
<1>8. /\ UNCHANGED <<phfsVars, cmd, h, g, size, wr, buf, segs, lapses, stack, failed, base, progs, promised>>
      /\ pc' = (IF rd' = size THEN "add" ELSE "load") /\ pc' \in LoadLabels /\ pc' \notin Early
  BY <1>2 DEF goto, session, LoadLabels, Early
<1>9. Len(image') = rd' /\ rd' <= size /\ rd' \in Nat /\ image' \in Seq(Nat)
  BY <1>2, <1>3, <1>4, <1>5, <1>7
<1>10. sizeOf(h)' = sizeOf(h) /\ contents(h)' = contents(h)
  BY <1>8 DEF phfsVars, sizeOf, contents, aliasAddr
<1>11. bytesFrom(image, h, 0)'
  <2>1. PICK r : r = image \o data
    OBVIOUS
  <2>2. \A i \in 1..Len(r) : /\ aliasAddr(h) + 0 + i <= Len(medium(h))
                             /\ r[i] = medium(h)[aliasAddr(h) + 0 + i]
    BY <1>7, <2>1 DEF bytesFrom
  <2>3. medium(h)' = medium(h) /\ aliasAddr(h)' = aliasAddr(h)
    BY <1>8 DEF phfsVars, medium, aliasAddr
  <2>4. QED
    BY <1>2, <2>1, <2>2, <2>3 DEF bytesFrom
<1>12. pc' = "add" => image' = contents(h)
  <2> SUFFICES ASSUME pc' = "add" PROVE image' = contents(h)
    OBVIOUS
  <2>1. rd' = size
    BY <1>8
  <2>2. PICK r : r = image \o data
    OBVIOUS
  <2>3. r \in Seq(Nat) /\ Len(r) = sizeOf(h) /\ bytesFrom(r, h, 0) /\ r = image'
    BY <1>2, <1>4, <1>7, <1>9, <2>1, <2>2
  <2>4. QED
    BY <1>3, <2>3, WholeFile
<1>13. Command' /\ Unstarted' /\ Segments' /\ Complete'
  BY <1>3, <1>4, <1>8 DEF Command, Unstarted, Segments, Complete
<1>14. Loading'
  BY <1>4, <1>8, <1>9, <1>10, <1>11, <1>12 DEF Loading
<1>15. QED
  BY <1>1, <1>3, <1>8, <1>9, <1>13, <1>14, LoadGoes

(* A program that is listed.                                                *)
LEMMA Listed ==
  ASSUME LoaderInv, pc \in LoadLabels, NEW done \in BOOLEAN, progs' = Append(progs, program(done))
  PROVE  /\ progs' \in Seq(Prog) /\ Last(progs') = [image |-> image, complete |-> done]
         /\ done /\ ~failed => \A i \in 1..Len(progs') : progs'[i].complete
<1> DEFINE p == [image |-> image, complete |-> done]
<1>1. image \in Seq(Nat) /\ progs \in Seq(Prog) /\ Complete
  BY LoadFacts DEF LoaderInv
<1>2. p \in Prog /\ p.complete = done
  BY <1>1 DEF Prog
<1>3. progs' = Append(progs, p)
  BY DEF program
<1> HIDE DEF p
<1>4. /\ progs' \in Seq(Prog) /\ Len(progs') = Len(progs) + 1 /\ Len(progs) \in Nat
      /\ \A i \in 1..Len(progs) : progs'[i] = progs[i]
      /\ progs'[Len(progs) + 1] = p
  BY <1>1, <1>2, <1>3, AppendProperties, LenProperties
<1>5. Last(progs') = p
  BY <1>4 DEF Last
<1>6. ASSUME done, ~failed, NEW i \in 1..Len(progs') PROVE progs'[i].complete
  <2>1. CASE i = Len(progs) + 1
    BY <1>2, <1>4, <1>6, <2>1
  <2>2. CASE i # Len(progs) + 1
    <3>1. i \in 1..Len(progs)
      BY <1>4, <2>2
    <3>2. QED
      BY <1>1, <1>4, <1>6, <3>1 DEF Complete
  <2>3. QED
    BY <2>1, <2>2
<1>7. QED
  BY <1>4, <1>5, <1>6 DEF p

(* The last step of app: a failure leaves a program without its maps, and   *)
(* is reported.                                                             *)
LEMMA AppAddStep ==
  ASSUME LoaderInv, appAdd
  PROVE  LoaderInv'
<1>1. pc = "add" /\ cmd.op = "app" /\ pc \in LoadLabels /\ pc \in HasSrc \ HasDst
  BY DEF appAdd, LoadLabels, HasSrc, HasDst
<1>2. CASE closeAndFail
  BY <1>1, <1>2, CloseAndFail
<1>3. CASE /\ progs' = Append(progs, program(FALSE)) /\ phfs_close(one(h)) /\ fail
           /\ UNCHANGED <<base, promised, typed>>
  <2>1. forget /\ stack' = <<>> /\ failed'
    BY <1>3 DEF fail
  <2>2. progs' \in Seq(Prog)
    <3>1. FALSE \in BOOLEAN
      OBVIOUS
    <3>2. QED
      BY <1>1, <1>3, <3>1, Listed
  <2>3. QED
    BY <1>1, <1>3, <2>1, <2>2, EndsClosed
<1>4. CASE /\ progs' = Append(progs, program(TRUE)) /\ pc' = "loaded"
           /\ UNCHANGED <<phfsVars, locals, stack, failed, lapses>> /\ UNCHANGED <<base, promised, typed>>
  <2>1. /\ UNCHANGED <<phfsVars, cmd, h, g, size, rd, wr, buf, image, segs, lapses, stack, failed, base, promised>>
        /\ pc' \in LoadLabels /\ pc' \notin Early
    BY <1>4 DEF locals, LoadLabels, Early
  <2>2. /\ progs' \in Seq(Prog) /\ Last(progs') = [image |-> image, complete |-> TRUE]
        /\ ~failed => \A i \in 1..Len(progs') : progs'[i].complete
    <3>1. TRUE \in BOOLEAN
      OBVIOUS
    <3>2. QED
      BY <1>1, <1>4, <3>1, Listed
  <2>3. /\ cmd \in Lines /\ size \in Nat /\ rd \in Nat /\ wr \in Nat /\ image \in Seq(Nat) /\ segs \in Seq(Seg)
    BY <1>1, LoadFacts
  <2>4. Reliable => image = contents(h)
    BY <1>1 DEF LoaderInv, Loading
  <2>5. contents(h)' = contents(h) /\ Reliable' = Reliable
    BY <2>1 DEF phfsVars, contents, aliasAddr, Reliable
  <2>6. Command' /\ Unstarted' /\ Segments'
    BY <1>1, <1>4, <2>1, <2>3 DEF Command, Unstarted, Segments
  <2>7. Loading'
    BY <1>4, <2>2, <2>4, <2>5 DEF Loading
  <2>8. Complete'
    BY <2>1, <2>2 DEF Complete
  <2>9. QED
    BY <1>1, <2>1, <2>2, <2>3, <2>6, <2>7, <2>8, LoadGoes
<1>5. QED
  BY <1>2, <1>3, <1>4 DEF appAdd

(* The last step of blob.                                                   *)
LEMMA BlobAddStep ==
  ASSUME LoaderInv, blobAdd
  PROVE  LoaderInv'
<1>1. /\ pc = "add" /\ cmd.op = "blob" /\ pc \in LoadLabels
      /\ UNCHANGED <<phfsVars, cmd, h, g, size, rd, wr, buf, image, segs, stack, failed, base, promised>>
      /\ pc' \in {"loaded", "fault"} /\ pc' \in LoadLabels /\ pc' \notin Early /\ lapses \subseteq lapses'
  BY DEF blobAdd, locals, LoadLabels, Early
<1>2. /\ cmd \in Lines /\ size \in Nat /\ rd \in Nat /\ wr \in Nat /\ image \in Seq(Nat) /\ segs \in Seq(Seg)
      /\ progs \in Seq(Prog) /\ Complete
  BY <1>1, LoadFacts DEF LoaderInv
<1>3. Command' /\ Unstarted' /\ Segments'
  BY <1>1, <1>2 DEF Command, Unstarted, Segments
<1>4. progs' \in Seq(Prog) /\ Complete' /\ Loading'
  <2>1. CASE progs' = Append(progs, program(TRUE)) /\ pc' = "loaded" /\ lapses' = lapses
    <3>1. /\ progs' \in Seq(Prog) /\ Last(progs') = [image |-> image, complete |-> TRUE]
          /\ ~failed => \A i \in 1..Len(progs') : progs'[i].complete
      <4>1. TRUE \in BOOLEAN
        OBVIOUS
      <4>2. QED
        BY <1>1, <2>1, <4>1, Listed
    <3>2. Reliable => image = contents(h)
      BY <1>1 DEF LoaderInv, Loading
    <3>3. contents(h)' = contents(h) /\ Reliable' = Reliable
      BY <1>1, <2>1 DEF phfsVars, contents, aliasAddr, Reliable
    <3>4. Loading'
      BY <2>1, <3>1, <3>2, <3>3 DEF Loading
    <3>5. Complete'
      BY <1>1, <3>1 DEF Complete
    <3>6. QED
      BY <3>1, <3>4, <3>5
  <2>2. CASE progs' = progs /\ lapses' = lapses \cup {"null"}
    <3>1. ~Reliable'
      BY <2>2 DEF Reliable
    <3>2. Loading'
      BY <1>1, <3>1 DEF Loading
    <3>3. QED
      BY <1>1, <1>2, <2>2, <3>2 DEF Complete
  <2>3. QED
    BY <2>1, <2>2 DEF blobAdd
<1>5. QED
  BY <1>1, <1>2, <1>3, <1>4, LoadGoes

(* The two steps of kernelimg.                                              *)
LEMMA ImageStep ==
  ASSUME LoaderInv, imgEntry \/ imgMap
  PROVE  LoaderInv'
<1>1. CASE pc = "imgmap" /\ closeAndFail
  BY <1>1, CloseAndFail DEF HasSrc, HasDst
<1>2. CASE /\ \/ pc = "kernelimg" /\ goto("stat")
              \/ pc = "imgmap" /\ goto("loaded")
           /\ UNCHANGED <<phfsVars, locals, lapses>>
  <2>1. /\ UNCHANGED <<phfsVars, cmd, h, g, size, rd, wr, buf, image, segs, lapses, stack, failed, base, progs, promised>>
        /\ pc \in LoadLabels /\ pc' \in LoadLabels /\ pc' \in {"stat", "loaded"} /\ pc \in Early
    BY <1>2 DEF goto, session, locals, LoadLabels, Early
  <2>2. cmd.op = "kernelimg" /\ Unstarted /\ Complete
    BY <1>2 DEF LoaderInv, Command
  <2>3. /\ cmd \in Lines /\ size \in Nat /\ rd \in Nat /\ wr \in Nat /\ image \in Seq(Nat) /\ segs \in Seq(Seg)
        /\ progs \in Seq(Prog)
    BY <2>1, LoadFacts
  <2>4. Command' /\ Loading' /\ Segments'
    BY <2>1, <2>2, <2>3 DEF Command, Loading, Segments
  <2>5. Unstarted' /\ Complete'
    BY <2>1, <2>2 DEF Unstarted, Complete
  <2>6. QED
    BY <2>1, <2>3, <2>4, <2>5, LoadGoes
<1>3. QED
  BY <1>1, <1>2 DEF imgEntry, imgMap

(* A header that was read is the byte of the file it was read from.          *)
LEMMA HeaderByte ==
  ASSUME LoaderInv, pc \in LoadLabels, NEW offs \in Nat, NEW data \in headerRead(offs),
         data # <<>>, offs <= sizeOf(h)
  PROVE  Head(data) = contents(h)[offs + 1]
<1> DEFINE m == medium(h)
           a == aliasAddr(h)
           z == sizeOf(h)
<1>1. DeviceTypes /\ denotes(h, cmd.name) /\ valid(h) /\ a \in Nat /\ Len(m) \in Nat /\ z \in Nat
  BY LoadFacts
<1>2. data \in phfs_read(h, offs, 1)
  BY DEF headerRead
<1>3. /\ data \in Seq(Nat) /\ Len(data) \in Nat /\ Len(data) <= 1
      /\ Len(data) > 0 => deviceOffs(h, offs) + Len(data) <= Len(m)
      /\ \A i \in 1..Len(data) : data[i] = m[deviceOffs(h, offs) + i]
      /\ within(h, offs, Len(data))
  BY <1>1, <1>2, ReadFacts
<1>4. Len(data) = 1 /\ Head(data) = data[1]
  <2>1. Len(data) # 0
    BY <1>3, EmptySeq
  <2>2. Len(data) = 1
    <3>1. PICK k : k = Len(data)
      OBVIOUS
    <3>2. k \in Nat /\ k <= 1 /\ k # 0
      BY <1>3, <2>1, <3>1
    <3>3. QED
      BY <3>1, <3>2
  <2>3. Head(data) = data[1]
    BY <1>3, HeadTailProperties
  <2>4. QED
    BY <2>2, <2>3
<1>5. Head(data) = m[a + offs + 1] /\ a + offs + 1 <= Len(m)
  BY <1>1, <1>3, <1>4 DEF deviceOffs
<1>6. CASE h.prot = "raw"
  <2>1. /\ h.id # 0 /\ z = files[h.id].size /\ z <= Word - 1
        /\ contents(h) = [i \in 1..z |-> IF a + i <= Len(flash) THEN flash[a + i] ELSE -1]
    BY <1>1, <1>6, SizeIs
  <2>2. 1 <= (z - offs) % Word
    BY <1>3, <1>4, <1>6, <2>1 DEF within
  <2>3. m = flash
    BY <1>6 DEF medium
  <2> HIDE DEF m, a, z
  <2>4. offs <= z
    BY DEF z
  <2>5. Word \in Nat
    BY PhfsAssumption
  <2>6. (z - offs) % Word = z - offs
    <3>1. PICK d : d = z - offs
      OBVIOUS
    <3>2. d \in Nat /\ d <= Word - 1
      BY <1>1, <2>1, <2>4, <2>5, <3>1
    <3>3. d % Word = d
      BY <2>5, <3>2
    <3>4. QED
      BY <3>1, <3>3
  <2>7. offs + 1 \in 1..z /\ a + (offs + 1) = a + offs + 1
    BY <1>1, <2>2, <2>4, <2>6
  <2>8. contents(h)[offs + 1] = IF a + (offs + 1) <= Len(flash) THEN flash[a + (offs + 1)] ELSE -1
    BY <2>1, <2>7
  <2>9. QED
    BY <1>5, <2>3, <2>7, <2>8
<1>7. CASE h.prot # "raw"
  <2>1. m = contents(h) /\ a = 0
    BY <1>1, <1>7, SizeIs
  <2> HIDE DEF m, a
  <2>2. a + offs + 1 = offs + 1
    BY <2>1
  <2>3. QED
    BY <1>5, <2>1, <2>2
<1>8. QED
  BY <1>6, <1>7

(* The header of a kernel.                                                  *)
LEMMA KernelHeaderStep ==
  ASSUME LoaderInv, kernelHeader
  PROVE  LoaderInv'
<1>1. CASE closeAndFail
  BY <1>1, CloseAndFail DEF kernelHeader, HasSrc, HasDst
<1>2. ASSUME NEW data \in headerRead(0), NEW v \in DOMAIN Ehdr, data # <<>> => Head(data) = v,
             lapses' = (IF data = <<>> THEN lapses \cup {"header"} ELSE lapses), size' = Ehdr[v],
             goto(IF Ehdr[v] = 0 THEN "loaded" ELSE "phdr"),
             UNCHANGED <<phfsVars, cmd, h, g, rd, wr, buf, image, segs>>
      PROVE  LoaderInv'
  <2>1. /\ pc = "kernel" /\ pc \in LoadLabels /\ pc \in Early /\ pc' \in {"loaded", "phdr"} /\ pc' \in LoadLabels
        /\ pc' \notin Early
        /\ UNCHANGED <<phfsVars, cmd, h, g, rd, wr, buf, image, segs, stack, failed, base, progs, promised>>
    BY <1>2 DEF kernelHeader, goto, session, LoadLabels, Early
  <2>2. cmd.op = "kernel" /\ Complete /\ image = <<>> /\ segs = <<>>
    BY <2>1 DEF LoaderInv, Command, Unstarted
  <2>3. /\ cmd \in Lines /\ rd \in Nat /\ wr \in Nat /\ image \in Seq(Nat) /\ segs \in Seq(Seg)
        /\ progs \in Seq(Prog)
    BY <2>1, LoadFacts
  <2>4. size' \in Nat
    BY <1>2, LoaderAssumption
  <2>5. Command' /\ Loading' /\ Unstarted' /\ Complete'
    BY <2>1, <2>2, <2>3 DEF Command, Loading, Unstarted, Complete
  <2>6. Segments'
    <3>1. Reliable' => v = contents(h)[1]
      <4> SUFFICES ASSUME Reliable' PROVE v = contents(h)[1]
        OBVIOUS
      <4>1. data # <<>>
        BY <1>2 DEF Reliable
      <4>2. PICK o : o = 0
        OBVIOUS
      <4>3. o \in Nat /\ data \in headerRead(o) /\ o <= sizeOf(h)
        BY <1>2, <2>1, <4>2, LoadFacts
      <4>4. Head(data) = contents(h)[o + 1]
        BY <2>1, <4>1, <4>3, HeaderByte
      <4>5. QED
        BY <1>2, <4>1, <4>2, <4>4
    <3>2. contents(h)' = contents(h)
      BY <2>1 DEF phfsVars, contents, aliasAddr
    <3>3. rd' = 0 /\ Len(segs') = 0
      BY <2>1, <2>2 DEF LoaderInv, Unstarted
    <3>4. pc' = "loaded" => rd' = size'
      <4>1. pc' = "loaded" => Ehdr[v] = 0
        BY <1>2 DEF goto
      <4>2. QED
        BY <1>2, <3>3, <4>1
    <3>5. QED
      BY <1>2, <2>1, <2>2, <3>1, <3>2, <3>3, <3>4 DEF Segments
  <2>7. lapses \subseteq lapses'
    BY <1>2
  <2>8. QED
    BY <2>1, <2>3, <2>4, <2>5, <2>6, <2>7, LoadGoes
<1>3. QED
  BY <1>1, <1>2 DEF kernelHeader

(* A program header.                                                        *)
LEMMA KernelPhdrStep ==
  ASSUME LoaderInv, kernelPhdr
  PROVE  LoaderInv'
<1>0. PICK data \in headerRead(1 + rd) :
        /\ lapses' = IF data = <<>> \/ 1 + rd > sizeOf(h) THEN lapses \cup {"header"} ELSE lapses
        /\ \/ /\ data # <<>> => Head(data) \notin DOMAIN Phdr
              /\ nextPhdr /\ UNCHANGED wr
           \/ \E v \in DOMAIN Phdr :
                /\ data # <<>> => Head(data) = v
                /\ wr' = v /\ goto("segment") /\ UNCHANGED rd
        /\ UNCHANGED <<phfsVars, cmd, h, g, size, buf, image, segs>>
  BY DEF kernelPhdr
<1>1. /\ pc = "phdr" /\ pc \in LoadLabels /\ lapses \subseteq lapses'
      /\ UNCHANGED <<phfsVars, cmd, h, g, size, buf, image, segs, stack, failed, base, progs, promised>>
      /\ \/ /\ rd' = rd + 1 /\ pc' = (IF rd' = size THEN "loaded" ELSE "phdr") /\ wr' = wr
            /\ data # <<>> => Head(data) \notin DOMAIN Phdr
         \/ /\ wr' \in DOMAIN Phdr /\ pc' = "segment" /\ rd' = rd
            /\ data # <<>> => Head(data) = wr'
  BY <1>0 DEF kernelPhdr, nextPhdr, goto, session, LoadLabels
<1>2. pc' \in {"loaded", "phdr", "segment"} /\ pc' \in LoadLabels /\ pc' \notin Early
  BY <1>1 DEF LoadLabels, Early
<1>3. /\ cmd \in Lines /\ size \in Nat /\ rd \in Nat /\ wr \in Nat /\ image \in Seq(Nat) /\ segs \in Seq(Seg)
      /\ progs \in Seq(Prog)
  BY <1>1, LoadFacts
<1>4. /\ cmd.op = "kernel" /\ Complete /\ image = <<>>
      /\ Reliable => /\ \A i \in 1..Len(segs) : rightSegment(segs[i])
                     /\ size = Ehdr[contents(h)[1]]
                     /\ \A k \in 1..rd : segmentLoaded(contents(h)[1 + k])
  BY <1>1 DEF LoaderInv, Command, Segments
<1>5. rd' \in Nat /\ wr' \in Nat
  BY <1>1, <1>3, LoaderAssumption
<1>6. Command' /\ Loading' /\ Unstarted' /\ Complete'
  BY <1>1, <1>2, <1>3, <1>4 DEF Command, Loading, Unstarted, Complete
<1>7. Segments'
  <2>0. contents(h)' = contents(h)
    BY <1>1 DEF phfsVars, contents, aliasAddr
  <2>1. Reliable' => /\ \A i \in 1..Len(segs') : rightSegment(segs[i])'
                     /\ size' = Ehdr[contents(h)[1]]
                     /\ \A k \in 1..rd : segmentLoaded(contents(h)[1 + k])
    <3>1. Reliable' => Reliable
      BY <1>1 DEF Reliable
    <3>2. QED
      BY <1>1, <1>4, <2>0, <3>1 DEF rightSegment
  <2>2. image' = <<>>
    BY <1>1, <1>4
  <2>3. pc' = "segment" => /\ wr' \in DOMAIN Phdr /\ Len(image') <= Phdr[wr'].size
                           /\ bytesFrom(image, h, Phdr[wr].offs)' /\ ~(Len(image') > 0)
    <3> SUFFICES ASSUME pc' = "segment"
                 PROVE  /\ wr' \in DOMAIN Phdr /\ Len(image') <= Phdr[wr'].size
                        /\ bytesFrom(image, h, Phdr[wr].offs)' /\ ~(Len(image') > 0)
      OBVIOUS
    <3>1. wr' \in DOMAIN Phdr
      BY <1>1
    <3>2. Phdr[wr'].size \in Nat
      BY <3>1, LoaderAssumption
    <3>3. Len(image') = 0
      BY <2>2
    <3>4. bytesFrom(image, h, Phdr[wr].offs)'
      BY <3>3 DEF bytesFrom
    <3>5. QED
      BY <3>1, <3>2, <3>3, <3>4
  <2>4. Reliable' => data # <<>> /\ Head(data) = contents(h)[1 + (rd + 1)]
    <3> SUFFICES ASSUME Reliable' PROVE data # <<>> /\ Head(data) = contents(h)[1 + (rd + 1)]
      OBVIOUS
    <3>1. data # <<>> /\ ~(1 + rd > sizeOf(h))
      BY <1>0 DEF Reliable
    <3>2. PICK o \in Nat : o = 1 + rd
      BY <1>3
    <3>3. o <= sizeOf(h)
      <4>1. sizeOf(h) \in Nat
        BY <1>1, LoadFacts
      <4>2. QED
        BY <3>1, <3>2, <4>1
    <3>4. Head(data) = contents(h)[o + 1]
      BY <1>0, <1>1, <3>1, <3>2, <3>3, HeaderByte
    <3>5. o + 1 = 1 + (rd + 1)
      BY <1>3, <3>2
    <3>6. QED
      BY <3>1, <3>4, <3>5
  <2>5. Reliable' => \A k \in 1..rd' : segmentLoaded(contents(h)[1 + k])
    <3>1. CASE rd' = rd
      BY <2>1, <3>1
    <3>2. CASE rd' = rd + 1 /\ (data # <<>> => Head(data) \notin DOMAIN Phdr)
      <4> SUFFICES ASSUME Reliable', NEW k \in 1..rd' PROVE segmentLoaded(contents(h)[1 + k])
        OBVIOUS
      <4>1. CASE k = rd + 1
        BY <2>4, <3>2, <4>1 DEF segmentLoaded
      <4>2. CASE k # rd + 1
        <5>1. k \in 1..rd
          BY <1>3, <3>2, <4>2
        <5>2. QED
          BY <2>1, <5>1
      <4>3. QED
        BY <4>1, <4>2
    <3>3. QED
      BY <1>1, <3>1, <3>2
  <2>6. Reliable' => \A k \in 1..rd' : segmentLoaded(contents(h)[1 + k])'
    BY <1>1, <2>0, <2>5 DEF segmentLoaded
  <2>7. Reliable' /\ pc' = "segment" => wr' = contents(h)[1 + (rd' + 1)]
    BY <1>1, <2>4
  <2>8. pc' = "loaded" => rd' = size'
    BY <1>1
  <2>9. QED
    BY <2>0, <2>1, <2>2, <2>3, <2>6, <2>7, <2>8 DEF Segments
<1>8. QED
  BY <1>1, <1>2, <1>3, <1>5, <1>6, <1>7, LoadGoes

(* A segment: its bytes, and at its end the next program header.            *)
LEMMA KernelSegmentStep ==
  ASSUME LoaderInv, kernelSegment
  PROVE  LoaderInv'
<1> DEFINE p == Phdr[wr]
           n == Len(image)
           len == least(SIZE_MSG_BUFF, p.size - n)
<1>1. pc = "segment" /\ pc \in LoadLabels
  BY DEF kernelSegment, LoadLabels
<1>2. /\ DeviceTypes /\ cmd \in Lines /\ denotes(h, cmd.name) /\ valid(h)
      /\ size \in Nat /\ rd \in Nat /\ wr \in Nat /\ image \in Seq(Nat) /\ segs \in Seq(Seg)
      /\ progs \in Seq(Prog) /\ n \in Nat /\ Len(segs) \in Nat /\ aliasAddr(h) \in Nat
      /\ Len(medium(h)) \in Nat /\ sizeOf(h) \in Nat
  BY <1>1, LoadFacts
<1>3. /\ cmd.op = "kernel" /\ Complete /\ wr \in DOMAIN Phdr /\ n <= p.size
      /\ Reliable => /\ \A i \in 1..Len(segs) : rightSegment(segs[i])
                     /\ bytesFrom(image, h, p.offs)
                     /\ n > 0 => p.offs + n <= sizeOf(h)
                     /\ size = Ehdr[contents(h)[1]]
                     /\ \A k \in 1..rd : segmentLoaded(contents(h)[1 + k])
                     /\ wr = contents(h)[1 + (rd + 1)]
  BY <1>1 DEF LoaderInv, Command, Segments
<1>4. p.offs \in Nat /\ p.size \in Nat
  BY <1>3, LoaderAssumption
<1>5. ASSUME NEW data \in phfs_read(h, p.offs + n, len), n < p.size, image' = image \o data,
             lapses' = (IF data # <<>> /\ p.offs + n > sizeOf(h) THEN lapses \cup {"beyond"} ELSE lapses),
             goto("segment"), UNCHANGED <<phfsVars, cmd, h, g, size, rd, wr, buf, segs>>
      PROVE  LoaderInv'
  <2>1. /\ UNCHANGED <<phfsVars, cmd, h, g, size, rd, wr, buf, segs, stack, failed, base, progs, promised>>
        /\ pc' = "segment" /\ pc' \in LoadLabels /\ pc' \notin Early /\ lapses \subseteq lapses'
    BY <1>5 DEF goto, session, LoadLabels, Early
  <2>2. len \in Nat /\ len <= p.size - n
    <3>1. PICK d : d = p.size - n
      OBVIOUS
    <3>a. n \in Nat /\ SIZE_MSG_BUFF \in Nat /\ p.size \in Nat /\ n < p.size
      BY <1>2, <1>4, <1>5, LoaderAssumption
    <3>2. SIZE_MSG_BUFF \in Nat /\ d \in Nat
      BY <3>1, <3>a
    <3>3. least(SIZE_MSG_BUFF, d) = IF SIZE_MSG_BUFF <= d THEN SIZE_MSG_BUFF ELSE d
      BY <3>2, LeastIs
    <3>4. QED
      BY <3>1, <3>2, <3>3
  <2>3. PICK o, m, r : o = p.offs /\ m = len /\ r = image \o data
    OBVIOUS
  <2>4. /\ Len(data) \in Nat /\ Len(data) <= m /\ r \in Seq(Nat) /\ Len(r) = n + Len(data)
        /\ bytesFrom(image, h, o) => bytesFrom(r, h, o)
        /\ Len(data) > 0 => aliasAddr(h) + o + n + Len(data) <= Len(medium(h))
        /\ within(h, o + n, Len(data))
    <3>1. o \in Nat /\ m \in Nat /\ data \in phfs_read(h, o + Len(image), m)
      BY <1>4, <1>5, <2>2, <2>3
    <3>2. /\ Len(data) \in Nat /\ Len(data) <= m
          /\ image \o data \in Seq(Nat) /\ Len(image \o data) = Len(image) + Len(data)
          /\ bytesFrom(image, h, o) => bytesFrom(image \o data, h, o)
          /\ Len(data) > 0 => aliasAddr(h) + o + Len(image) + Len(data) <= Len(medium(h))
          /\ within(h, o + Len(image), Len(data))
      BY <1>2, <3>1, ReadMore
    <3>3. QED
      BY <2>3, <3>2
  <2>5. image' = r
    BY <1>5, <2>3
  <2>6. Len(r) <= p.size
    BY <1>2, <1>4, <2>2, <2>3, <2>4, SMTT(30)
  <2>7. Reliable' =>
          /\ \A i \in 1..Len(segs) : rightSegment(segs[i])
          /\ bytesFrom(r, h, o)
          /\ Len(r) > 0 => o + Len(r) <= sizeOf(h)
    <3> SUFFICES ASSUME Reliable'
                 PROVE  /\ \A i \in 1..Len(segs) : rightSegment(segs[i])
                        /\ bytesFrom(r, h, o)
                        /\ Len(r) > 0 => o + Len(r) <= sizeOf(h)
      OBVIOUS
    <3>1. Reliable /\ ~(data # <<>> /\ o + n > sizeOf(h))
      BY <1>5, <2>1, <2>3 DEF Reliable
    <3>2. (\A i \in 1..Len(segs) : rightSegment(segs[i])) /\ bytesFrom(r, h, o)
      BY <1>3, <2>3, <2>4, <3>1
    <3>3. Len(r) > 0 => o + Len(r) <= sizeOf(h)
      <4>1. CASE Len(data) = 0
        BY <1>2, <1>3, <2>3, <2>4, <3>1, <4>1
      <4>2. CASE Len(data) > 0
        <5>1. data # <<>>
          BY <4>2
        <5>2. o + n <= sizeOf(h) /\ o \in Nat
          BY <1>2, <1>4, <2>3, <3>1, <5>1
        <5>3. CASE h.prot = "raw"
          <6>1. h.id # 0 /\ sizeOf(h) = files[h.id].size /\ sizeOf(h) <= Word - 1
            BY <1>2, <5>3, SizeIs
          <6>2. Len(data) <= (sizeOf(h) - (o + n)) % Word
            BY <2>4, <5>3, <6>1 DEF within
          <6>3. PICK z : z = sizeOf(h) - (o + n)
            OBVIOUS
          <6>4. z \in Nat /\ z <= Word - 1 /\ Word \in Nat
            BY <1>2, <5>2, <6>1, <6>3, PhfsAssumption, SMTT(30)
          <6>5. z % Word = z
            BY <6>4
          <6>6. QED
            BY <1>2, <2>4, <5>2, <6>2, <6>3, <6>5
        <5>4. CASE h.prot # "raw"
          <6>1. aliasAddr(h) = 0 /\ sizeOf(h) = Len(medium(h))
            BY <1>2, <5>4, SizeIs
          <6>2. 0 + o + n + Len(data) <= sizeOf(h)
            BY <2>4, <4>2, <6>1
          <6>3. QED
            BY <1>2, <2>4, <5>2, <6>2
        <5>5. QED
          BY <5>3, <5>4
      <4>3. QED
        BY <2>4, <4>1, <4>2
    <3>4. QED
      BY <3>2, <3>3
  <2>8. Command' /\ Loading' /\ Unstarted' /\ Complete'
    BY <1>2, <1>3, <2>1 DEF Command, Loading, Unstarted, Complete
  <2>9. Segments'
    <3>1. /\ contents(h)' = contents(h) /\ sizeOf(h)' = sizeOf(h)
          /\ medium(h)' = medium(h) /\ aliasAddr(h)' = aliasAddr(h)
      BY <2>1 DEF phfsVars, contents, aliasAddr, sizeOf, medium
    <3>2. Reliable' => (\A i \in 1..Len(segs) : rightSegment(segs[i]))'
      BY <2>1, <2>7, <3>1 DEF rightSegment
    <3>3. Reliable' => bytesFrom(image, h, Phdr[wr].offs)'
      BY <2>1, <2>3, <2>5, <2>7, <3>1 DEF bytesFrom
    <3>4. Reliable' => (Len(image) > 0 => Phdr[wr].offs + Len(image) <= sizeOf(h))'
      BY <2>1, <2>3, <2>5, <2>7, <3>1
    <3>5. wr' \in DOMAIN Phdr /\ Len(image') <= Phdr[wr'].size
      BY <1>3, <2>1, <2>5, <2>6
    <3>6. Reliable' => /\ size' = Ehdr[contents(h)'[1]]
                       /\ (\A k \in 1..rd : segmentLoaded(contents(h)[1 + k]))'
                       /\ wr' = contents(h)'[1 + (rd' + 1)]
      <4>1. Reliable' => Reliable
        BY <2>1 DEF Reliable
      <4>2. QED
        BY <1>3, <2>1, <3>1, <4>1 DEF segmentLoaded
    <3>7. QED
      BY <2>1, <3>2, <3>3, <3>4, <3>5, <3>6 DEF Segments
  <2>10. QED
    BY <1>1, <1>2, <2>1, <2>4, <2>5, <2>8, <2>9, LoadGoes
<1>6. CASE /\ n = p.size /\ segs' = Append(segs, [seg |-> wr, image |-> image])
           /\ image' = <<>> /\ wr' = 0 /\ nextPhdr
           /\ UNCHANGED <<phfsVars, cmd, h, g, size, buf, lapses>>
  <2>1. /\ UNCHANGED <<phfsVars, cmd, h, g, size, buf, lapses, stack, failed, base, progs, promised>>
        /\ rd' = rd + 1 /\ pc' \in {"loaded", "phdr"} /\ pc' \in LoadLabels /\ pc' \notin Early
        /\ pc' = "loaded" => rd' = size
    BY <1>6 DEF nextPhdr, goto, session, LoadLabels, Early
  <2> DEFINE s == [seg |-> wr, image |-> image]
  <2>2. s \in Seg /\ s.seg = wr /\ s.image = image
    BY <1>2, <1>3 DEF Seg
  <2>3. segs' = Append(segs, s)
    BY <1>6
  <2> HIDE DEF s
  <2>4. /\ segs' \in Seq(Seg) /\ Len(segs') = Len(segs) + 1
        /\ \A i \in 1..Len(segs) : segs'[i] = segs[i]
        /\ segs'[Len(segs) + 1] = s
    BY <1>2, <2>2, <2>3, AppendProperties
  <2>5. Reliable => rightSegment(s)
    <3> SUFFICES ASSUME Reliable PROVE rightSegment(s)
      OBVIOUS
    <3>1. bytesFrom(image, h, p.offs) /\ (n > 0 => p.offs + n <= sizeOf(h))
      BY <1>3
    <3>2. image = SubSeq(contents(h), p.offs + 1, p.offs + n)
      <4>1. PICK o, d : o = p.offs /\ d = cmd.name
        OBVIOUS
      <4>2. o \in Nat /\ bytesFrom(image, h, o) /\ (Len(image) > 0 => o + Len(image) <= sizeOf(h)) /\ denotes(h, d)
        BY <1>2, <1>4, <3>1, <4>1
      <4>3. image = SubSeq(contents(h), o + 1, o + Len(image))
        BY <1>2, <4>2, PartOfFile
      <4>4. QED
        BY <4>1, <4>3
    <3>3. QED
      BY <1>6, <2>2, <3>2 DEF rightSegment
  <2>6. Reliable' => \A i \in 1..Len(segs') : rightSegment(segs'[i])
    <3> SUFFICES ASSUME Reliable', NEW i \in 1..Len(segs') PROVE rightSegment(segs'[i])
      OBVIOUS
    <3>1. Reliable
      BY <2>1 DEF Reliable
    <3>2. CASE i = Len(segs) + 1
      BY <2>4, <2>5, <3>1, <3>2
    <3>3. CASE i # Len(segs) + 1
      <4>1. i \in 1..Len(segs)
        BY <1>2, <2>4, <3>3
      <4>2. QED
        BY <1>3, <2>4, <3>1, <4>1
    <3>4. QED
      BY <3>2, <3>3
  <2>7. Segments'
    <3>1. contents(h)' = contents(h)
      BY <2>1 DEF phfsVars, contents, aliasAddr
    <3>2. Reliable' => (\A i \in 1..Len(segs) : rightSegment(segs[i]))'
      BY <2>6, <3>1 DEF rightSegment
    <3>3. ASSUME Reliable', NEW k \in 1..rd + 1 PROVE segmentLoaded(contents(h)[1 + k])'
      <4>1. Reliable
        BY <2>1, <3>3 DEF Reliable
      <4>2. Len(segs) + 1 \in 1..Len(segs')
        BY <1>2, <2>4
      <4>3. CASE k = rd + 1
        <5>1. segs'[Len(segs) + 1].seg = contents(h)[1 + k]
          BY <1>3, <2>2, <2>4, <4>1, <4>3
        <5>2. QED
          BY <3>1, <4>2, <5>1 DEF segmentLoaded
      <4>4. CASE k # rd + 1
        <5>1. k \in 1..rd
          BY <1>2, <4>4
        <5>2. segmentLoaded(contents(h)[1 + k])
          BY <1>3, <4>1, <5>1
        <5>3. \A i \in 1..Len(segs) : i \in 1..Len(segs') /\ segs'[i] = segs[i]
          BY <1>2, <2>4
        <5>4. QED
          BY <3>1, <5>2, <5>3 DEF segmentLoaded
      <4>5. QED
        BY <4>3, <4>4
    <3>4. Reliable' => size' = Ehdr[contents(h)'[1]]
      BY <1>3, <2>1, <3>1 DEF Reliable
    <3>5. QED
      BY <1>6, <2>1, <3>2, <3>3, <3>4 DEF Segments
  <2>8. Command' /\ Loading' /\ Unstarted' /\ Complete'
    BY <1>2, <1>3, <2>1 DEF Command, Loading, Unstarted, Complete
  <2>9. rd' \in Nat /\ wr' \in Nat /\ image' \in Seq(Nat)
    BY <1>2, <1>6, <2>1, EmptySeq
  <2>10. QED
    BY <1>1, <1>2, <2>1, <2>4, <2>7, <2>8, <2>9, LoadGoes
<1>7. QED
  BY <1>5, <1>6 DEF kernelSegment

(***************************************************************************)
(* The invariant.                                                          *)
(***************************************************************************)
(* A step that changes nothing.                                             *)
LEMMA StutterStep ==
  ASSUME LoaderInv, UNCHANGED loaderVars
  PROVE  LoaderInv'
<1>1. /\ UNCHANGED <<devices, files, flash, host, open, synced, cmd, h, g, size, rd, wr, buf, image, segs>>
      /\ UNCHANGED <<base, progs, promised, typed, pc, stack, failed, lapses>>
  BY DEF loaderVars, phfsVars, locals, session
<1>2. DeviceTypes' /\ SessionTypes' /\ LocalTypes'
  BY <1>1 DEF LoaderInv, DeviceTypes, SessionTypes, LocalTypes
<1>3. Command' /\ ValidHandles' /\ Unstarted'
  BY <1>1 DEF LoaderInv, Command, ValidHandles, Unstarted, valid, denotes
<1>4. Synced' /\ Complete' /\ AliasDenotes'
  BY <1>1, AliasesSame DEF LoaderInv, Synced, Complete
<1>5. /\ contents(h)' = contents(h) /\ sizeOf(h)' = sizeOf(h) /\ Reliable' = Reliable
      /\ medium(h)' = medium(h) /\ aliasAddr(h)' = aliasAddr(h) /\ medium(g)' = medium(g)
  BY <1>1 DEF contents, aliasAddr, sizeOf, medium, Reliable
<1>6. Loading' /\ Segments'
  BY <1>1, <1>5 DEF LoaderInv, Loading, Segments, bytesFrom, rightSegment, segmentLoaded
<1>7. Copying'
  <2>1. from' = from /\ to' = to
    BY <1>1 DEF from, to, deviceOffs, aliasAddr
  <2>2. within(h, cmd.offs, rd)' <=> within(h, cmd.offs, rd)
    BY <1>1 DEF within
  <2>3. (overlap(rd, wr)' <=> overlap(rd, wr)) /\ (Written' <=> Written) /\ (OnTheWay' <=> OnTheWay)
        /\ FullWrites' = FullWrites
    BY <1>1, <1>5, <2>1 DEF overlap, Written, OnTheWay, FullWrites
  <2>4. QED
    BY <1>1, <1>5, <2>1, <2>2, <2>3 DEF LoaderInv, Copying
<1>8. OpenHandles' /\ Balanced'
  <2>1. DeviceTypes' /\ Grows
    BY <1>1, TablesSame
  <2>2. \A x : excess(x)' = excess(x)
    BY <1>1 DEF excess, inUse, timesOpen, BagIn, BagToSet
  <2>3. IsABag(open') /\ DOMAIN open' \subseteq Handles \ {NoHandle}
    BY <1>1 DEF LoaderInv, OpenHandles, BagToSet
  <2>4. QED
    BY <1>1, <2>1, <2>2, <2>3, ExcessKept
<1>9. QED
  BY <1>2, <1>3, <1>4, <1>6, <1>7, <1>8 DEF LoaderInv

(* Every step keeps the invariant.                                          *)
LEMMA LoaderStep == LoaderInv /\ [Next]_loaderVars => LoaderInv'
<1> SUFFICES ASSUME LoaderInv, [Next]_loaderVars PROVE LoaderInv'
  OBVIOUS
<1>1. CASE typeLine
  BY <1>1, TypeLineStep
<1>2. CASE deviceFails
  BY <1>2, DeviceFailsStep
<1>3. CASE callFails
  BY <1>3, CallFailsStep
<1>4. CASE cmd_reboot
  BY <1>4, BootStep DEF cmd_reboot
<1>5. CASE step
  <2>1. CASE cmd_parse
    BY <2>1, CmdParseStep
  <2>2. CASE copyOpen
    BY <2>2, CopyOpenStep
  <2>3. CASE copyRead
    BY <2>3, CopyReadStep
  <2>4. CASE copyWrite
    BY <2>4, CopyWriteStep
  <2>5. CASE copyClose
    BY <2>5, CopyCloseStep
  <2>6. CASE copyAlias
    BY <2>6, CopyAliasStep
  <2>7. CASE loadStat
    BY <2>7, LoadStatStep
  <2>8. CASE appHeader
    BY <2>8, AppHeaderStep
  <2>9. CASE place
    BY <2>9, PlaceStep
  <2>10. CASE cmd_cp2ent
    BY <2>10, CmdCp2entStep
  <2>11. CASE appAdd
    BY <2>11, AppAddStep
  <2>12. CASE blobAdd
    BY <2>12, BlobAddStep
  <2>13. CASE loadClose
    BY <2>13, LoadCloseStep
  <2>14. CASE kernelHeader
    BY <2>14, KernelHeaderStep
  <2>15. CASE kernelPhdr
    BY <2>15, KernelPhdrStep
  <2>16. CASE kernelSegment
    BY <2>16, KernelSegmentStep
  <2>17. CASE imgEntry \/ imgMap
    BY <2>17, ImageStep
  <2>18. CASE callMagic
    BY <2>18, CallMagicStep
  <2>19. CASE callLine
    BY <2>19, CallLineStep
  <2>20. CASE callEnds
    BY <2>20, CallEndsStep
  <2>21. CASE restart
    BY <2>21, BootStep DEF restart
  <2>22. QED
    BY <1>5, <2>1, <2>2, <2>3, <2>4, <2>5, <2>6, <2>7, <2>8, <2>9, <2>10, <2>11, <2>12, <2>13,
       <2>14, <2>15, <2>16, <2>17, <2>18, <2>19, <2>20, <2>21 DEF step
<1>6. CASE UNCHANGED loaderVars
  BY <1>6, StutterStep
<1>7. QED
  BY <1>1, <1>2, <1>3, <1>4, <1>5, <1>6 DEF Next

(* It holds in every reachable state.                                       *)
LEMMA LoaderInvariant == Spec => []LoaderInv
BY InitInv, LoaderStep, PTL DEF Spec

(***************************************************************************)
(* What follows from it.                                                   *)
(***************************************************************************)
(* A name that phfs_aliasReg accepted opens what it was registered for,     *)
(* whatever is registered after it, cut names included.                     *)
THEOREM AliasKept == Spec => []AliasDenotes
<1>1. LoaderInv => AliasDenotes
  BY DEF LoaderInv
<1>2. QED
  BY <1>1, LoaderInvariant, PTL

(* A file that app, blob or kernel report as loaded is in memory byte by    *)
(* byte, after any number of short reads: cmd_cp2ent and the loop over the  *)
(* program headers lose and repeat nothing, and skip no segment.            *)
THEOREM FileLoaded == Spec => []LoadsFile
<1>1. LoaderInv => LoadsFile
  <2> SUFFICES ASSUME LoaderInv, pc = "loaded", Reliable
               PROVE  CASE cmd.op \in {"app", "blob"} -> Last(progs) = [image |-> contents(h), complete |-> TRUE]
                        [] cmd.op = "kernel" ->
                             /\ \A i \in DOMAIN segs :
                                  segs[i].image = SubSeq(contents(h), Phdr[segs[i].seg].offs + 1,
                                                         Phdr[segs[i].seg].offs + Phdr[segs[i].seg].size)
                             /\ \A k \in 1..Ehdr[contents(h)[1]] :
                                  contents(h)[1 + k] \in DOMAIN Phdr =>
                                    \E i \in DOMAIN segs : segs[i].seg = contents(h)[1 + k]
                        [] OTHER -> TRUE
    BY DEF LoadsFile, Reliable
  <2>1. cmd.op \in {"app", "blob"} => Last(progs) = [image |-> contents(h), complete |-> TRUE]
    BY DEF LoaderInv, Loading
  <2>2. DOMAIN segs = 1..Len(segs)
    BY LenProperties DEF LoaderInv, LocalTypes
  <2>3. cmd.op = "kernel" => \A i \in DOMAIN segs : rightSegment(segs[i])
    BY <2>2 DEF LoaderInv, Segments
  <2>4. cmd.op = "kernel" => \A k \in 1..Ehdr[contents(h)[1]] : segmentLoaded(contents(h)[1 + k])
    BY DEF LoaderInv, Segments
  <2>5. QED
    BY <2>1, <2>2, <2>3, <2>4 DEF rightSegment, segmentLoaded
<1>2. QED
  BY <1>1, LoaderInvariant, PTL

(* What copy reports as copied is at the destination: as many bytes as the  *)
(* source has, up to the size asked for, after short reads and short        *)
(* writes, and the same bytes, unless a write was short or the two overlap. *)
THEOREM AllCopied == Spec => []CopiesAll
<1>1. LoaderInv => CopiesAll
  <2> DEFINE src == asked(h, cmd.offs, size)
  <2> SUFFICES ASSUME LoaderInv, pc = "copied", ~overlap(rd, wr)
               PROVE  Len(src) = wr /\ (FullWrites => src = SubSeq(medium(g), to + 1, to + wr))
    BY DEF CopiesAll, overlap, overlapping, from, to, arrived, FullWrites
  <2>1. pc \in HasDst
    BY DEF HasDst
  <2>2. /\ valid(h) /\ valid(g) /\ DeviceTypes /\ cmd.offs \in Nat /\ from \in Nat /\ to \in Nat
        /\ size \in Nat /\ rd \in Nat /\ wr \in Nat /\ wr + Len(buf) = rd /\ rd <= size
        /\ within(h, cmd.offs, rd) /\ (rd > 0 => from + rd <= Len(medium(h))) /\ buf = <<>>
        /\ h.prot = "raw" /\ h.id # 0 => cmd.offs = 0
        /\ FullWrites => Written
    BY <2>1, CopyFacts
  <2>3. rd = wr
    BY <2>2
  <2> DEFINE m == medium(h)
             left == files[h.id].size
             isAlias == h.prot = "raw" /\ h.id # 0
             lim == IF isAlias THEN least(size, left) ELSE size
             e == least(from + lim, Len(m))
  <2>4. m \in Seq(Nat) /\ Len(m) \in Nat
    BY <2>2, MediumType
  <2>5. isAlias => /\ left \in Nat /\ rd <= left
                   /\ (files[h.id].size - cmd.offs) % Word = left
    <3> SUFFICES ASSUME isAlias
                 PROVE  left \in Nat /\ rd <= left /\ (files[h.id].size - cmd.offs) % Word = left
      OBVIOUS
    <3>1. left \in 0..Word - 1 /\ Word \in Nat
      BY <2>2, EntryType, PhfsAssumption
    <3>2. cmd.offs = 0 /\ rd <= (left - cmd.offs) % Word
      BY <2>2 DEF within
    <3> HIDE DEF left
    <3>3. (left - cmd.offs) % Word = left
      BY <3>1, <3>2
    <3>4. QED
      BY <3>1, <3>2, <3>3 DEF left
  <2>6. rd = size \/ from + rd >= Len(m) \/ (isAlias /\ rd = left)
    BY <2>5 DEF LoaderInv, Copying
  <2>7. src = SubSeq(m, from + 1, e)
    BY DEF asked, from
  <2> HIDE DEF m, left, lim, e, isAlias, src
  <2>8. lim \in Nat /\ lim <= size /\ rd <= lim /\ (rd = size \/ from + rd >= Len(m) \/ rd >= lim)
    <3>1. isAlias => least(size, left) = IF size <= left THEN size ELSE left
      BY <2>2, <2>5, LeastIs
    <3>2. QED
      BY <2>2, <2>5, <2>6, <3>1 DEF lim
  <2>9. e \in Nat /\ e <= from + rd /\ (rd > 0 => e = from + rd)
    <3>1. from + lim \in Int
      BY <2>2, <2>8
    <3>2. e = IF from + lim <= Len(m) THEN from + lim ELSE Len(m)
      BY <2>4, <3>1, LeastIs DEF e
    <3>3. lim <= size
      BY <2>8
    <3>4. rd > 0 => from + rd <= Len(m)
      BY <2>2 DEF m
    <3>5. from \in Nat /\ rd \in Nat /\ size \in Nat
      BY <2>2
    <3>6. PICK n \in Nat : n = Len(m)
      BY <2>4
    <3>7. PICK f \in Nat : f = from
      BY <3>5
    <3>8. rd >= lim \/ f + rd >= n
      BY <2>8, <3>3, <3>5, <3>6, <3>7
    <3>9. e = IF f + lim <= n THEN f + lim ELSE n
      BY <3>2, <3>6, <3>7
    <3>10. rd > 0 => f + rd <= n
      BY <3>4, <3>6, <3>7
    <3>11. e \in Nat /\ e <= f + rd /\ (rd > 0 => e = f + rd)
      BY <2>8, <3>5, <3>8, <3>9, <3>10
    <3>12. QED
      BY <3>7, <3>11
  <2>10. CASE rd = 0
    <3>1. SubSeq(m, from + 1, e) = <<>>
      <4>1. from + 1 \in Int /\ e \in Int /\ e < from + 1
        BY <2>2, <2>9, <2>10
      <4>2. QED
        BY <4>1, SubSeqEmpty
    <3>2. SubSeq(medium(g), to + 1, to + wr) = <<>>
      <4>1. to + 1 \in Int /\ to + wr \in Int /\ to + wr < to + 1
        BY <2>2, <2>3, <2>10
      <4>2. QED
        BY <4>1, SubSeqEmpty
    <3>3. QED
      BY <2>3, <2>7, <2>10, <3>1, <3>2
  <2>11. CASE rd > 0
    <3>1. PICK img : img = SubSeq(m, from + 1, from + rd)
      OBVIOUS
    <3>2. PICK a, b : a = from + 1 /\ b = from + rd
      OBVIOUS
    <3>3. a \in Int /\ b \in Int /\ b - a + 1 = rd /\ a <= b
      BY <2>2, <2>11, <3>2
    <3>4. ASSUME NEW i \in a..b PROVE m[i] \in Nat
      <4>1. i \in 1..Len(m)
        BY <2>2, <2>4, <2>11, <3>2 DEF m
      <4>2. QED
        BY <2>4, <4>1, ElementOfSeq
    <3>5. /\ img \in Seq(Nat) /\ Len(img) = (IF a <= b THEN b - a + 1 ELSE 0)
          /\ \A i \in 1..b - a + 1 : img[i] = m[a + i - 1]
      <4>1. img = SubSeq(m, a, b)
        BY <3>1, <3>2
      <4>2. QED
        BY <3>3, <3>4, <4>1, SubSeqProperties
    <3>6. Len(img) = wr
      BY <2>3, <3>3, <3>5
    <3>7. ASSUME FullWrites, NEW i \in 1..Len(img) PROVE img[i] = medium(g)[to + i]
      <4>1. i \in 1..b - a + 1 /\ a + i - 1 = from + i /\ i \in 1..wr
        BY <2>2, <2>3, <3>2, <3>3, <3>6
      <4>2. img[i] = m[from + i]
        BY <3>5, <4>1
      <4>3. medium(g)[to + i] = m[from + i]
        BY <2>2, <3>7, <4>1 DEF Written, m
      <4>4. QED
        BY <4>2, <4>3
    <3>8. FullWrites => img = SubSeq(medium(g), to + 1, to + Len(img))
      BY <2>2, <3>5, <3>7, SubSeqIs
    <3>9. src = img
      BY <2>7, <2>9, <2>11, <3>1
    <3>10. QED
      BY <3>6, <3>8, <3>9
  <2>12. QED
    BY <2>2, <2>10, <2>11
<1>2. QED
  BY <1>1, LoaderInvariant, PTL

(* Between commands nothing is left half done, however the commands ended:  *)
(* nothing is open but scripts, each as often as it is executed unless a    *)
(* failure ended it; the storage is synchronised, or its driver failed to;  *)
(* and no program is listed without its maps, but by a command that failed. *)
THEOREM AllDone == Spec => []NothingHalfDone
<1>1. LoaderInv => NothingHalfDone
  <2> SUFFICES ASSUME LoaderInv, pc = "idle" PROVE NothingHalfDone
    BY DEF NothingHalfDone
  <2>1. \A x \in BagToSet(open) : ofScript(x)
    <3> SUFFICES ASSUME NEW x \in BagToSet(open) PROVE ofScript(x)
      OBVIOUS
    <3>1. x \in Handles /\ IsABag(open) /\ x \in DOMAIN open
      BY DEF LoaderInv, OpenHandles, BagToSet
    <3>2. excess(x) = times(open, x) /\ times(open, x) > 0
      BY <3>1, IdleExcess, TimesNat
    <3>3. PICK n \in DOMAIN Scripts : denotes(x, n)
      BY <3>1, <3>2 DEF LoaderInv, OpenHandles, script
    <3>4. QED
      BY <3>3 DEF denotes, ofScript
  <2>2. ASSUME ~failed, NEW x \in BagToSet(open) \cup {stack[i].h : i \in DOMAIN stack}, x # NoHandle
        PROVE  timesOpen(x) = Cardinality({i \in DOMAIN stack : stack[i].h = x})
    <3>1. stack \in Seq(ScriptFrame) /\ DOMAIN stack = 1..Len(stack)
      BY LenProperties DEF LoaderInv, SessionTypes
    <3>2. x \in Handles
      <4>1. CASE x \in BagToSet(open)
        BY <4>1 DEF LoaderInv, OpenHandles
      <4>2. CASE x \in {stack[i].h : i \in DOMAIN stack}
        <5>1. PICK i \in 1..Len(stack) : x = stack[i].h
          BY <3>1, <4>2
        <5>2. stack[i] \in ScriptFrame
          BY <3>1, <5>1, ElementOfSeq
        <5>3. QED
          BY <5>1, <5>2 DEF ScriptFrame
      <4>3. QED
        BY <2>2, <4>1, <4>2
    <3>3. excess(x) = Cardinality(frames(x))
      BY <2>2, <3>2 DEF LoaderInv, Balanced
    <3>4. excess(x) = timesOpen(x)
      BY IdleExcess, TimesOpen
    <3>5. frames(x) = {i \in DOMAIN stack : stack[i].h = x}
      BY <3>1 DEF frames
    <3>6. QED
      BY <3>3, <3>4, <3>5
  <2>3. synced \/ "sync" \in lapses
    BY DEF LoaderInv, Synced, HasDst
  <2>4. failed \/ \A i \in DOMAIN progs : progs[i].complete
    <3>1. DOMAIN progs = 1..Len(progs)
      BY LenProperties DEF LoaderInv, SessionTypes
    <3>2. QED
      BY <3>1 DEF LoaderInv, Complete
  <2>5. QED
    BY <2>1, <2>2, <2>3, <2>4 DEF NothingHalfDone
<1>2. QED
  BY <1>1, LoaderInvariant, PTL
=============================================================================
