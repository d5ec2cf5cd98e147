-------------------------------- MODULE Phfs --------------------------------
(***************************************************************************)
(* phfs: devices and aliases by name, and files opened, read, written and  *)
(* closed through them.  A device is a storage, used raw, or a line with   *)
(* phoenixd at its other end.                                              *)
(*                                                                         *)
(* A read or a write may transfer less than it is asked for, or fail.      *)
(***************************************************************************)
EXTENDS Integers, Bags, SequencesExt

CONSTANTS
  SIZE_PHFS_HANDLERS, SIZE_PHFS_ALIASES,
  Names,         (* of aliases and files *)
  Long,          (* names longer than the tables keep, the same so far *)
  DevSize,       (* bytes of the storage *)
  Word           (* number of values of size_t *)

None == "none"

ASSUME PhfsAssumption ==
  /\ SIZE_PHFS_HANDLERS \in Nat /\ SIZE_PHFS_ALIASES \in Nat
  /\ DevSize \in Nat /\ Word \in Nat /\ Word > 2 * DevSize
  /\ Long \subseteq Names /\ None \notin Names

VARIABLES
  devices,       (* sequence of [alias, prot] *)
  files,         (* sequence of [alias, addr, size] *)
  flash, host,   (* bytes of the storage; of every file of the host *)
  open,          (* bag of handles not closed *)
  synced         (* the storage has no write pending *)

phfsVars == <<devices, files, flash, host, open, synced>>
tables == <<devices, files>>

least(a, b) == Min({a, b})

(* The function f with the value v for x. *)
with(f, x, v) == [y \in DOMAIN f \cup {x} |-> IF y = x THEN v ELSE f[y]]

(* What is left of a name in a table. *)
kept(name) == IF name \in Long THEN "cut" ELSE name

named(table, name) == {i \in DOMAIN table : table[i].alias = name}

(***************************************************************************)
(* Registration.  The name is compared whole and stored cut.               *)
(***************************************************************************)
devRefused(alias, exists, prot) ==
  \/ alias = None
  \/ Len(devices) >= SIZE_PHFS_HANDLERS
  \/ ~exists
  \/ named(devices, alias) # {}
  \/ prot \notin {"raw", "phoenixd"}

phfs_devReg(alias, prot) ==
  devices' = Append(devices, [alias |-> kept(alias), prot |-> prot])

(* Mutant: the name is not looked for. *)
RegTwice(alias) == alias = None \/ Len(files) >= SIZE_PHFS_ALIASES

aliasRefused(alias) ==
  \/ alias = None
  \/ Len(files) >= SIZE_PHFS_ALIASES
  \/ named(files, alias) # {}

phfs_aliasReg(alias, addr, size) ==
  files' = Append(files, [alias |-> kept(alias), addr |-> addr, size |-> size])

(***************************************************************************)
(* Handles.  id: 0 for the whole device, an alias, or a file of the host   *)
(* (whose number is pd's own).                                             *)
(***************************************************************************)
handle(prot, id) == [prot |-> prot, id |-> id]

(* The handle phfs_open yields, if any. *)
phfs_open(alias, file, create) ==
  IF named(devices, alias) = {} THEN {}
  ELSE IF devices[Min(named(devices, alias))].prot = "phoenixd"
       THEN IF file \in DOMAIN host \/ (create /\ file # None)
            THEN {handle("phoenixd", file)} ELSE {}
  ELSE IF file = None THEN {handle("raw", 0)}
  ELSE {handle("raw", i) : i \in {i \in named(files, file) : i = Min(named(files, file))}}

(* The host after the file of x was opened to write it. *)
created(x) ==
  IF x.prot = "phoenixd" /\ x.id \notin DOMAIN host THEN with(host, x.id, <<>>) ELSE host

openFails(alias, file, create) ==
  LET hs == phfs_open(alias, file, create)
  IN hs = {} \/ \E x \in hs : x.prot = "phoenixd"

(* phfs_stat of a file. *)
sizeOf(h) == IF h.prot = "raw" THEN files[h.id].size ELSE Len(host[h.id])

(* The address of an alias.  phfs_aliasAddrResolve goes by the number of the *)
(* handle alone, also for a file of the host: its result is used there only  *)
(* with -xn, where the address is unknown anyway (place of Loader).          *)
aliasAddr(h) == IF h.prot = "raw" /\ h.id # 0 THEN files[h.id].addr ELSE 0

(* Where offs of a handle is on the device, and how many of len bytes from *)
(* there belong to it.                                                     *)
deviceOffs(h, offs) == aliasAddr(h) + offs

limit(h, offs, len) ==
  IF h.prot = "raw" /\ h.id # 0 THEN least(len, (files[h.id].size - offs) % Word) ELSE len

medium(h) == IF h.prot = "raw" THEN flash ELSE host[h.id]

(* Bytes from offs on that a read of len bytes may return. *)
available(h, offs, len) ==
  LET at == deviceOffs(h, offs)
  IN SubSeq(medium(h), at + 1, least(at + limit(h, offs, len), Len(medium(h))))

(* What phfs_read may return: some of the bytes, at least one if there is one. *)
phfs_read(h, offs, len) ==
  LET all == available(h, offs, len)
  IN {SubSeq(all, 1, n) : n \in least(1, Len(all))..Len(all)}

(* How many bytes phfs_write may take.  A storage refuses to go past its end, *)
(* and takes nothing when it is asked for nothing.                             *)
phfs_write(h, offs, len) ==
  LET n == limit(h, offs, len)
  IN IF h.prot = "raw" /\ deviceOffs(h, offs) + n > DevSize THEN {}
     ELSE least(1, n)..n

(* A gap behind the end of a file is filled with 0. *)
overwrite(s, at, data) ==
  [i \in 1..Max({Len(s), at + Len(data)}) |->
     IF i \in at + 1..at + Len(data) THEN data[i - at]
     ELSE IF i <= Len(s) THEN s[i] ELSE 0]

stored(h, offs, data) ==
  /\ IF h.prot = "raw"
     THEN /\ flash' = overwrite(flash, deviceOffs(h, offs), data)
          /\ synced' = (synced /\ data = <<>>)
          /\ UNCHANGED host
     ELSE /\ host' = [host EXCEPT ![h.id] = overwrite(@, offs, data)]
          /\ UNCHANGED <<flash, synced>>
  /\ UNCHANGED <<devices, files, open>>

one(h) == SetToBag({h})
opened(bag, h) == bag (+) one(h)
timesOpen(h) == IF BagIn(h, open) THEN open[h] ELSE 0
=============================================================================
