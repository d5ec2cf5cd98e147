------------------------------ MODULE MCLoader ------------------------------
(* A storage of six bytes, among them an alias whose program header points   *)
(* behind it; a host with a kernel of two segments, one whose segment is cut *)
(* off, an empty file and two scripts.                                       *)
EXTENDS Loader

MCNames == {"fl", "com", "a", "b", "c", "e", "s", "t", "cut", "long1", "long2"}
MCLong == {"long1", "long2"}

MCEhdr == 10 :> 1 @@ 11 :> 2
MCPhdr ==
  20 :> [offs |-> 2, size |-> 3] @@ 21 :> [offs |-> 5, size |-> 1] @@ 22 :> [offs |-> 1, size |-> 3]

MCFlash == <<10, 21, 1, 2, 3, 4>>
MCHost == "a" :> <<11, 20, 21, 5, 6, 7>> @@ "b" :> <<10, 22>> @@ "e" :> <<>> @@ "s" :> <<>> @@ "t" :> <<>>

fl(op, name) == [op |-> op, dev |-> "fl", name |-> name, maps |-> "all", xn |-> FALSE]
com(op, name) == [fl(op, name) EXCEPT !.dev = "com"]
alias(name, addr, sz) == [op |-> "alias", name |-> name, addr |-> addr, size |-> sz, rel |-> FALSE]
phfs(name, prot) == [op |-> "phfs", alias |-> name, exists |-> TRUE, prot |-> prot]
copy(src, file, offs, sz, dst, dfile, doffs, dsz) ==
  [op |-> "copy", src |-> src, file |-> file, offs |-> offs, size |-> sz,
   dst |-> dst, dfile |-> dfile, doffs |-> doffs, dsize |-> dsz]

MCPreinit == <<phfs("fl", "raw"), phfs("com", "phoenixd"), alias("a", 0, 4)>>

MCCommands ==
  {phfs("fl", "raw"), phfs("long1", "other"), alias("a", 2, 2),
   alias("b", 4, 3), alias("long1", 0, 2), alias("long2", 2, 2),
   [alias("b", 9, 1) EXCEPT !.rel = TRUE], [op |-> "base", addr |-> 8, rel |-> TRUE],
   fl("app", "a"), com("app", "a"), [com("app", "a") EXCEPT !.maps = "first"],
   [fl("app", "b") EXCEPT !.xn = TRUE], fl("blob", "b"), com("blob", "b"),
   fl("kernel", "a"), com("kernel", "a"), com("kernel", "b"), com("app", "e"), com("kernel", "e"), fl("kernelimg", "a"),
   copy("fl", "a", 0, 0, "com", "c", 0, 0), copy("com", "a", 0, 0, "fl", "b", 0, 0),
   copy("com", "a", 0, 0, "fl", None, 1, 3), copy("fl", None, 0, 2, "fl", None, 3, 3),
   com("call", "s") @@ [magic |-> TRUE],
   com("call", "s") @@ [magic |-> FALSE]}

(* A copy to the host, which tells how many bytes of a message it has written. *)
MCCopies == {copy("fl", "a", 0, 0, "com", "c", 0, 0)}

MCScripts ==
  "s" :> <<alias("b", 4, 2), com("call", "t") @@ [magic |-> TRUE]>> @@
  "t" :> <<fl("blob", "b")>>
=============================================================================
