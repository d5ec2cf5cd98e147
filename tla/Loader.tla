------------------------------- MODULE Loader -------------------------------
(***************************************************************************)
(* The commands that use phfs: phfs, alias, copy, app, blob, kernel,       *)
(* kernelimg and call.  A step is one call of phfs, which may fail.        *)
(*                                                                         *)
(* The first byte of a file may be an ELF header and other bytes program   *)
(* headers: Ehdr and Phdr say what they mean.                              *)
(***************************************************************************)
EXTENDS Phfs

CONSTANTS
  SIZE_MSG_BUFF,
  Commands,      (* what the user may type *)
  Scripts,       (* the commands in every script *)
  Ehdr,          (* ELF header -> number of program headers, which follow it *)
  Phdr,          (* program header -> [offs, size], of a segment to load *)
  MaxProgs,      (* programs the heap of the syspage has room for *)
  Preinit,       (* the script built into plo *)
  Storage,       (* what the storage holds at first *)
  HostFiles,     (* the files of the host at first *)
  MaxLines       (* bound: lines the user types *)

Lines == Commands \cup ToSet(Preinit) \cup UNION {ToSet(Scripts[s]) : s \in DOMAIN Scripts}

ASSUME LoaderAssumption ==
  /\ SIZE_MSG_BUFF \in Nat \ {0} /\ MaxProgs \in Nat
  /\ Ehdr \in [DOMAIN Ehdr -> Nat]
  /\ DOMAIN Phdr \subseteq Nat /\ Phdr \in [DOMAIN Phdr -> [offs : Nat, size : Nat]]
  /\ Storage \in Seq(Nat) /\ Len(Storage) = DevSize
  /\ DOMAIN HostFiles \subseteq Names /\ HostFiles \in [DOMAIN HostFiles -> Seq(Nat)]

(* Numbers are of type size_t when a command gets them, a file is copied from *)
(* its first byte, and a command that loads a file wants its name.            *)
ASSUME LinesAssumption ==
  /\ Preinit \in Seq(Lines) /\ Scripts \in [DOMAIN Scripts -> Seq(Lines)]
  /\ \A c \in Lines :
       /\ c.op = "alias" => c.name \in Names /\ {c.addr, c.size} \subseteq 0..Word - 1
       /\ c.op = "base" => c.addr \in 0..Word - 1
       /\ c.op = "copy" =>
            /\ {c.file, c.dfile} \subseteq Names \cup {None}
            /\ {c.offs, c.size, c.doffs, c.dsize} \subseteq 0..Word - 1
            /\ (c.file # None => c.offs = 0) /\ (c.dfile # None => c.doffs = 0)
       /\ c.op \in {"app", "blob", "kernel", "kernelimg", "call"} => c.name \in Names
       /\ c.op = "call" /\ c.magic => c.name \in DOMAIN Scripts

VARIABLES
  pc, cmd,       (* where the command is, and which it is *)
  h, g,          (* its handles: source and destination *)
  size, rd, wr,  (* bytes to load or to copy, read so far and written so far *)
  buf,           (* the bytes on their way *)
  image, segs,   (* bytes loaded; segments loaded *)
  base,          (* aliasBase *)
  progs,         (* programs of the syspage *)
  stack,         (* the scripts being executed, innermost first *)
  typed,         (* number of lines the user has typed *)
  failed,        (* a command has failed *)
  promised,      (* what aliases of short names were registered for *)
  lapses         (* what went wrong without an error *)

locals == <<cmd, h, g, size, rd, wr, buf, image, segs>>
session == <<base, progs, promised, typed>>
loaderVars == <<phfsVars, pc, locals, session, stack, failed, lapses>>

Nothing == [op |-> "none"]
NoHandle == handle("none", 0)

(***************************************************************************)
(* How a command ends.  A failure ends every script without closing it.    *)
(***************************************************************************)
forget ==
  /\ cmd' = Nothing /\ h' = NoHandle /\ g' = NoHandle
  /\ size' = 0 /\ rd' = 0 /\ wr' = 0 /\ buf' = <<>> /\ image' = <<>> /\ segs' = <<>>
  /\ pc' = "idle"

succeed == forget /\ UNCHANGED <<stack, failed>>
fail == forget /\ stack' = <<>> /\ failed' = TRUE

(* phfs_close of a bag of handles: nobody looks at what it returns. *)
phfs_close(hs) ==
  /\ open' = open (-) hs
  /\ IF \E x \in BagToSet(hs) : x.prot = "raw"
     THEN \/ synced' = TRUE /\ UNCHANGED lapses
          \/ ~synced /\ UNCHANGED synced /\ lapses' = lapses \cup {"sync"}
     ELSE UNCHANGED <<synced, lapses>>
  /\ UNCHANGED <<tables, flash, host>>

closeAndFail == phfs_close(one(h)) /\ fail /\ UNCHANGED session

goto(label) == pc' = label /\ UNCHANGED <<stack, failed, session>>

(* Undefined sizes are 0; with none defined the whole file is copied. *)
copySize(a, b) ==
  IF a = 0 /\ b = 0 THEN Word - 1
  ELSE IF a # 0 /\ b # 0 THEN least(a, b)
  ELSE Max({a, b})

(* Every other command opens a file first, and goes on at label. *)
openFile(alias, file, label) ==
  \/ /\ phfs_open(alias, file, FALSE) = {}
     /\ fail
     /\ UNCHANGED <<phfsVars, session, lapses>>
  \/ \E x \in phfs_open(alias, file, FALSE) :
       /\ open' = opened(open, x)
       /\ h' = x
       /\ size' = IF cmd.op = "copy" THEN copySize(cmd.size, cmd.dsize) ELSE 0
       /\ goto(label)
       /\ UNCHANGED <<tables, flash, host, synced, cmd, g, rd, wr, buf, image, segs, lapses>>

(***************************************************************************)
(* cmds/phfs.c and cmds/alias.c                                            *)
(***************************************************************************)
cmd_phfs(c) ==
  /\ IF devRefused(c.alias, c.exists, c.prot) THEN fail /\ UNCHANGED devices
     ELSE phfs_devReg(c.alias, c.prot) /\ succeed
  /\ UNCHANGED <<files, flash, host, open, synced, session, lapses>>

promise(alias, addr, sz) ==
  promised' = IF alias \in Long THEN promised ELSE with(promised, alias, <<addr, sz>>)

cmd_alias(c) ==
  LET addr == IF c.rel THEN (c.addr + base) % Word ELSE c.addr
  IN /\ IF addr < c.addr \/ aliasRefused(c.name)
        THEN fail /\ UNCHANGED <<files, promised>>
        ELSE phfs_aliasReg(c.name, addr, c.size) /\ promise(c.name, addr, c.size) /\ succeed
     /\ UNCHANGED <<devices, flash, host, open, synced, base, progs, typed, lapses>>

cmd_aliasBase(c) ==
  /\ base' = IF c.rel THEN (base + c.addr) % Word ELSE c.addr
  /\ succeed
  /\ UNCHANGED <<phfsVars, progs, promised, typed, lapses>>

(***************************************************************************)
(* cmds/copy.c                                                             *)
(***************************************************************************)
(* Mutant: the source stays open when the destination cannot be opened. *)
CopyOpenLeaks ==
  /\ pc = "copyopen"
  /\ \/ /\ phfs_open(cmd.dst, cmd.dfile, TRUE) = {}
        /\ fail
        /\ UNCHANGED <<phfsVars, session, lapses>>
     \/ \E d \in phfs_open(cmd.dst, cmd.dfile, TRUE) :
          /\ open' = opened(open, d)
          /\ g' = d
          /\ host' = created(d)
          /\ lapses' = lapses \ {"short"}
          /\ goto("copy")
          /\ UNCHANGED <<tables, flash, synced, cmd, h, size, rd, wr, buf, image, segs>>

copyOpen ==
  /\ pc = "copyopen"
  /\ \/ phfs_open(cmd.dst, cmd.dfile, TRUE) = {} /\ closeAndFail
     \/ \E d \in phfs_open(cmd.dst, cmd.dfile, TRUE) :
          /\ open' = opened(open, d)
          /\ g' = d
          /\ host' = created(d)
          /\ lapses' = lapses \ {"short"}
          /\ goto("copy")
          /\ UNCHANGED <<tables, flash, synced, cmd, h, size, rd, wr, buf, image, segs>>

(* Mutant: the end of the file is not noticed. *)
CopyNoEnd ==
  /\ pc = "copy"
  /\ \E data \in phfs_read(h, cmd.offs + rd, least((size - rd) % Word, SIZE_MSG_BUFF)) :
       /\ rd' = rd + Len(data)
       /\ buf' = data
       /\ goto(IF data = <<>> THEN "copy" ELSE "copywrite")
       /\ UNCHANGED <<phfsVars, cmd, h, g, size, wr, image, segs, lapses>>

copyRead ==
  /\ pc = "copy"
  /\ \E data \in phfs_read(h, cmd.offs + rd, least((size - rd) % Word, SIZE_MSG_BUFF)) :
       /\ rd' = rd + Len(data)
       /\ buf' = data
       /\ goto(IF data = <<>> THEN "copied" ELSE "copywrite")
       /\ UNCHANGED <<phfsVars, cmd, h, g, size, wr, image, segs, lapses>>

(* Mutant: the rest of a short write is dropped. *)
CopyShortWrite ==
  /\ pc = "copywrite"
  /\ \/ /\ phfs_write(g, cmd.doffs + wr, Len(buf)) = {}
        /\ phfs_close(opened(one(h), g)) /\ fail /\ UNCHANGED session
     \/ \E n \in phfs_write(g, cmd.doffs + wr, Len(buf)) :
          /\ stored(g, cmd.doffs + wr, SubSeq(buf, 1, n))
          /\ wr' = wr + n
          /\ buf' = <<>>
          /\ goto(IF size = rd THEN "copied" ELSE "copy")
          /\ UNCHANGED <<cmd, h, g, size, rd, image, segs, lapses>>

(* The condition of the loop: bytes are left, and the last write took some. *)
(* After a short write the next one starts at the head of the buffer again, *)
(* with the number of bytes that are left.                                  *)
copyWrite ==
  /\ pc = "copywrite"
  /\ \/ /\ phfs_write(g, cmd.doffs + wr, Len(buf)) = {}
        /\ phfs_close(opened(one(h), g)) /\ fail /\ UNCHANGED session
     \/ \E n \in phfs_write(g, cmd.doffs + wr, Len(buf)) :
          /\ stored(g, cmd.doffs + wr, SubSeq(buf, 1, n))
          /\ wr' = wr + n
          /\ buf' = SubSeq(buf, 1, Len(buf) - n)
          /\ lapses' = IF n \in 1..Len(buf) - 1 THEN lapses \cup {"short"} ELSE lapses
          /\ goto(IF buf' # <<>> THEN "copywrite" ELSE IF size = rd THEN "copied" ELSE "copy")
          /\ UNCHANGED <<cmd, h, g, size, rd, image, segs>>

copyClose ==
  /\ pc = "copied"
  /\ phfs_close(opened(one(h), g))
  /\ goto("copyalias")
  /\ UNCHANGED locals

(* The copy gets the name of the destination or, written by address, of the source. *)
copyAlias ==
  /\ pc = "copyalias"
  /\ LET name == IF cmd.dfile = None THEN cmd.file ELSE cmd.dfile
     IN IF aliasRefused(name) THEN fail /\ UNCHANGED <<files, promised>>
        ELSE phfs_aliasReg(name, cmd.doffs, wr) /\ promise(name, cmd.doffs, wr) /\ succeed
  /\ UNCHANGED <<devices, flash, host, open, synced, base, progs, typed, lapses>>

(***************************************************************************)
(* cmds/app.c and cmds/blob.c                                              *)
(***************************************************************************)
loadStat ==
  /\ pc = "stat"
  /\ size' = sizeOf(h)
  /\ goto(CASE cmd.op = "app" -> "header" [] cmd.op = "blob" -> "place" [] OTHER -> "imgmap")
  /\ UNCHANGED <<phfsVars, cmd, h, g, rd, wr, buf, image, segs, lapses>>

(* A header, or nothing: one that was read in part is what the stack holds. *)
headerRead(offs) == phfs_read(h, offs, 1) \cup {<<>>}

appHeader ==
  /\ pc = "header"
  /\ \E data \in headerRead(0) :
       \/ /\ data # <<>> => Head(data) \notin DOMAIN Ehdr
          /\ closeAndFail
       \/ /\ data # <<>> => Head(data) \in DOMAIN Ehdr
          /\ goto("place")
          /\ UNCHANGED <<phfsVars, locals, lapses>>

(* phfs_map and syspage_entryAdd: the file is used where it is, or memory is *)
(* reserved to copy it to.  With -xn it is used in place also if the device  *)
(* cannot be mapped, at an address that not every device has set.            *)
place ==
  /\ pc = "place"
  /\ \/ cmd.maps = "none" /\ closeAndFail
     \/ /\ cmd.maps # "none"
        /\ \/ /\ h.prot = "raw" /\ aliasAddr(h) + size <= DevSize
              /\ image' = SubSeq(flash, aliasAddr(h) + 1, aliasAddr(h) + size)
              /\ goto("add")
              /\ UNCHANGED lapses
           \/ /\ cmd.xn
              /\ lapses' = lapses \cup {"address"}
              /\ goto("add")
              /\ UNCHANGED image
           \/ /\ ~cmd.xn
              /\ goto(IF size = 0 THEN "add" ELSE "load")
              /\ UNCHANGED <<image, lapses>>
        /\ UNCHANGED <<phfsVars, cmd, h, g, size, rd, wr, buf, segs>>

(* Mutant: every read is taken for a full one. *)
CopyFullReads ==
  /\ pc = "load"
  /\ \E data \in phfs_read(h, rd, least(SIZE_MSG_BUFF, size - rd)) :
       /\ rd' = least(size, rd + SIZE_MSG_BUFF)
       /\ image' = image \o data
       /\ goto(IF rd' = size THEN "add" ELSE "load")
       /\ UNCHANGED <<phfsVars, cmd, h, g, size, wr, buf, segs, lapses>>

(* At the end of the device a read returns nothing, for ever. *)
cmd_cp2ent ==
  /\ pc = "load"
  /\ \E data \in phfs_read(h, rd, least(SIZE_MSG_BUFF, size - rd)) :
       /\ rd' = rd + Len(data)
       /\ image' = image \o data
       /\ goto(IF rd' = size THEN "add" ELSE "load")
       /\ UNCHANGED <<phfsVars, cmd, h, g, size, wr, buf, segs, lapses>>

program(complete) == [image |-> image, complete |-> complete]

(* syspage_progAdd links the program; its maps are allocated and resolved after that. *)
appAdd ==
  /\ pc = "add" /\ cmd.op = "app"
  /\ \/ Len(progs) = MaxProgs /\ closeAndFail
     \/ /\ Len(progs) < MaxProgs
        /\ \/ /\ progs' = Append(progs, program(FALSE))
              /\ phfs_close(one(h)) /\ fail
           \/ /\ cmd.maps = "all"
              /\ progs' = Append(progs, program(TRUE))
              /\ pc' = "loaded"
              /\ UNCHANGED <<phfsVars, locals, stack, failed, lapses>>
        /\ UNCHANGED <<base, promised, typed>>

(* Without memory for the program cmd_blobLoad stores through a null pointer. *)
blobAdd ==
  /\ pc = "add" /\ cmd.op = "blob"
  /\ UNCHANGED <<phfsVars, locals, base, promised, typed, stack, failed>>
  /\ \/ /\ Len(progs) < MaxProgs
        /\ progs' = Append(progs, program(TRUE))
        /\ pc' = "loaded"
        /\ UNCHANGED lapses
     \/ /\ Len(progs) = MaxProgs
        /\ pc' \in {"loaded", "fault"}
        /\ lapses' = lapses \cup {"null"}
        /\ UNCHANGED progs

(* Every loader closes its file last. *)
loadClose == pc = "loaded" /\ phfs_close(one(h)) /\ succeed /\ UNCHANGED session

(***************************************************************************)
(* cmds/kernel.c and cmds/kernelimg.c                                      *)
(***************************************************************************)
kernelHeader ==
  /\ pc = "kernel"
  /\ \E data \in headerRead(0) :
       \/ /\ data # <<>> => Head(data) \notin DOMAIN Ehdr
          /\ closeAndFail
       \/ \E v \in DOMAIN Ehdr :
            /\ data # <<>> => Head(data) = v
            /\ lapses' = IF data = <<>> THEN lapses \cup {"header"} ELSE lapses
            /\ size' = Ehdr[v]
            /\ goto(IF Ehdr[v] = 0 THEN "loaded" ELSE "phdr")
            /\ UNCHANGED <<phfsVars, cmd, h, g, rd, wr, buf, image, segs>>

(* The program header rd.  wr is the segment: the value of its header. *)
nextPhdr == rd' = rd + 1 /\ goto(IF rd' = size THEN "loaded" ELSE "phdr")

kernelPhdr ==
  /\ pc = "phdr"
  /\ \E data \in headerRead(1 + rd) :
       /\ lapses' = IF data = <<>> \/ 1 + rd > sizeOf(h) THEN lapses \cup {"header"} ELSE lapses
       /\ \/ /\ data # <<>> => Head(data) \notin DOMAIN Phdr
             /\ nextPhdr
             /\ UNCHANGED wr
          \/ \E v \in DOMAIN Phdr :
               /\ data # <<>> => Head(data) = v
               /\ wr' = v
               /\ goto("segment")
               /\ UNCHANGED rd
       /\ UNCHANGED <<phfsVars, cmd, h, g, size, buf, image, segs>>

(* syspage_entryAdd, then the bytes of the segment. *)
kernelSegment ==
  /\ pc = "segment"
  /\ LET p == Phdr[wr]
         n == Len(image)
     IN \/ \E data \in phfs_read(h, p.offs + n, least(SIZE_MSG_BUFF, p.size - n)) :
             /\ n < p.size
             /\ image' = image \o data
             /\ lapses' = IF data # <<>> /\ p.offs + n > sizeOf(h) THEN lapses \cup {"beyond"} ELSE lapses
             /\ goto("segment")
             /\ UNCHANGED <<phfsVars, cmd, h, g, size, rd, wr, buf, segs>>
        \/ /\ n = p.size
           /\ segs' = Append(segs, [seg |-> wr, image |-> image])
           /\ image' = <<>> /\ wr' = 0
           /\ nextPhdr
           /\ UNCHANGED <<phfsVars, cmd, h, g, size, buf, lapses>>

(* The entry point of an image, of which only an error is looked at. *)
imgEntry == pc = "kernelimg" /\ goto("stat") /\ UNCHANGED <<phfsVars, locals, lapses>>

(* The file has to be mapped, and its two parts reserved. *)
imgMap ==
  /\ pc = "imgmap"
  /\ \/ closeAndFail
     \/ /\ h.prot = "raw" /\ aliasAddr(h) + size <= DevSize
        /\ goto("loaded")
        /\ UNCHANGED <<phfsVars, locals, lapses>>

(***************************************************************************)
(* cmds/call.c and cmd_parse                                               *)
(***************************************************************************)
(* The magic number: a script with another one is not an error. *)
callMagic ==
  /\ pc = "magic"
  /\ \/ ~cmd.magic /\ phfs_close(one(h)) /\ succeed /\ UNCHANGED session
     \/ /\ cmd.magic
        /\ stack' = <<[h |-> h, lines |-> Scripts[cmd.name]]>> \o stack
        /\ forget
        /\ UNCHANGED <<phfsVars, session, failed, lapses>>

(* A read fails, or a line is too long. *)
callFails ==
  /\ pc = "idle" /\ stack # <<>>
  /\ phfs_close(one(stack[1].h)) /\ fail
  /\ UNCHANGED session

callEnds ==
  /\ pc = "idle" /\ stack # <<>> /\ stack[1].lines = <<>>
  /\ phfs_close(one(stack[1].h))
  /\ stack' = Tail(stack)
  /\ UNCHANGED <<pc, locals, session, failed>>

(* Bound: nothing is typed after a lapse. *)
typeLine ==
  /\ pc = "idle" /\ stack = <<>>
  /\ typed < MaxLines /\ lapses = {}
  /\ typed' = typed + 1
  /\ cmd' \in Commands
  /\ pc' = "line"
  /\ UNCHANGED <<phfsVars, h, g, size, rd, wr, buf, image, segs, stack, base, progs, promised, failed, lapses>>

callLine ==
  /\ pc = "idle" /\ stack # <<>> /\ stack[1].lines # <<>>
  /\ cmd' = Head(stack[1].lines)
  /\ stack' = [stack EXCEPT ![1].lines = Tail(@)]
  /\ pc' = "line"
  /\ UNCHANGED <<phfsVars, h, g, size, rd, wr, buf, image, segs, session, failed, lapses>>

(* Each command starts by opening a file, but for those that only register. *)
cmd_parse ==
  /\ pc = "line"
  /\ \/ cmd.op = "phfs" /\ cmd_phfs(cmd)
     \/ cmd.op = "alias" /\ cmd_alias(cmd)
     \/ cmd.op = "base" /\ cmd_aliasBase(cmd)
     \/ cmd.op = "copy" /\ openFile(cmd.src, cmd.file, "copyopen")
     \/ cmd.op \in {"app", "blob"} /\ openFile(cmd.dev, cmd.name, "stat")
     \/ cmd.op = "kernel" /\ openFile(cmd.dev, cmd.name, "kernel")
     \/ cmd.op = "kernelimg" /\ openFile(cmd.dev, cmd.name, "kernelimg")
     \/ cmd.op = "call" /\ openFile(cmd.dev, cmd.name, "magic")

(* plo starts with its built-in script, which has no file. *)
cmd_run == <<[h |-> NoHandle, lines |-> Preinit]>>

Init ==
  /\ flash = Storage /\ host = HostFiles
  /\ devices = <<>> /\ files = <<>> /\ open = EmptyBag /\ synced = TRUE
  /\ pc = "idle" /\ cmd = Nothing /\ h = NoHandle /\ g = NoHandle
  /\ size = 0 /\ rd = 0 /\ wr = 0 /\ buf = <<>> /\ image = <<>> /\ segs = <<>>
  /\ base = 0 /\ progs = <<>> /\ stack = cmd_run /\ typed = 0
  /\ failed = FALSE /\ promised = <<>> /\ lapses = {}

(* A call of phfs fails, or syspage_entryAdd; a raw device always opens. *)
deviceFails ==
  \/ /\ pc \in {"header", "place", "load", "kernel", "phdr", "segment", "kernelimg", "magic"}
     /\ closeAndFail
  \/ pc = "stat" /\ h.prot = "phoenixd" /\ closeAndFail
  \/ pc = "copyopen" /\ openFails(cmd.dst, cmd.dfile, TRUE) /\ closeAndFail
  \/ pc \in {"copy", "copywrite"} /\ phfs_close(opened(one(h), g)) /\ fail /\ UNCHANGED session
  \/ /\ pc = "line" /\ cmd.op \notin {"phfs", "alias", "base"}
     /\ LET copying == cmd.op = "copy"
        IN openFails(IF copying THEN cmd.src ELSE cmd.dev, IF copying THEN cmd.file ELSE cmd.name, FALSE)
     /\ fail
     /\ UNCHANGED <<phfsVars, session, lapses>>

boot ==
  /\ forget
  /\ devices' = <<>> /\ files' = <<>> /\ open' = EmptyBag /\ synced' = TRUE
  /\ base' = 0 /\ progs' = <<>> /\ stack' = cmd_run
  /\ failed' = FALSE /\ promised' = <<>> /\ lapses' = {}
  /\ UNCHANGED <<flash, host, typed>>

(* The exception ends in a restart; the user may also ask for one. *)
restart == pc = "fault" /\ boot
cmd_reboot == pc = "idle" /\ stack = <<>> /\ boot

step ==
  \/ cmd_parse \/ copyOpen \/ copyRead \/ copyWrite \/ copyClose \/ copyAlias
  \/ loadStat \/ appHeader \/ place \/ cmd_cp2ent \/ appAdd \/ blobAdd \/ loadClose
  \/ kernelHeader \/ kernelPhdr \/ kernelSegment \/ imgEntry \/ imgMap
  \/ callMagic \/ callLine \/ callEnds \/ restart

Next == typeLine \/ step \/ deviceFails \/ callFails \/ cmd_reboot

Spec == Init /\ [][Next]_loaderVars /\ WF_loaderVars(step)

(***************************************************************************)
(* Properties.                                                             *)
(***************************************************************************)
(* The bytes of the file behind a handle.  Behind the end of the storage   *)
(* there is none: such a file is never loaded.                             *)
contents(x) ==
  IF x.prot = "raw"
  THEN [i \in 1..files[x.id].size |->
          IF aliasAddr(x) + i <= DevSize THEN flash[aliasAddr(x) + i] ELSE -1]
  ELSE host[x.id]

(* A file that app, blob or kernel report as loaded is in memory byte by   *)
(* byte, after any number of short reads: a program is listed with it, and *)
(* no segment of a kernel is left out.  Excepted is what the code does not *)
(* look at: -xn on a device that did not tell its address, a header read   *)
(* in part or behind the end of the file, a segment behind the end of an   *)
(* alias, and a blob without memory for its program.                       *)
LoadsFile ==
  pc = "loaded" /\ lapses \subseteq {"sync", "short"} =>
    CASE cmd.op \in {"app", "blob"} -> Last(progs) = [image |-> contents(h), complete |-> TRUE]
      [] cmd.op = "kernel" ->
           /\ \A i \in DOMAIN segs :
                LET p == Phdr[segs[i].seg]
                IN segs[i].image = SubSeq(contents(h), p.offs + 1, p.offs + p.size)
           /\ \A k \in 1..Ehdr[contents(h)[1]] :
                contents(h)[1 + k] \in DOMAIN Phdr =>
                  \E i \in DOMAIN segs : segs[i].seg = contents(h)[1 + k]
      [] OTHER -> TRUE

(* The bytes copy is asked for: n from offs on, or as many as there are. *)
asked(x, offs, n) ==
  LET at == deviceOffs(x, offs)
      len == IF x.prot = "raw" /\ x.id # 0 THEN least(n, files[x.id].size) ELSE n
  IN SubSeq(medium(x), at + 1, least(at + len, Len(medium(x))))

overlapping(r, w) ==
  /\ h.prot = g.prot /\ (h.prot = "phoenixd" => h.id = g.id)
  /\ deviceOffs(h, cmd.offs) < deviceOffs(g, cmd.doffs) + w
  /\ deviceOffs(g, cmd.doffs) < deviceOffs(h, cmd.offs) + r

(* What was written of a copy, read back. *)
arrived == LET to == deviceOffs(g, cmd.doffs) IN SubSeq(medium(g), to + 1, to + wr)

(* What copy reports as copied is at the destination: as many bytes as the *)
(* source has, up to the size asked for, and the same bytes, unless a      *)
(* write of this copy was short or the two overlap.                        *)
CopiesAll ==
  pc = "copied" /\ ~overlapping(rd, wr) =>
    LET from == asked(h, cmd.offs, size)
    IN Len(from) = wr /\ ("short" \notin lapses => from = arrived)

(* "copies data between devices" (cmds/copy.c:25): the same with short     *)
(* writes, which a loop is there for.  The code breaks it: it repeats the  *)
(* head of the buffer.                                                     *)
CopiesExactly ==
  pc = "copied" /\ ~overlapping(rd, wr) => asked(h, cmd.offs, size) = arrived

(* A handle of a script. *)
ofScript(x) == (IF x.prot = "raw" THEN files[x.id].alias ELSE x.id) \in DOMAIN Scripts

(* Between commands nothing is left half done. Nothing is open but the     *)
(* scripts in execution, each as often as it is executed, and after a      *)
(* failure those it ended; the storage holds what was written to it,       *)
(* unless its driver failed to synchronise, which no command reports; and  *)
(* no program is listed without its maps or its file, except by a command  *)
(* that failed.                                                            *)
NothingHalfDone ==
  pc = "idle" =>
    /\ \A x \in BagToSet(open) : ofScript(x)
    /\ ~failed => \A x \in BagToSet(open) \cup {stack[i].h : i \in DOMAIN stack} :
                    x # NoHandle => timesOpen(x) = Cardinality({i \in DOMAIN stack : stack[i].h = x})
    /\ synced \/ "sync" \in lapses
    /\ failed \/ \A i \in DOMAIN progs : progs[i].complete

(* A name that was registered successfully opens what it was registered    *)
(* for, to the end of the session, if it fits the table.                   *)
AliasDenotes ==
  \A n \in DOMAIN promised :
    /\ named(files, n) # {}
    /\ LET f == files[Min(named(files, n))] IN <<f.addr, f.size>> = promised[n]

(* The reads and writes that return nothing and are repeated for ever: of  *)
(* a file or a segment longer than its device, and to an alias that is     *)
(* full.                                                                   *)
starved ==
  \/ pc = "load" /\ available(h, rd, 1) = <<>>
  \/ pc = "segment" /\ available(h, Phdr[wr].offs + Len(image), 1) = <<>>
  \/ pc = "copywrite" /\ limit(g, cmd.doffs + wr, Len(buf)) = 0

(* Every other command ends, and every script. *)
CommandEnds == ~(pc = "idle" /\ stack = <<>>) ~> (pc = "idle" /\ stack = <<>>) \/ starved
=============================================================================
