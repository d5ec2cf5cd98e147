------------------------------ MODULE Phoenixd ------------------------------
(***************************************************************************)
(* phfs/phoenixd.c: files of a host over the messages of phfs/msg.c.  A    *)
(* call sends one request, with the attempts of msg_send, and looks at the *)
(* reply.  Messages are whole here (MsgFrame has their bytes): a request   *)
(* or a reply is lost, or a reply comes after the timeout.                 *)
(* The host is not part of the repository; it does what the client asks.   *)
(***************************************************************************)
EXTENDS Integers, Sequences, SequencesExt

CONSTANTS
  Names,                   (* names of files, on the host or not *)
  Disk,                    (* the files of the host: name -> cells *)
  Cells,                   (* contents of a cell *)
  MaxPos, MaxLen,          (* largest offset and length a caller asks for *)
  MaxData,                 (* MSG_MAXLEN - PHOENIXD_HDRSZ, in cells *)
  MaxFds,                  (* handles the host gives out *)
  MSGRECV_MAXRETR,
  MaxLate, MaxLoss

ASSUME PhoenixdAssumption ==
  /\ DOMAIN Disk \subseteq Names /\ Disk \in [DOMAIN Disk -> Seq(Cells)]
  /\ MaxPos \in Nat /\ MaxLen \in Nat /\ MaxData \in Nat
  /\ MSGRECV_MAXRETR \in Nat \ {0}

VARIABLES
  pc, retr,
  smsg,        (* the request of the call in progress, or of the last one *)
  ret,         (* what the last call returned *)
  rmsg,        (* ... and the reply it took its answer from *)
  asked,       (* requests on their way to the host *)
  wire,        (* replies not read yet *)
  disk, fds,   (* the host: its files, and the name each handle stands for *)
  late, loss,
  clean        (* nothing was on its way when the call began *)

client == <<pc, retr, smsg, ret, rmsg, clean>>
link == <<asked, wire>>
host == <<disk, fds>>
phdVars == <<client, link, host, late, loss>>

(* Replies: len is -1 for an error, data is the handle, the cells or the size. *)
reply(type, len, data) == [type |-> type, len |-> len, data |-> data]
noReply == reply("none", 0, <<>>)

(***************************************************************************)
(* The calls.                                                              *)
(***************************************************************************)
send(m) ==
  /\ pc = "idle" /\ pc' = "write"
  /\ retr' = 0
  /\ smsg' = m
  /\ ret' = "none" /\ rmsg' = noReply
  /\ clean' = (asked = <<>> /\ wire = <<>>)
  /\ UNCHANGED <<link, host, late, loss>>

refuse ==
  /\ pc = "idle"
  /\ ret' = "EINVAL"
  /\ UNCHANGED <<pc, retr, smsg, rmsg, clean, link, host, late, loss>>

phoenixd_open(name) == send([type |-> "OPEN", name |-> name])

phoenixd_read(fd, offs, len) ==
  IF len > MaxData THEN refuse
  ELSE send([type |-> "READ", fd |-> fd, pos |-> offs, len |-> len])

phoenixd_write(fd, offs, data) ==
  IF Len(data) > MaxData THEN refuse
  ELSE send([type |-> "WRITE", fd |-> fd, pos |-> offs, data |-> data])

phoenixd_stat(fd) == send([type |-> "FSTAT", fd |-> fd])

(* Mutant: the type of the reply is not looked at. *)
AcceptAnyType(r) == r.len >= 0

(* What a call requires of the reply to its request: the same type, and no   *)
(* error of the host in it.                                                  *)
accept(r) == r.type = smsg.type /\ r.len >= 0

(* The loop of msg_send, and -EIO at its end. *)
nextAttempt ==
  /\ retr' = retr + 1
  /\ IF retr + 1 < MSGRECV_MAXRETR
     THEN pc' = "write" /\ UNCHANGED ret
     ELSE pc' = "idle" /\ ret' = "EIO"

(* One more attempt: the request leaves, it is lost, or devs_write fails. *)
msg_write ==
  /\ pc = "write"
  /\ \/ /\ asked' = Append(asked, smsg)
        /\ pc' = "read"
        /\ UNCHANGED <<retr, ret, loss>>
     \/ /\ loss < MaxLoss /\ loss' = loss + 1
        /\ pc' = "read"
        /\ UNCHANGED <<retr, ret, asked>>
     \/ /\ loss < MaxLoss /\ loss' = loss + 1
        /\ nextAttempt
        /\ UNCHANGED asked
  /\ UNCHANGED <<smsg, rmsg, clean, wire, host, late>>

(* The first reply is taken, whatever it answers, and those that devs_read   *)
(* returned with it are dropped.                                             *)
msg_read(n) ==
  /\ pc = "read" /\ n <= Len(wire)
  /\ wire' = SubSeq(wire, n + 1, Len(wire))
  /\ pc' = "idle"
  /\ ret' = IF accept(Head(wire)) THEN "EOK" ELSE "EIO"
  /\ rmsg' = Head(wire)
  /\ UNCHANGED <<retr, smsg, clean, asked, host, late, loss>>

(* Mutant: the reader goes on after an error of devs_read. *)
TimeoutReadsOn ==
  /\ pc = "read" /\ asked = <<>> /\ wire = <<>>
  /\ UNCHANGED phdVars

(* No byte came for MSGRECV_TIMEOUT: none will, or the reply is late. *)
timeout ==
  /\ pc = "read"
  /\ \/ asked = <<>> /\ wire = <<>> /\ UNCHANGED late
     \/ late < MaxLate /\ late' = late + 1
  /\ nextAttempt
  /\ UNCHANGED <<smsg, rmsg, clean, link, host, loss>>

(***************************************************************************)
(* The host and the line.                                                  *)
(***************************************************************************)
file(fd) == disk[fds[fd]]

(* Cells pos+1 .. pos+len of a file, as many as there are. *)
cells(fd, pos, len) ==
  SubSeq(file(fd), pos + 1, IF pos + len < Len(file(fd)) THEN pos + len ELSE Len(file(fd)))

(* A file after data has been written at pos. *)
written(s, pos, data) ==
  SubSeq(s, 1, pos) \o data \o SubSeq(s, pos + Len(data) + 1, Len(s))

hostOpen(m) ==
  IF m.name \in DOMAIN disk /\ Len(fds) < MaxFds
  THEN /\ fds' = Append(fds, m.name)
       /\ wire' = Append(wire, reply("OPEN", 1, <<Len(fds) + 1>>))
       /\ UNCHANGED disk
  ELSE wire' = Append(wire, reply("OPEN", -1, <<0>>)) /\ UNCHANGED host

hostRead(m) ==
  /\ wire' = Append(wire, LET d == cells(m.fd, m.pos, m.len) IN reply("READ", Len(d), d))
  /\ UNCHANGED host

hostWrite(m) ==
  IF m.pos <= Len(file(m.fd))
  THEN /\ disk' = [disk EXCEPT ![fds[m.fd]] = written(@, m.pos, m.data)]
       /\ wire' = Append(wire, reply("WRITE", Len(m.data), <<>>))
       /\ UNCHANGED fds
  ELSE wire' = Append(wire, reply("WRITE", -1, <<>>)) /\ UNCHANGED host

hostStat(m) ==
  /\ wire' = Append(wire, reply("FSTAT", 1, <<Len(file(m.fd))>>))
  /\ UNCHANGED host

answer ==
  /\ asked # <<>>
  /\ asked' = Tail(asked)
  /\ LET m == Head(asked) IN
     \/ m.type = "OPEN" /\ hostOpen(m)
     \/ m.type = "READ" /\ hostRead(m)
     \/ m.type = "WRITE" /\ hostWrite(m)
     \/ m.type = "FSTAT" /\ hostStat(m)
     \/ wire' = Append(wire, reply("ERR", 0, <<0>>)) /\ UNCHANGED host
     \/ wire' = Append(wire, reply(m.type, -1, <<0>>)) /\ UNCHANGED host
  /\ UNCHANGED <<client, late, loss>>

loseReply ==
  /\ loss < MaxLoss /\ loss' = loss + 1
  /\ \E i \in DOMAIN wire : wire' = RemoveAt(wire, i)
  /\ UNCHANGED <<client, asked, host, late>>

Init ==
  /\ pc = "idle" /\ retr = 0
  /\ smsg = [type |-> "none"]
  /\ ret = "none" /\ rmsg = noReply
  /\ asked = <<>> /\ wire = <<>>
  /\ disk = Disk /\ fds = <<>>
  /\ late = 0 /\ loss = 0 /\ clean = TRUE

(* The callers use handles they have been given, and may ask for more than   *)
(* fits in a message.                                                        *)
call ==
  \/ \E name \in Names : phoenixd_open(name)
  \/ \E fd \in DOMAIN fds, offs \in 0..MaxPos, len \in 1..MaxLen :
       \/ phoenixd_read(fd, offs, len)
       \/ \E c \in Cells : phoenixd_write(fd, offs, [i \in 1..len |-> c])
  \/ \E fd \in DOMAIN fds : phoenixd_stat(fd)

plo == msg_write \/ timeout \/ \E n \in 1..Len(wire) : msg_read(n)

Next == call \/ plo \/ answer \/ loseReply

Spec == Init /\ [][Next]_phdVars

(* plo takes its steps, and the host answers the requests that reach it. *)
FairSpec == Spec /\ WF_phdVars(plo) /\ WF_phdVars(answer)

(***************************************************************************)
(* Properties.                                                             *)
(***************************************************************************)
(* A call that succeeds has done what it was called for, however often it    *)
(* was repeated: open gives a handle of that file, read the cells at that    *)
(* offset, stat the size of that file, and a write is on the disk.  A late   *)
(* reply of the call itself does no harm; one of an earlier call, still on   *)
(* its way when this one began, may be taken for its answer: phoenixd.c:154  *)
(* leaves the check of the position to be done.                              *)
RightAnswer ==
  pc = "idle" /\ ret = "EOK" /\ clean =>
    \/ smsg.type = "OPEN" /\ rmsg.data[1] \in DOMAIN fds /\ fds[rmsg.data[1]] = smsg.name
    \/ smsg.type = "READ" /\ rmsg.data = cells(smsg.fd, smsg.pos, smsg.len)
    \/ smsg.type = "WRITE" /\ cells(smsg.fd, smsg.pos, Len(smsg.data)) = smsg.data
    \/ smsg.type = "FSTAT" /\ rmsg.data[1] = Len(file(smsg.fd))

(* A call returns, whatever is lost or late.                                  *)
CallReturns == pc # "idle" ~> pc = "idle"
=============================================================================
