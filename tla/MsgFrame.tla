------------------------------ MODULE MsgFrame ------------------------------
(***************************************************************************)
(* phfs/msg.c: a request is written to a serial device and its reply read  *)
(* back, byte by byte, with escapes, a checksum, a timeout and retries.    *)
(* The host is not part of the repository: it frames its replies as        *)
(* msg_write frames requests.  The bytes of requests are left out, those   *)
(* of replies are on the wire.                                             *)
(*                                                                         *)
(* A byte is a number below Base.  Each of the words csum and type of      *)
(* msg_t keeps its two halves: the checksum and the sequence number are a  *)
(* byte each, the type and the length share the third.                     *)
(***************************************************************************)
EXTENDS Integers, Sequences, SequencesExt

CONSTANTS
  Base,                    (* number of values of a byte *)
  MSG_MARK, MSG_ESC, MSG_ESCMARK, MSG_ESCESC,
  MSG_MAXLEN,
  MSGRECV_MAXRETR,
  Types,                   (* number of message types *)
  Replies,                 (* what the host may answer *)
  MaxMishaps               (* late replies, losses and changed bytes *)

ASSUME MsgAssumption ==
  /\ Base \in Nat \ {0}
  /\ {MSG_MARK, MSG_ESC, MSG_ESCMARK, MSG_ESCESC} \subseteq 0..Base - 1
  /\ MSG_MARK \notin {MSG_ESC, MSG_ESCMARK, MSG_ESCESC} /\ MSG_ESCMARK # MSG_ESCESC
  /\ MSG_MAXLEN \in Nat /\ MSGRECV_MAXRETR \in Nat \ {0} /\ Types \in Nat \ {0}

(* The length of a reply fits the buffer of msg_read, and its field. *)
ASSUME ReplyAssumption ==
  /\ Replies \subseteq [seq : 0..Base - 1, type : 0..Types - 1, data : Seq(0..Base - 1)]
  /\ \A m \in Replies : Len(m.data) <= MSG_MAXLEN /\ m.type + Types * Len(m.data) < Base

(* What SurvivesLoss needs: fewer mishaps than attempts, and of these at     *)
(* least the three of msg.c.                                                 *)
Enough == MaxMishaps \in Nat /\ MaxMishaps < MSGRECV_MAXRETR /\ MSGRECV_MAXRETR >= 3

VARIABLES
  bigEndian,   (* byte order of the target *)
  pc,          (* where msg_send is *)
  retr,        (* attempts made *)
  swapped,     (* the words of smsg are byte swapped in memory *)
  rx,          (* the reader: its state, escfl and the bytes of the frame *)
  result, rmsg,  (* what msg_send returned, and the reply it read *)
  asked,       (* requests the host has not answered yet *)
  wire,        (* bytes of replies not read yet *)
  late,        (* timeouts while a reply was still under way *)
  loss, noise  (* bytes and requests lost, bytes changed *)

msgVars == <<bigEndian, pc, retr, swapped, rx, result, rmsg, asked, wire, late, loss, noise>>

mishap == late + loss + noise < MaxMishaps

Bytes == 0..Base - 1
MSG_HDRSZ == 3
Message == [seq : Bytes, type : 0..Types - 1, data : Seq(Bytes)]

(***************************************************************************)
(* Messages and frames.                                                    *)
(***************************************************************************)
sum(bytes) ==
  LET s[i \in 0..Len(bytes)] == IF i = 0 THEN 0 ELSE s[i - 1] + bytes[i] IN s[Len(bytes)]

word(m) == m.type + Types * Len(m.data)
msg_getlen(w) == w \div Types
msg_gettype(w) == w % Types

(* The checksum covers all the bytes b of a message but itself, the first. *)
msg_csum(b) == sum(Tail(b)) % Base

bytesOf(m) ==
  LET b == <<0, m.seq, word(m)>> \o m.data IN [b EXCEPT ![1] = msg_csum(b)]

(* The message that received bytes stand for, and the checksum they came with. *)
msgOf(b) == [seq |-> b[2], type |-> msg_gettype(b[3]), data |-> SubSeq(b, MSG_HDRSZ + 1, Len(b))]
msg_getcsum(b) == b[1]

escape(c) ==
  IF c = MSG_MARK THEN <<MSG_ESC, MSG_ESCMARK>>
  ELSE IF c = MSG_ESC THEN <<MSG_ESC, MSG_ESCESC>>
  ELSE <<c>>

unescape(c) ==
  IF c = MSG_ESCMARK THEN MSG_MARK
  ELSE IF c = MSG_ESCESC THEN MSG_ESC
  ELSE c

(* What msg_write puts on the wire. *)
frame(m) ==
  LET b == bytesOf(m)
      f[i \in 0..Len(b)] == IF i = 0 THEN <<MSG_MARK>> ELSE f[i - 1] \o escape(b[i])
  IN f[Len(b)]

(***************************************************************************)
(* msg_read.  The reader is fed one byte after the other; once it has a    *)
(* result, the rest of the bytes that devs_read returned are dropped.      *)
(***************************************************************************)
Reader == [state : {"DESYN", "FRAME"}, escfl : BOOLEAN, bytes : Seq(Bytes),
           res : {"more", "ENXIO", "frame"}]

(* The locals at the start of msg_read; the state outlives the call. *)
fresh(state) == [state |-> state, escfl |-> FALSE, bytes |-> <<>>, res |-> "more"]

(* Mutant: a frame may be as long as its header says. *)
FrameNeverTooLong(r, c) == FALSE

tooLong(r, c) == Len(r.bytes) = MSG_HDRSZ + MSG_MAXLEN

(* Mutant: the frame ends one byte early. *)
EndsEarly(r, b) ==
  Len(b) >= MSG_HDRSZ /\ Len(b) >= msg_getlen(b[3]) + MSG_HDRSZ - 1

received(r, b) ==
  Len(b) >= MSG_HDRSZ /\ Len(b) = msg_getlen(b[3]) + MSG_HDRSZ

(* A byte of the frame that is neither a mark nor an escape. *)
store(r, c) ==
  LET b == Append(r.bytes, IF r.escfl THEN unescape(c) ELSE c) IN
  [state |-> IF received(r, b) THEN "DESYN" ELSE "FRAME",
   escfl |-> FALSE,
   bytes |-> b,
   res |-> IF ~received(r, b) THEN "more"
           ELSE IF msg_getcsum(b) = msg_csum(b) THEN "frame" ELSE "ENXIO"]

readByte(r, c) ==
  IF r.res # "more" THEN r
  ELSE IF r.state = "DESYN"
       THEN [r EXCEPT !.state = IF c = MSG_MARK THEN "FRAME" ELSE "DESYN"]
  ELSE IF tooLong(r, c) THEN [r EXCEPT !.state = "DESYN", !.res = "ENXIO"]
  ELSE IF c = MSG_MARK THEN [r EXCEPT !.res = "ENXIO"]
  ELSE IF ~r.escfl /\ c = MSG_ESC THEN [r EXCEPT !.escfl = TRUE]
  ELSE store(r, c)

(* The reader after the first n bytes that wait. *)
scanned(n) ==
  LET s[i \in 0..n] == IF i = 0 THEN rx ELSE readByte(s[i - 1], wire[i]) IN s[n]

(* Mutant: two attempts only. *)
OneAttemptLess ==
  /\ retr' = retr + 1
  /\ IF retr + 2 < MSGRECV_MAXRETR
     THEN pc' = "write" /\ UNCHANGED result
     ELSE pc' = "idle" /\ result' = "ENXIO"

(* The next attempt, or the end of them. *)
nextAttempt ==
  /\ retr' = retr + 1
  /\ IF retr + 1 < MSGRECV_MAXRETR
     THEN pc' = "write" /\ UNCHANGED result
     ELSE pc' = "idle" /\ result' = "ENXIO"

(* devs_read returned the first n bytes that wait, and they are scanned. *)
msg_read(n) ==
  /\ pc = "read"
  /\ wire' = SubSeq(wire, n + 1, Len(wire))
  /\ LET r == scanned(n) IN
     \/ /\ r.res = "more"
        /\ rx' = r
        /\ UNCHANGED <<pc, retr, result, rmsg>>
     \/ /\ r.res = "frame"
        /\ rx' = fresh("DESYN")
        /\ pc' = "idle" /\ result' = "EOK" /\ rmsg' = msgOf(r.bytes)
        /\ UNCHANGED retr
     \/ /\ r.res = "ENXIO"
        /\ rx' = fresh(r.state)
        /\ nextAttempt /\ UNCHANGED rmsg
  /\ UNCHANGED <<bigEndian, swapped, asked, late, loss, noise>>

(* Mutant: a timeout leaves the reader inside the frame. *)
TimeoutKeepsFrame ==
  /\ pc = "read"
  /\ \/ wire = <<>> /\ asked = 0 /\ UNCHANGED late
     \/ mishap /\ late' = late + 1
  /\ rx' = fresh(rx.state)
  /\ nextAttempt
  /\ UNCHANGED <<bigEndian, swapped, rmsg, asked, wire, loss, noise>>

(* devs_read returned an error: no byte came for MSGRECV_TIMEOUT.  Either    *)
(* none will come, or they are late: bytes of the wire still to arrive.       *)
timeout ==
  /\ pc = "read"
  /\ \/ wire = <<>> /\ asked = 0 /\ UNCHANGED late
     \/ mishap /\ late' = late + 1
  /\ rx' = fresh("DESYN")
  /\ nextAttempt
  /\ UNCHANGED <<bigEndian, swapped, rmsg, asked, wire, loss, noise>>

(***************************************************************************)
(* msg_send and msg_write.                                                 *)
(***************************************************************************)
msg_send ==
  /\ pc = "idle"
  /\ pc' = "write"
  /\ retr' = 0
  /\ swapped' = FALSE       (* a message of the caller's *)
  /\ rx' = fresh("DESYN")
  /\ UNCHANGED <<bigEndian, result, rmsg, asked, wire, late, loss, noise>>

(* msg_serializeHeaders writes the words of the message in little endian     *)
(* into the message itself, so on a big endian target every second attempt   *)
(* reads its length and its header the wrong way round.  The host answers    *)
(* what it can read.                                                         *)
msg_write ==
  /\ pc = "write"
  /\ swapped' = (bigEndian /\ ~swapped)
  /\ \/ pc' = "read" /\ asked' = (IF swapped THEN asked ELSE asked + 1)
        /\ UNCHANGED <<retr, result, loss>>
     \/ mishap /\ loss' = loss + 1           (* lost on the way *)
        /\ pc' = "read" /\ UNCHANGED <<retr, result, asked>>
     \/ mishap /\ loss' = loss + 1           (* devs_write failed *)
        /\ nextAttempt /\ UNCHANGED asked
  /\ UNCHANGED <<bigEndian, rx, rmsg, wire, late, noise>>

(***************************************************************************)
(* The host and the line.                                                  *)
(***************************************************************************)
answer ==
  /\ asked > 0
  /\ asked' = asked - 1
  /\ \E m \in Replies : wire' = wire \o frame(m)
  /\ UNCHANGED <<bigEndian, pc, retr, swapped, rx, result, rmsg, late, loss, noise>>

loseByte ==
  /\ mishap
  /\ loss' = loss + 1
  /\ \E i \in DOMAIN wire : wire' = RemoveAt(wire, i)
  /\ UNCHANGED <<bigEndian, pc, retr, swapped, rx, result, rmsg, asked, late, noise>>

changeByte ==
  /\ mishap
  /\ noise' = noise + 1
  /\ \E i \in DOMAIN wire, c \in Bytes : c # wire[i] /\ wire' = [wire EXCEPT ![i] = c]
  /\ UNCHANGED <<bigEndian, pc, retr, swapped, rx, result, rmsg, asked, late, loss>>

Init ==
  /\ bigEndian \in BOOLEAN
  /\ pc = "idle" /\ retr = 0 /\ swapped = FALSE
  /\ rx = fresh("DESYN")
  /\ result = "none" /\ rmsg = [seq |-> 0, type |-> 0, data |-> <<>>]
  /\ asked = 0 /\ wire = <<>>
  /\ late = 0 /\ loss = 0 /\ noise = 0

readSome ==
  \E n \in 1..Len(wire) : n <= MSG_HDRSZ + MSG_MAXLEN /\ msg_read(n)

plo == msg_write \/ readSome \/ timeout

Next == msg_send \/ plo \/ answer \/ loseByte \/ changeByte

Spec == Init /\ [][Next]_msgVars

(***************************************************************************)
(* Properties.                                                             *)
(***************************************************************************)
(* No frame, however garbled, makes msg_read write beyond msg->data.         *)
TypeOK ==
  /\ pc \in {"idle", "write", "read"} /\ retr \in 0..MSGRECV_MAXRETR
  /\ bigEndian \in BOOLEAN /\ swapped \in BOOLEAN
  /\ rx \in Reader /\ Len(rx.bytes) <= MSG_HDRSZ + MSG_MAXLEN
  /\ result \in {"none", "ENXIO", "EOK"} /\ rmsg \in Message
  /\ asked \in Nat /\ wire \in Seq(Bytes)

(* Wherever devs_read cuts the stream, and whenever it times out in the      *)
(* middle of a frame, the reader that believes to be inside a frame holds    *)
(* the first bytes of a message of the host, unescaped.                      *)
InsideFrame ==
  loss = 0 /\ noise = 0 /\ rx.state = "FRAME" =>
    \E m \in Replies : IsPrefix(rx.bytes, bytesOf(m))

(* ... and what msg_send hands out is a whole message of the host.           *)
ReturnedWasSent ==
  loss = 0 /\ noise = 0 /\ result = "EOK" => rmsg \in Replies

(* msg_send makes three attempts (MSGRECV_MAXRETR): it survives two losses,  *)
(* or two late replies.  A big endian target survives one of them, since its *)
(* second attempt is garbled.  Not so a byte that changes into a mark, or a  *)
(* loss together with a late reply: msg_read leaves at the mark without      *)
(* leaving the frame, and the next attempts start in the middle of a reply.  *)
SurvivesLoss ==
  noise = 0 /\ (loss = 0 \/ late = 0) /\ (bigEndian => loss + late <= 1) =>
    result # "ENXIO"
=============================================================================
