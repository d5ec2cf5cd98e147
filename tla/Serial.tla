------------------------------- MODULE Serial -------------------------------
(***************************************************************************)
(* The drivers of serial lines side by side: a board has one of them.      *)
(***************************************************************************)
EXTENDS UartLpuart, UartPolled, Rtt

CONSTANT Drivers    (* the drivers to look at *)

Init == driver \in Drivers /\ uartInit

(* RTT has no sync to wait for.  Bound: nothing is written after a cut. *)
calls ==
  \/ driver # "rtt" /\ uart_sync
  \/ \E l \in ReadLens : uart_read(l)
  \/ \E l \in WriteLens : ~cut /\ (uart_safeWrite(l) \/ pipe_write(l))

hardware == shift \/ sent
timeouts == timeoutCbuf \/ timeoutLp \/ timeoutStm \/ timeoutRtt

program == programCbuf \/ programLp \/ programPolled
handler == handlerCbuf \/ handlerLp \/ handlerStm

Next ==
  \/ calls \/ hardware \/ arrive \/ timeouts
  \/ program16550 \/ receive16550 \/ transmit16550
  \/ program \/ handler
  \/ programRtt \/ debugger

Spec == Init /\ [][Next]_uartVars

(* The program runs, the UART sends and a pending interrupt is served;       *)
(* interrupts do not use up all the time, and the timer goes on.             *)
FairSpec ==
  /\ Spec
  /\ WF_uartVars(hardware)
  /\ WF_uartVars(program16550) /\ WF_uartVars(receive16550) /\ SF_uartVars(transmit16550)
  /\ SF_uartVars(program) /\ WF_uartVars(handler)
  /\ WF_uartVars(programRtt) /\ SF_uartVars(timeouts)

(***************************************************************************)
(* Properties.                                                             *)
(***************************************************************************)
(* The line carries the bytes in the order they were written, each once,     *)
(* until RTT gives up on some, or mcxn94x, which has received a byte before  *)
(* it was to send one, sends an empty ring.                                  *)
SentInOrder == [][line' # line /\ ~cut => line' = succ(line)]_uartVars


(* uart_read returns the oldest bytes there are, at least one of them and    *)
(* without a gap the driver has not made: on an overrun the drivers with a   *)
(* ring of their own drop the oldest bytes and keep SIZE_RX - 1, those over  *)
(* lib/cbuffer.c drop the newest and keep SIZE_RX; RTT leaves it to the      *)
(* debugger.  stm32 finds a byte when it has been told of one.               *)
ReadsOldest ==
  LET oldest == SubSeq(kept, 1, least(len, Len(kept)))
  IN CASE driver = "stm32" -> /\ disabled => between(rx, rt, rh, SIZE_RX) = kept
                              /\ pc = "readtake" => kept # <<>>
       [] pc # "readcopy" \/ isr # "off" -> TRUE
       [] driver \in {"16550", "mcxn94x"} -> readRing(len) = oldest /\ oldest # <<>>
       [] driver \in CbufDrivers -> Len(Rx!content) = Len(kept) /\ oldest # <<>>
                                    /\ SubSeq(Rx!content, 1, Len(oldest)) = oldest
       [] driver = "rtt" -> rttBytes = SubSeq(kept, 1, Len(rttBytes))

(* Reading, writing and syncing end: no transmit interrupt is lost.          *)
CallsEnd == pc # "idle" ~> pc = "idle"
=============================================================================
