------------------------------- MODULE SbiHsm -------------------------------
(***************************************************************************)
(* The boot of riscv-sbi and its HSM extension, on top of the interrupts   *)
(* between harts: _start elects the boot hart, which clears .bss and lets  *)
(* the others in; all but the boot hart wait in hsm_hartWait until         *)
(* supervisor code starts them with hsm_hartStart.                         *)
(***************************************************************************)
EXTENDS SbiIpi

CONSTANTS
  Payload, Fdt,            (* where the boot hart goes, and its second argument *)
  StartAddrs, Opaques      (* arguments of hsm_hartStart *)

(* NULL is no address: it marks a hart that has not read one. *)
ASSUME SbiHsmAssumption == NULL \notin StartAddrs \cup {Payload}

VARIABLES
  hartLock, bootReady,     (* words of the section .init *)
  bootHartId, hartsStarted,
  state, nextAddr, nextArg1,   (* sbi_perHartData *)
  call,      (* the arguments of the hsm_hartStart a hart executes *)
  entry,     (* a1 and the address a hart has entered supervisor mode with *)
  granted    (* history: who has been granted a start: <<by, opaque, addr>> *)

hsmVars == <<hartLock, bootReady, bootHartId, hartsStarted, state, nextAddr, nextArg1,
             call, entry, granted>>
sbiVars == <<ipiVars, hsmVars>>

(* The variables of SbiIpi but pc, and the other registers and words. *)
ipiIdle == UNCHANGED <<lock, poolMask, tasks, handler, msip, ssip, ext, todo, slot>>

HsmInit ==
  /\ hartMask = {}
  /\ lock = [t \in Harts |-> FALSE]
  /\ poolMask = [t \in Harts |-> {}]
  /\ tasks = [t \in Harts |-> empty]
  /\ handler = [t \in Harts |-> [s \in Slots |-> NULL]]
  /\ msip = [h \in Harts |-> FALSE] /\ ssip = [h \in Harts |-> FALSE]
  /\ pc = [h \in Harts |-> "reset"]
  /\ ext = [h \in Harts |-> NULL]
  /\ todo = [h \in Harts |-> {}]
  /\ slot = [h \in Harts |-> NULL]
  /\ hartLock = 0 /\ bootReady = FALSE
  /\ bootHartId = NULL
  /\ hartsStarted = 0
  /\ state = [h \in Harts |-> NULL]
  /\ nextAddr = [h \in Harts |-> NULL] /\ nextArg1 = [h \in Harts |-> NULL]
  /\ call = [h \in Harts |-> NULL]
  /\ entry = [h \in Harts |-> NULL]
  /\ granted = [h \in Harts |-> {}]

(***************************************************************************)
(* _start and entry.                                                       *)
(***************************************************************************)
(* amoadd on hartLock: the first hart boots, the others wait for bootReady. *)
elect(h) ==
  /\ pc[h] = "reset"
  /\ hartLock' = hartLock + 1
  /\ goto(h, IF hartLock = 0 THEN "bss" ELSE "waitboot")
  /\ ipiIdle
  /\ UNCHANGED <<hartMask, bootReady, bootHartId, hartsStarted, state, nextAddr, nextArg1,
                 call, entry, granted>>

(* The boot hart clears .bss, which holds all the variables of the SBI. *)
clearBss(h) ==
  /\ pc[h] = "bss"
  /\ hartMask' = {} /\ hartsStarted' = 0
  /\ bootHartId' = NULL
  /\ state' = [t \in Harts |-> NULL]
  /\ nextAddr' = [t \in Harts |-> NULL] /\ nextArg1' = [t \in Harts |-> NULL]
  /\ goto(h, "bootid")
  /\ ipiIdle
  /\ UNCHANGED <<hartLock, bootReady, call, entry, granted>>

(* bootHartId is written, then bootReady. *)
setBootHart(h) ==
  /\ pc[h] = "bootid"
  /\ bootHartId' = h
  /\ goto(h, "ready")
  /\ ipiIdle
  /\ UNCHANGED <<hartMask, hartLock, bootReady, hartsStarted, state, nextAddr, nextArg1,
                 call, entry, granted>>

setBootReady(h) ==
  /\ pc[h] = "ready"
  /\ bootReady' = TRUE
  /\ goto(h, "mask")
  /\ ipiIdle
  /\ UNCHANGED <<hartMask, hartLock, bootHartId, hartsStarted, state, nextAddr, nextArg1,
                 call, entry, granted>>

(* Mutant: nobody waits for the boot hart to finish clearing .bss. *)
NoWaitBoot(h) ==
  /\ pc[h] = "waitboot"
  /\ goto(h, "mask")
  /\ ipiIdle
  /\ UNCHANGED <<hartMask, hsmVars>>

waitBootHart(h) ==
  /\ pc[h] = "waitboot" /\ bootReady
  /\ goto(h, "mask")
  /\ ipiIdle
  /\ UNCHANGED <<hartMask, hsmVars>>

markHart(h) ==
  /\ pc[h] = "mask"
  /\ hartMask' = hartMask \cup {h}
  /\ goto(h, "scratch")
  /\ ipiIdle
  /\ UNCHANGED hsmVars

sbi_scratchInit(h) ==
  /\ pc[h] = "scratch"
  /\ state' = [state EXCEPT ![h] = "STOPPED"]
  /\ nextAddr' = [nextAddr EXCEPT ![h] = Payload]
  /\ nextArg1' = [nextArg1 EXCEPT ![h] = Fdt]
  /\ goto(h, "init")
  /\ ipiIdle
  /\ UNCHANGED <<hartMask, hartLock, bootReady, bootHartId, hartsStarted, call, entry, granted>>

(***************************************************************************)
(* sbi_initCold and sbi_initWarm.                                          *)
(***************************************************************************)
(* The first half of hsm_init, of the boot hart and of the others. *)
hsm_init(h) ==
  /\ pc[h] = "init"
  /\ hartsStarted' = hartsStarted + 1
  /\ state' = IF h = bootHartId THEN [state EXCEPT ![h] = "START_PENDING"] ELSE state
  /\ goto(h, IF h = bootHartId THEN "gather" ELSE "poll")
  /\ ipiIdle
  /\ UNCHANGED <<hartMask, hartLock, bootReady, bootHartId, nextAddr, nextArg1,
                 call, entry, granted>>

(* The boot hart has seen all the harts, and calls sbi_ipiInit. *)
gatherHarts(h) ==
  /\ pc[h] = "gather" /\ hartsStarted >= HartCount
  /\ lock' = [t \in Harts |-> FALSE] /\ poolMask' = [t \in Harts |-> Slots]
  /\ goto(h, "jump")
  /\ UNCHANGED <<hartMask, tasks, handler, msip, ssip, ext, todo, slot, hsmVars>>

(* Mutant: a wake-up is taken for a start. *)
WakeIsStart(h) ==
  /\ pc[h] = "poll"
  /\ goto(h, IF state[h] = "START_PENDING" \/ msip[h] THEN "jump" ELSE "wfi")
  /\ ipiIdle
  /\ UNCHANGED <<hartMask, hsmVars>>

hsm_hartWait(h) ==
  /\ pc[h] = "poll"
  /\ goto(h, IF state[h] = "START_PENDING" THEN "jump" ELSE "wfi")
  /\ ipiIdle
  /\ UNCHANGED <<hartMask, hsmVars>>

(* WFI ends when MSIP is pending, or for no reason at all. *)
wake(h) ==
  /\ pc[h] = "wfi" /\ msip[h]
  /\ goto(h, "poll")
  /\ ipiIdle
  /\ UNCHANGED <<hartMask, hsmVars>>

wakeSpurious(h) ==
  /\ pc[h] = "wfi" /\ ~msip[h]
  /\ goto(h, "poll")
  /\ ipiIdle
  /\ UNCHANGED <<hartMask, hsmVars>>

(* The compare-and-swap of hsm_hartStartJump, then its two reads; the second *)
(* is the last thing before the mret of hart_changeMode.                     *)
hsm_hartStartJump(h) ==
  /\ pc[h] = "jump"
  /\ IF state[h] = "START_PENDING"
     THEN state' = [state EXCEPT ![h] = "STARTED"] /\ goto(h, "readarg")
     ELSE state' = state /\ goto(h, "halt")
  /\ ipiIdle
  /\ UNCHANGED <<hartMask, hartLock, bootReady, bootHartId, hartsStarted, nextAddr, nextArg1,
                 call, entry, granted>>

readArg(h) ==
  /\ pc[h] = "readarg"
  /\ entry' = [entry EXCEPT ![h] = <<nextArg1[h], NULL>>]
  /\ goto(h, "readaddr")
  /\ ipiIdle
  /\ UNCHANGED <<hartMask, hartLock, bootReady, bootHartId, hartsStarted, state, nextAddr,
                 nextArg1, call, granted>>

hart_changeMode(h) ==
  /\ pc[h] = "readaddr"
  /\ entry' = [entry EXCEPT ![h] = <<entry[h][1], nextAddr[h]>>]
  /\ goto(h, "smode")
  /\ ipiIdle
  /\ UNCHANGED <<hartMask, hartLock, bootReady, bootHartId, hartsStarted, state, nextAddr,
                 nextArg1, call, granted>>

(***************************************************************************)
(* hsm_hartStart.                                                          *)
(***************************************************************************)
(* Mutant: only a started hart is refused. *)
StartPendingTwice(h, t, addr, opaque) ==
  /\ pc[h] = "smode" /\ ~msip[h]
  /\ t \in Harts /\ state[t] # "STARTED"
  /\ state' = [state EXCEPT ![t] = "START_PENDING"]
  /\ call' = [call EXCEPT ![h] = [hartid |-> t, addr |-> addr, opaque |-> opaque]]
  /\ granted' = [granted EXCEPT ![t] = @ \cup {<<h, opaque, addr>>}]
  /\ goto(h, "writeaddr")
  /\ ipiIdle
  /\ UNCHANGED <<hartMask, hartLock, bootReady, bootHartId, hartsStarted, nextAddr, nextArg1,
                 entry>>

(* The check of the argument and the compare-and-swap. *)
hsm_hartStart(h, t, addr, opaque) ==
  /\ pc[h] = "smode" /\ ~msip[h]
  /\ \/ /\ t < HartCount => state[t] # "STOPPED"
        /\ UNCHANGED sbiVars  (* SBI_ERR_INVALID_PARAM or SBI_ERR_ALREADY_AVAILABLE *)
     \/ /\ t < HartCount /\ state[t] = "STOPPED"
        /\ state' = [state EXCEPT ![t] = "START_PENDING"]
        /\ call' = [call EXCEPT ![h] = [hartid |-> t, addr |-> addr, opaque |-> opaque]]
        /\ granted' = [granted EXCEPT ![t] = @ \cup {<<h, opaque, addr>>}]
        /\ goto(h, "writeaddr")
        /\ ipiIdle
        /\ UNCHANGED <<hartMask, hartLock, bootReady, bootHartId, hartsStarted, nextAddr,
                       nextArg1, entry>>

(* Mutant: the hart writes the address to its own data. *)
WriteAddrOwn(h) ==
  /\ pc[h] = "writeaddr"
  /\ nextAddr' = [nextAddr EXCEPT ![h] = call[h].addr]
  /\ goto(h, "writearg")
  /\ ipiIdle
  /\ UNCHANGED <<hartMask, hartLock, bootReady, bootHartId, hartsStarted, state, nextArg1,
                 call, entry, granted>>

writeAddr(h) ==
  /\ pc[h] = "writeaddr"
  /\ nextAddr' = [nextAddr EXCEPT ![call[h].hartid] = call[h].addr]
  /\ goto(h, "writearg")
  /\ ipiIdle
  /\ UNCHANGED <<hartMask, hartLock, bootReady, bootHartId, hartsStarted, state, nextArg1,
                 call, entry, granted>>

(* Mutant: the hart that starts is not interrupted. *)
WriteArgNoIpi(h) ==
  /\ pc[h] = "writearg"
  /\ nextArg1' = [nextArg1 EXCEPT ![call[h].hartid] = call[h].opaque]
  /\ call' = [call EXCEPT ![h] = NULL]
  /\ goto(h, "smode")
  /\ ipiIdle
  /\ UNCHANGED <<hartMask, hartLock, bootReady, bootHartId, hartsStarted, state, nextAddr,
                 entry, granted>>

(* The second argument, and the call of sbi_ipiSend, whose result is not     *)
(* looked at.                                                                *)
writeArg(h) ==
  /\ pc[h] = "writearg"
  /\ nextArg1' = [nextArg1 EXCEPT ![call[h].hartid] = call[h].opaque]
  /\ todo' = [todo EXCEPT ![h] = {call[h].hartid}]
  /\ ext' = [ext EXCEPT ![h] = "HSM"]
  /\ call' = [call EXCEPT ![h] = NULL]
  /\ goto(h, "many")
  /\ UNCHANGED <<hartMask, lock, poolMask, tasks, handler, msip, ssip, slot,
                 hartLock, bootReady, bootHartId, hartsStarted, state, nextAddr, entry, granted>>

(***************************************************************************)
(* The whole of it.                                                        *)
(***************************************************************************)
hsmStep(h) ==
  \/ elect(h) \/ clearBss(h) \/ setBootHart(h) \/ setBootReady(h) \/ waitBootHart(h)
  \/ markHart(h) \/ sbi_scratchInit(h) \/ hsm_init(h) \/ gatherHarts(h)
  \/ hsm_hartWait(h) \/ wake(h) \/ hsm_hartStartJump(h) \/ readArg(h) \/ hart_changeMode(h)
  \/ writeAddr(h) \/ writeArg(h)

start(h) ==
  \E t \in 0..HartCount, addr \in StartAddrs, opaque \in Opaques : hsm_hartStart(h, t, addr, opaque)

(* Supervisor code handles its software interrupt (outside plo). *)
clearSsip(h) ==
  /\ pc[h] = "smode" /\ ssip[h]
  /\ ssip' = [ssip EXCEPT ![h] = FALSE]
  /\ UNCHANGED <<hartMask, lock, poolMask, tasks, handler, msip, pc, ext, todo, slot>>

HsmNext ==
  \E h \in Harts :
    \/ hsmStep(h) \/ start(h) \/ wakeSpurious(h)
    \/ /\ ipiStep(h) \/ sendLock(h) \/ handlerLock(h) \/ ecall(h) \/ clearSsip(h)
       /\ UNCHANGED hsmVars

HsmSpec == HsmInit /\ [][HsmNext]_sbiVars

HsmFairness ==
  \A h \in Harts : /\ WF_sbiVars(hsmStep(h))
                   /\ WF_sbiVars(ipiStep(h) /\ UNCHANGED hsmVars)
                   /\ SF_sbiVars(sendLock(h) /\ UNCHANGED hsmVars)
                   /\ SF_sbiVars(handlerLock(h) /\ UNCHANGED hsmVars)

HsmFairSpec == HsmSpec /\ HsmFairness

(***************************************************************************)
(* Properties.                                                             *)
(***************************************************************************)
(* "This should never happen" (hsm.c:80): a hart that leaves hsm_hartWait    *)
(* finds itself START_PENDING, whatever woke it.                             *)
NeverHalts == \A h \in Harts : pc[h] # "halt"

(* Hart h has entered supervisor mode. *)
running(h) == pc[h] \in Labels

(* From the moment a hart runs supervisor code, every hart has gone through  *)
(* _start, is marked in sbi_hartMask and has its own data: an ecall finds    *)
(* them all, none is lost to the clearing of .bss, and no hart that has not  *)
(* been started runs supervisor code.                                        *)
AllHartsBooted ==
  (\E h \in Harts : running(h)) =>
    /\ hartMask = Harts
    /\ \A h \in Harts : /\ state[h] \in {"STOPPED", "START_PENDING", "STARTED"}
                        /\ state[h] = "STOPPED" => pc[h] \in {"poll", "wfi"}
                        /\ running(h) => state[h] = "STARTED"

(* One call of hsm_hartStart at most is granted for a hart, and none for the *)
(* boot hart, when several harts ask for it at once.                         *)
StartedOnce ==
  \A h \in Harts : /\ Cardinality(granted[h]) <= 1
                   /\ h = bootHartId => granted[h] = {}

(* A hart that is asked to start does: the interrupt of hsm_hartStart is not *)
(* lost, also when the hart is just about to sleep, and also when its pool   *)
(* is full and sbi_ipiSend refuses.                                          *)
StartsInTheEnd ==
  \A h \in Harts : (state[h] = "START_PENDING") ~> (state[h] = "STARTED" /\ running(h))

(* A hart enters supervisor mode with the argument and at the address of the *)
(* call that started it, and the boot hart with those of the payload:        *)
(* nextAddr is the "address of next boot stage" (sbi.h:84).  The state is    *)
(* START_PENDING before both are written (hsm.c:52), so a hart that is awake *)
(* reads the old ones until then; the property says that nothing else, no    *)
(* other start, wake-up or interrupt, leads a hart astray.                   *)
StartsWhereAsked ==
  [][\A h \in Harts : entry'[h] # entry[h] =>
       LET part == IF entry'[h][2] = NULL THEN 1 ELSE 2
       IN \/ h = bootHartId /\ entry'[h][part] = <<Fdt, Payload>>[part]
          \/ \E c \in granted[h] : entry'[h][part] = c[part + 1]
          \/ \E b \in Harts : /\ pc[b] = "writeaddr" \/ (pc[b] = "writearg" /\ part = 1)
                              /\ call[b].hartid = h]_sbiVars
=============================================================================
