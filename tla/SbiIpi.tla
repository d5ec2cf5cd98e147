------------------------------- MODULE SbiIpi -------------------------------
(***************************************************************************)
(* riscv-sbi/core/extensions/ipi.c: interrupts between harts.  A task for  *)
(* hart t is a slot of pool[t], linked in the list tasks[t]; poolMask[t]   *)
(* holds the free slots, lock[t] guards both, and the bit MSIP of t in the *)
(* CLINT interrupts t.  Ecalls and handlers run in machine mode with       *)
(* interrupts off.  Memory is sequentially consistent: the code has a      *)
(* fence on each side of every critical section and of every MSIP access.  *)
(***************************************************************************)
EXTENDS Naturals, FiniteSets, FiniteSetsExt

CONSTANTS
  HartCount,   (* sbi_getHartCount() *)
  PoolSize,    (* MAX_TASK_COUNT *)
  Calls,       (* the extensions that are called, of IPI and RFENCE *)
  Masks,       (* the masks of harts that are passed, relative to a base *)
  NULL

ASSUME SbiIpiAssumption ==
  /\ HartCount \in Nat \ {0} /\ PoolSize \in Nat \ {0}
  /\ Calls \subseteq {"IPI", "RFENCE"}
  /\ Masks \subseteq SUBSET (0..HartCount - 1)
  /\ NULL \notin 0..PoolSize - 1

Harts == 0..HartCount - 1
Slots == 0..PoolSize - 1

INSTANCE LibList WITH Nodes <- Slots

VARIABLES
  hartMask,  (* sbi_hartMask, a set of harts *)
  lock, poolMask, tasks,     (* ipi_common; tasks[t] is the memory of one list *)
  handler,   (* handler[t][slot]: the extension whose handler the slot holds *)
  msip,      (* the bits MSIP of the CLINT *)
  ssip,      (* the bits MIP_SSIP, a supervisor software interrupt is pending *)
  pc,        (* where each hart is *)
  ext,       (* the extension whose ecall the hart serves *)
  todo,      (* the harts the ecall still has to send to *)
  slot       (* idx of sbi_ipiSend, node of sbi_ipiHandler *)
(* ext, todo and slot are locals: they are NULL or empty once they are dead. *)

ipiVars == <<hartMask, lock, poolMask, tasks, handler, msip, ssip, pc, ext, todo, slot>>

Extensions == {"IPI", "RFENCE", "HSM"}

goto(h, label) == pc' = [pc EXCEPT ![h] = label]

(***************************************************************************)
(* spinlock.c.                                                             *)
(***************************************************************************)
(* Mutant: the lock is taken whether it is free or not. *)
SetAnyway(t) == lock' = [lock EXCEPT ![t] = TRUE]

spinlock_set(t) == ~lock[t] /\ lock' = [lock EXCEPT ![t] = TRUE]

spinlock_clear(t) == lock' = [lock EXCEPT ![t] = FALSE]

(***************************************************************************)
(* sbi_ipiSendMany and sbi_ipiSend.                                        *)
(***************************************************************************)
(* The harts of hartMask << hartMaskBase that exist. *)
targets(mask, base) == {t \in hartMask : t >= base /\ t - base \in mask}

(* An ecall of the IPI or RFENCE extension.  A pending machine interrupt is  *)
(* taken before the ecall instruction.                                       *)
sbi_ipiSendMany(h, e, mask, base) ==
  /\ pc[h] = "smode" /\ ~msip[h]
  /\ \/ /\ base > HartCount \/ targets(mask, base) = {}
        /\ UNCHANGED ipiVars    (* SBI_ERR_INVALID_PARAM *)
     \/ /\ base <= HartCount /\ targets(mask, base) # {}
        /\ todo' = [todo EXCEPT ![h] = targets(mask, base)]
        /\ ext' = [ext EXCEPT ![h] = e]
        /\ goto(h, "many")
        /\ UNCHANGED <<hartMask, lock, poolMask, tasks, handler, msip, ssip, slot>>

target(h) == Min(todo[h])

(* What the handler of an extension does on the hart that runs it: the ones  *)
(* of RFENCE execute fences, and HSM passes NULL.                            *)
runHandler(h, e) == ssip' = IF e = "IPI" THEN [ssip EXCEPT ![h] = TRUE] ELSE ssip

(* The loop of sbi_ipiSendMany, and what sbi_ipiSend does without the lock. *)
sendMany(h) ==
  /\ pc[h] = "many"
  /\ \/ /\ todo[h] = {}
        /\ goto(h, "smode")
        /\ ext' = [ext EXCEPT ![h] = NULL]
        /\ UNCHANGED <<ssip, todo>>
     \/ /\ todo[h] # {} /\ target(h) = h
        /\ runHandler(h, ext[h])
        /\ todo' = [todo EXCEPT ![h] = @ \ {h}]
        /\ UNCHANGED <<pc, ext>>
     \/ /\ todo[h] # {} /\ target(h) # h
        /\ goto(h, "lock")
        /\ UNCHANGED <<ssip, ext, todo>>
  /\ UNCHANGED <<hartMask, lock, poolMask, tasks, handler, msip, slot>>

sendLock(h) ==
  /\ pc[h] = "lock"
  /\ spinlock_set(target(h))
  /\ goto(h, "take")
  /\ UNCHANGED <<hartMask, poolMask, tasks, handler, msip, ssip, ext, todo, slot>>

sbi_getFirstBit(mask) == Min(mask)

(* No slot is free, or the first free one is read. *)
sendTake(h) ==
  /\ pc[h] = "take"
  /\ \/ /\ poolMask[target(h)] = {}
        /\ goto(h, "refused")
        /\ UNCHANGED slot
     \/ /\ poolMask[target(h)] # {}
        /\ slot' = [slot EXCEPT ![h] = sbi_getFirstBit(poolMask[target(h)])]
        /\ goto(h, "link")
  /\ UNCHANGED <<hartMask, lock, poolMask, tasks, handler, msip, ssip, ext, todo>>

(* SBI_IPI_RETRY: sbi_ipiSendMany calls again, hsm_hartStart does not. *)
sendRefused(h) ==
  /\ pc[h] = "refused"
  /\ spinlock_clear(target(h))
  /\ todo' = IF ext[h] = "HSM" THEN [todo EXCEPT ![h] = {}] ELSE todo
  /\ goto(h, "many")
  /\ UNCHANGED <<hartMask, poolMask, tasks, handler, msip, ssip, ext, slot>>

(* The slot is taken and linked, through &tasks->prev when there are others. *)
sendLink(h) ==
  LET t == target(h)
      l == IF tasks[t][list] = NULL THEN list ELSE prev(tasks[t][list])
  IN /\ pc[h] = "link"
     /\ poolMask' = [poolMask EXCEPT ![t] = @ \ {slot[h]}]
     /\ handler' = [handler EXCEPT ![t][slot[h]] = ext[h]]
     /\ tasks' = [tasks EXCEPT ![t] = lib_listAdd(@, l, slot[h])]
     /\ goto(h, "raise")
     /\ UNCHANGED <<hartMask, lock, msip, ssip, ext, todo, slot>>

sbi_ipiRawSend(h) ==
  /\ pc[h] = "raise"
  /\ msip' = [msip EXCEPT ![target(h)] = TRUE]
  /\ goto(h, "unlock")
  /\ UNCHANGED <<hartMask, lock, poolMask, tasks, handler, ssip, ext, todo, slot>>

sendUnlock(h) ==
  /\ pc[h] = "unlock"
  /\ spinlock_clear(target(h))
  /\ todo' = [todo EXCEPT ![h] = @ \ {target(h)}]
  /\ slot' = [slot EXCEPT ![h] = NULL]
  /\ goto(h, "many")
  /\ UNCHANGED <<hartMask, poolMask, tasks, handler, msip, ssip, ext>>

(***************************************************************************)
(* sbi_ipiHandler, on the machine software interrupt of a hart that runs   *)
(* supervisor code.                                                        *)
(***************************************************************************)
sbi_ipiRawClear(h) ==
  /\ pc[h] = "smode" /\ msip[h]
  /\ msip' = [msip EXCEPT ![h] = FALSE]
  /\ goto(h, "irqlock")
  /\ UNCHANGED <<hartMask, lock, poolMask, tasks, handler, ssip, ext, todo, slot>>

handlerLock(h) ==
  /\ pc[h] = "irqlock"
  /\ spinlock_set(h)
  /\ goto(h, "drain")
  /\ UNCHANGED <<hartMask, poolMask, tasks, handler, msip, ssip, ext, todo, slot>>

(* Mutant: one task per interrupt. *)
DrainOnce(h) ==
  /\ pc[h] = "drain"
  /\ slot' = [slot EXCEPT ![h] = tasks[h][list]]
  /\ tasks' = [tasks EXCEPT ![h] = lib_listRemove(@, list, tasks[h][list])]
  /\ poolMask' = [poolMask EXCEPT ![h] = @ \cup ({tasks[h][list]} \ {NULL})]
  /\ ssip' = [ssip EXCEPT ![h] = TRUE]
  /\ goto(h, "irqunlock")
  /\ UNCHANGED <<hartMask, lock, handler, msip, ext, todo>>

handlerDrain(h) ==
  /\ pc[h] = "drain"
  /\ \/ /\ tasks[h][list] = NULL
        /\ goto(h, "irqunlock")
        /\ UNCHANGED <<tasks, slot>>
     \/ /\ tasks[h][list] # NULL
        /\ slot' = [slot EXCEPT ![h] = tasks[h][list]]
        /\ tasks' = [tasks EXCEPT ![h] = lib_listRemove(@, list, tasks[h][list])]
        /\ goto(h, "run")
  /\ UNCHANGED <<hartMask, lock, poolMask, handler, msip, ssip, ext, todo>>

(* Mutant: the slot is not given back. *)
RunKeepSlot(h) ==
  /\ pc[h] = "run"
  /\ runHandler(h, handler[h][slot[h]])
  /\ goto(h, "drain")
  /\ UNCHANGED <<hartMask, lock, poolMask, tasks, handler, msip, ext, todo, slot>>

handlerRun(h) ==
  /\ pc[h] = "run"
  /\ runHandler(h, handler[h][slot[h]])
  /\ poolMask' = [poolMask EXCEPT ![h] = @ \cup {slot[h]}]
  /\ slot' = [slot EXCEPT ![h] = NULL]
  /\ goto(h, "drain")
  /\ UNCHANGED <<hartMask, lock, tasks, handler, msip, ext, todo>>

handlerUnlock(h) ==
  /\ pc[h] = "irqunlock"
  /\ spinlock_clear(h)
  /\ goto(h, "smode")
  /\ UNCHANGED <<hartMask, poolMask, tasks, handler, msip, ssip, ext, todo, slot>>

(***************************************************************************)
(* All harts are in supervisor mode, after sbi_ipiInit.                    *)
(***************************************************************************)
sbi_ipiInit ==
  /\ lock = [t \in Harts |-> FALSE]
  /\ poolMask = [t \in Harts |-> Slots]

Init ==
  /\ hartMask = Harts
  /\ sbi_ipiInit
  /\ tasks = [t \in Harts |-> empty]
  /\ handler = [t \in Harts |-> [s \in Slots |-> NULL]]
  /\ msip = [h \in Harts |-> FALSE] /\ ssip = [h \in Harts |-> FALSE]
  /\ pc = [h \in Harts |-> "smode"]
  /\ ext = [h \in Harts |-> NULL]
  /\ todo = [h \in Harts |-> {}]
  /\ slot = [h \in Harts |-> NULL]

(* A hart in machine mode goes on, and takes its interrupts. *)
ipiStep(h) ==
  \/ sendMany(h) \/ sendTake(h) \/ sendRefused(h) \/ sendLink(h) \/ sbi_ipiRawSend(h)
  \/ sendUnlock(h) \/ sbi_ipiRawClear(h) \/ handlerDrain(h) \/ handlerRun(h) \/ handlerUnlock(h)

ecall(h) ==
  \E e \in Calls, mask \in Masks, base \in 0..HartCount + 1 :
    sbi_ipiSendMany(h, e, mask, base)

Next ==
  \E h \in Harts : ipiStep(h) \/ sendLock(h) \/ handlerLock(h) \/ ecall(h)

Spec == Init /\ [][Next]_ipiVars

(* A hart never stops, and an amoswap that is repeated meets a free lock in  *)
(* the end when the lock is free again and again.                            *)
Fairness ==
  \A h \in Harts : /\ WF_ipiVars(ipiStep(h))
                   /\ SF_ipiVars(sendLock(h)) /\ SF_ipiVars(handlerLock(h))

FairSpec == Spec /\ Fairness

(***************************************************************************)
(* Properties.                                                             *)
(***************************************************************************)
(* Where a hart can be in this module. *)
Labels == {"smode", "many", "lock", "take", "refused", "link", "raise", "unlock",
           "irqlock", "drain", "run", "irqunlock"}

Sending == {"take", "refused", "link", "raise", "unlock"}
Draining == {"drain", "run", "irqunlock"}

(* Hart h is inside a critical section of lock[t]. *)
holds(h, t) ==
  \/ pc[h] \in Sending /\ todo[h] # {} /\ target(h) = t
  \/ pc[h] \in Draining /\ h = t

(* The types of the variables. *)
TypeOK ==
  /\ hartMask \subseteq Harts
  /\ lock \in [Harts -> BOOLEAN]
  /\ poolMask \in [Harts -> SUBSET Slots]
  /\ tasks \in [Harts -> [Locations -> Pointers]]
  /\ handler \in [Harts -> [Slots -> Extensions \cup {NULL}]]
  /\ msip \in [Harts -> BOOLEAN] /\ ssip \in [Harts -> BOOLEAN]
  /\ pc \in [Harts -> Labels]
  /\ ext \in [Harts -> Extensions \cup {NULL}]
  /\ todo \in [Harts -> SUBSET Harts]
  /\ slot \in [Harts -> Slots \cup {NULL}]

(* A lock is held by one hart at most, and only while it is set: the pool    *)
(* and the list of a hart are never in the hands of two, whoever sends to    *)
(* whom while interrupts are handled.                                        *)
LockExclusive ==
  /\ \A t, h, g \in Harts : holds(h, t) /\ holds(g, t) => h = g
  /\ \A t, h \in Harts : holds(h, t) => lock[t]

(* The slots met on the way round the list in mem: the least set with its    *)
(* first node that is closed under next.                                     *)
reached(mem) ==
  LET closed(C) == /\ mem[list] \in C \cup {NULL}
                   /\ \A c \in C : mem[next(c)] \in C \cup {NULL}
  IN {s \in Slots : \A C \in SUBSET Slots : closed(C) => s \in C}

linked(t) == reached(tasks[t])

(* No slot is lost and none is used twice: a slot of hart t is free, or in   *)
(* the list of t, or held by t between LIST_REMOVE and its return to the     *)
(* pool, and exactly one of the three.                                       *)
SlotsAccounted ==
  \A t \in Harts :
    LET running == IF pc[t] = "run" THEN {slot[t]} ELSE {}
    IN /\ poolMask[t] \cup linked(t) \cup running = Slots
       /\ poolMask[t] \cap linked(t) = {}
       /\ running \cap (poolMask[t] \cup linked(t)) = {}

(* A task in the list of hart t is never forgotten: MSIP of t is set, or     *)
(* about to be set by the hart that linked the task, or t is in its handler  *)
(* and will look at the list again before it leaves.                         *)
NoLostIpi ==
  \A t \in Harts : tasks[t][list] # NULL =>
    \/ msip[t]
    \/ pc[t] \in {"irqlock", "drain", "run"}
    \/ \E h \in Harts : pc[h] = "raise" /\ target(h) = t

(* Harts that retry in a circle: each waits, with interrupts off, for a slot *)
(* that only the handler of the next one would give back.                    *)
Circular ==
  \E S \in SUBSET Harts \ {{}} :
    \A h \in S : /\ todo[h] # {} /\ target(h) \in S \ {h}
                 /\ poolMask[target(h)] = {}
                 /\ pc[h] \in {"many", "lock", "take", "refused"}

(* Another hart takes a slot that h waits for. *)
overtaken(h) ==
  todo[h] # {} /\ \E g \in Harts \ {h} : pc[g] = "link" /\ target(g) = target(h)

(* The locks and the retry know no queue: harts that send to one target for  *)
(* ever can keep another one from ever finding a slot.                       *)
Overtaking == \E h \in Harts : []<>overtaken(h)

(* "We might run out of IPI slots, retry" (ipi.c:158): an ecall that sends   *)
(* to other harts returns, even when their pools are full, unless harts      *)
(* retry in a circle, which does happen once a third one has filled their    *)
(* pools, or one is overtaken for ever.                                      *)
SendReturns ==
  Overtaking \/ \A h \in Harts : (todo[h] # {}) ~> (todo[h] = {} \/ Circular)
=============================================================================
