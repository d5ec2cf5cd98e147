----------------------------- MODULE SbiProofs -----------------------------
(***************************************************************************)
(* Proofs about SbiIpi and SbiHsm, for any number of harts.                *)
(*                                                                         *)
(* SbiIpi: NoLostIpi and LockExclusive are inductive with the types and    *)
(* two facts about locals: a hart that sends has a target, and a hart that *)
(* runs a task has its slot.  Each step changes the pc and the locals of   *)
(* one hart h, so the lemmas Keep..., Take... and Clear... say what h may  *)
(* do, and every action is one application of them.  SlotsAccounted needs  *)
(* more: the pointers of each task list form a ring (Ring: following next  *)
(* from any slot meets every other one, and prev undoes next) of the slots *)
(* that are neither free nor being run.                                    *)
(*                                                                         *)
(* SbiHsm: the properties rest on the phases of a boot: one hart is        *)
(* elected and clears .bss while the others wait; the boot hart goes on    *)
(* when hsm_init has counted them all; another hart goes on when it has    *)
(* been granted a start, which needs a hart that is up.  Locks, pools and  *)
(* lists of SbiIpi play no part: its steps move a hart from one label of   *)
(* Labels to another (IpiMoves).                                           *)
(***************************************************************************)
EXTENDS SbiHsm, TLAPS, WellFoundedInduction, FiniteSetTheorems

(***************************************************************************)
(* Interprocessor interrupts (SbiIpi).                                     *)
(***************************************************************************)
(* A nonempty set of naturals contains its minimum: FiniteSetsExt defines   *)
(* Min by CHOOSE, and sbi_getFirstBit and the loop over harts rest on it.   *)
LEMMA MinInSet ==
  ASSUME NEW S \in SUBSET Nat, S # {}
  PROVE  Min(S) \in S
<1>1. PICK n \in S : \A k \in S : <<k, n>> \notin OpToRel(<, Nat)
  BY NatLessThanWellFounded, WFMin, Zenon
<1>2. \A k \in S : ~(k < n)
  BY <1>1, Zenon DEF OpToRel
<1>3. \E x \in S : \A y \in S : x <= y
  BY <1>2
<1>4. QED
  BY <1>3 DEF Min

(* lib_listAdd leaves every location holding a pointer (lib/list.c).        *)
LEMMA AddType ==
  ASSUME NEW mem \in [Locations -> Pointers], NEW l \in Locations, NEW t \in Pointers
  PROVE  lib_listAdd(mem, l, t) \in [Locations -> Pointers]
<1>1. CASE t = NULL
  BY <1>1 DEF lib_listAdd
<1>2. CASE t # NULL /\ mem[l] = NULL
  <2>1. t \in Slots
    BY <1>2 DEF Pointers
  <2>2. QED
    BY <1>2, <2>1 DEF lib_listAdd, Locations, Pointers
<1>3. CASE t # NULL /\ mem[l] # NULL
  <2>1. mem[l] \in Slots
    BY <1>3 DEF Pointers
  <2>2. prev(mem[l]) \in Locations
    BY <2>1 DEF Locations
  <2> DEFINE m1 == [mem EXCEPT ![prev(t)] = mem[prev(mem[l])]]
             m2 == [m1 EXCEPT ![next(m1[prev(m1[l])])] = t]
             m3 == [m2 EXCEPT ![next(t)] = m2[l]]
  <2>3. m1 \in [Locations -> Pointers]
    BY <2>2
  <2>4. m2 \in [Locations -> Pointers]
    <3> HIDE DEF m1
    <3>1. QED
      BY <2>3
  <2>5. m3 \in [Locations -> Pointers]
    <3> HIDE DEF m2
    <3>1. QED
      BY <2>4
  <2>6. [m3 EXCEPT ![prev(m3[l])] = t] \in [Locations -> Pointers]
    <3> HIDE DEF m3
    <3>1. QED
      BY <2>5
  <2>7. QED
    BY <1>3, <2>6 DEF lib_listAdd
<1>4. QED
  BY <1>1, <1>2, <1>3

(* lib_listRemove leaves every location holding a pointer (lib/list.c).     *)
LEMMA RemoveType ==
  ASSUME NEW mem \in [Locations -> Pointers], NEW l \in Locations, NEW t \in Slots
  PROVE  lib_listRemove(mem, l, t) \in [Locations -> Pointers]
<1> DEFINE m1 == [mem EXCEPT ![next(mem[prev(t)])] = mem[next(t)]]
           m2 == [m1 EXCEPT ![prev(m1[next(t)])] = m1[prev(t)]]
           m3 == IF mem[next(t)] = t /\ mem[prev(t)] = t THEN [mem EXCEPT ![l] = NULL]
                 ELSE IF t = m2[l] THEN [m2 EXCEPT ![l] = m2[next(t)]] ELSE m2
<1>1. next(t) \in Locations /\ prev(t) \in Locations /\ t # NULL /\ NULL \in Pointers
  BY SbiIpiAssumption DEF Locations, Pointers, Slots
<1>2. m1 \in [Locations -> Pointers]
  BY <1>1
<1>3. m2 \in [Locations -> Pointers]
  <2> HIDE DEF m1
  <2>1. QED
    BY <1>1, <1>2
<1>4. m3 \in [Locations -> Pointers]
  <2> HIDE DEF m2
  <2>1. QED
    BY <1>1, <1>3
<1>5. [m3 EXCEPT ![next(t)] = NULL, ![prev(t)] = NULL] \in [Locations -> Pointers]
  <2> HIDE DEF m3
  <2>1. QED
    BY <1>1, <1>4
<1>6. QED
  BY <1>1, <1>5 DEF lib_listRemove

(* A hart inside sbi_ipiSend sends to somebody. *)
HasTarget == \A h \in Harts : pc[h] \in Sending \cup {"lock"} => todo[h] # {}

(* While sbi_ipiSendMany has harts left, the next one is one of them.       *)
LEMMA TargetHart ==
  ASSUME TypeOK, NEW h \in Harts, todo[h] # {}
  PROVE  target(h) \in todo[h] /\ target(h) \in Harts
<1>1. todo[h] \in SUBSET Harts /\ Harts \in SUBSET Nat
  BY SbiIpiAssumption DEF TypeOK, Harts
<1>2. todo[h] \in SUBSET Nat
  BY <1>1
<1>3. QED
  BY <1>1, <1>2, MinInSet DEF target

(* A hart that runs a handler has the slot of a task. *)
HasTask == \A h \in Harts : pc[h] = "run" => slot[h] \in Slots

(* The inductive invariant. *)
IpiInv == TypeOK /\ HasTarget /\ HasTask /\ LockExclusive /\ NoLostIpi

(* A step that changes nothing keeps the invariant.                         *)
LEMMA KeptIpiInv ==
  ASSUME IpiInv, UNCHANGED ipiVars
  PROVE  IpiInv'
<1>1. TypeOK'
  BY DEF IpiInv, ipiVars, TypeOK
<1>2. HasTarget' /\ HasTask'
  BY DEF IpiInv, ipiVars, HasTarget, HasTask
<1>3. LockExclusive'
  BY DEF IpiInv, ipiVars, LockExclusive, holds, target
<1>4. NoLostIpi'
  BY DEF IpiInv, ipiVars, NoLostIpi, target
<1>5. QED
  BY <1>1, <1>2, <1>3, <1>4 DEF IpiInv

(* What a hart sends to and holds depends on its own locals only.           *)
LEMMA Others ==
  ASSUME NEW h \in Harts,
         \A g \in Harts \ {h} : pc'[g] = pc[g] /\ todo'[g] = todo[g]
  PROVE  \A g \in Harts \ {h} : /\ target(g)' = target(g)
                                /\ \A t : holds(g, t)' = holds(g, t)
BY DEF target, holds

(* A step of h that takes no lock and frees none keeps locks exclusive.     *)
LEMMA KeepLock ==
  ASSUME LockExclusive, NEW h \in Harts,
         \A g \in Harts \ {h} : \A t : holds(g, t)' = holds(g, t),
         lock' = lock,
         \A t \in Harts : holds(h, t)' => holds(h, t)
  PROVE  LockExclusive'
<1>1. \A g, t \in Harts : holds(g, t)' => holds(g, t)
  OBVIOUS
<1>2. QED
  BY <1>1 DEF LockExclusive

(* spinlock_set(u) by h: nobody was in the critical section of u before.    *)
LEMMA TakeLock ==
  ASSUME TypeOK, LockExclusive, NEW h \in Harts, NEW u \in Harts,
         \A g \in Harts \ {h} : \A t : holds(g, t)' = holds(g, t),
         spinlock_set(u),
         \A t \in Harts : holds(h, t)' => t = u
  PROVE  LockExclusive'
<1>1. ~lock[u] /\ lock'[u] = TRUE /\ \A t \in Harts \ {u} : lock'[t] = lock[t]
  BY DEF spinlock_set, TypeOK
<1>2. \A g \in Harts : ~holds(g, u)
  BY <1>1 DEF LockExclusive
<1>3. \A g, t \in Harts : holds(g, t)' => (g = h /\ t = u) \/ (g # h /\ t # u /\ holds(g, t))
  BY <1>2
<1>4. QED
  BY <1>1, <1>3 DEF LockExclusive

(* spinlock_clear(u) by the hart that holds u keeps locks exclusive.        *)
LEMMA ClearLock ==
  ASSUME TypeOK, LockExclusive, NEW h \in Harts, NEW u \in Harts, holds(h, u),
         \A g \in Harts \ {h} : \A t : holds(g, t)' = holds(g, t),
         spinlock_clear(u),
         \A t \in Harts : ~holds(h, t)'
  PROVE  LockExclusive'
<1>1. \A t \in Harts \ {u} : lock'[t] = lock[t]
  BY DEF spinlock_clear, TypeOK
<1>2. \A g \in Harts : holds(g, u) => g = h
  BY DEF LockExclusive
<1>3. \A g, t \in Harts : holds(g, t)' => g # h /\ t # u /\ holds(g, t)
  BY <1>2
<1>4. QED
  BY <1>1, <1>3 DEF LockExclusive

(* The part NoLostIpi leaves to each step of h: a list that becomes nonempty *)
(* has its MSIP about to be raised, MSIP is cleared only on entry to the    *)
(* handler, the handler is left with an empty list, and raising raises.     *)
LEMMA KeepIpi ==
  ASSUME NoLostIpi, NEW h \in Harts,
         \A g \in Harts \ {h} : pc'[g] = pc[g] /\ target(g)' = target(g),
         \A t \in Harts : tasks'[t][list] # NULL =>
            tasks[t][list] # NULL \/ (pc'[h] = "raise" /\ target(h)' = t),
         \A t \in Harts : msip[t] => msip'[t] \/ (t = h /\ pc'[h] = "irqlock"),
         pc[h] \in {"irqlock", "drain", "run"} =>
            pc'[h] \in {"irqlock", "drain", "run"} \/ tasks'[h][list] = NULL,
         pc[h] = "raise" /\ target(h) \in Harts => msip'[target(h)]
  PROVE  NoLostIpi'
<1> SUFFICES ASSUME NEW t \in Harts, tasks'[t][list] # NULL
             PROVE  \/ msip'[t]
                    \/ pc'[t] \in {"irqlock", "drain", "run"}
                    \/ \E g \in Harts : pc'[g] = "raise" /\ target(g)' = t
  BY DEF NoLostIpi
<1>1. CASE pc'[h] = "raise" /\ target(h)' = t
  BY <1>1
<1>2. CASE tasks[t][list] # NULL
  <2>1. CASE msip[t]
    BY <2>1
  <2>2. CASE pc[t] \in {"irqlock", "drain", "run"}
    BY <2>2
  <2>3. CASE \E g \in Harts : pc[g] = "raise" /\ target(g) = t
    <3>1. PICK g \in Harts : pc[g] = "raise" /\ target(g) = t
      BY <2>3
    <3>2. CASE g = h
      BY <3>1, <3>2
    <3>3. CASE g # h
      BY <3>1, <3>3
    <3>4. QED
      BY <3>2, <3>3
  <2>4. QED
    BY <1>2, <2>1, <2>2, <2>3 DEF NoLostIpi
<1>3. QED
  BY <1>1, <1>2

(* The loop of sbi_ipiSendMany.                                             *)
LEMMA SendManyStep ==
  ASSUME IpiInv, NEW h \in Harts, sendMany(h)
  PROVE  IpiInv'
<1>1. TypeOK /\ HasTarget /\ HasTask /\ LockExclusive /\ NoLostIpi
  BY DEF IpiInv
<1>2. /\ pc[h] = "many" /\ pc'[h] \in {"smode", "many", "lock"}
      /\ pc'[h] = "lock" => todo'[h] # {}
      /\ \A g \in Harts \ {h} : pc'[g] = pc[g] /\ todo'[g] = todo[g] /\ slot'[g] = slot[g]
  BY <1>1 DEF sendMany, goto, TypeOK
<1>3. \A g \in Harts \ {h} : target(g)' = target(g) /\ \A t : holds(g, t)' = holds(g, t)
  BY <1>2, Others
<1>4. TypeOK'
  <2>1. CASE todo[h] = {}
    <3>1. ext' = [ext EXCEPT ![h] = NULL] /\ goto(h, "smode") /\ UNCHANGED <<ssip, todo>>
      BY <2>1 DEF sendMany
    <3>2. ext' \in [Harts -> Extensions \cup {NULL}]
      BY <1>1, <3>1 DEF TypeOK
    <3>3. pc' \in [Harts -> Labels]
      BY <1>1, <3>1 DEF TypeOK, goto, Labels
    <3>4. QED
      BY <1>1, <3>1, <3>2, <3>3 DEF TypeOK, sendMany
  <2>2. CASE todo[h] # {} /\ target(h) = h
    <3>1. todo' = [todo EXCEPT ![h] = todo[h] \ {h}] /\ runHandler(h, ext[h]) /\ UNCHANGED <<pc, ext>>
      BY <2>2 DEF sendMany
    <3>2. todo' \in [Harts -> SUBSET Harts]
      BY <1>1, <3>1 DEF TypeOK
    <3>3. ssip' \in [Harts -> BOOLEAN]
      BY <1>1, <3>1 DEF TypeOK, runHandler
    <3>4. QED
      BY <1>1, <3>1, <3>2, <3>3 DEF TypeOK, sendMany
  <2>3. CASE todo[h] # {} /\ target(h) # h
    <3>1. goto(h, "lock") /\ UNCHANGED <<ssip, ext, todo>>
      BY <2>3 DEF sendMany
    <3>2. pc' \in [Harts -> Labels]
      BY <1>1, <3>1 DEF TypeOK, goto, Labels
    <3>3. QED
      BY <1>1, <3>1, <3>2 DEF TypeOK, sendMany
  <2>4. QED
    BY <2>1, <2>2, <2>3
<1>5. HasTarget'
  BY <1>1, <1>2 DEF HasTarget, Sending
<1>6. HasTask'
  BY <1>1, <1>2 DEF HasTask
<1>7. LockExclusive'
  <2>1. lock' = lock /\ \A t \in Harts : holds(h, t)' => holds(h, t)
    BY <1>2 DEF sendMany, holds, target, Sending, Draining
  <2>2. QED
    BY <1>1, <1>3, <2>1, KeepLock
<1>8. NoLostIpi'
  <2>1. /\ \A t \in Harts : tasks'[t][list] # NULL => tasks[t][list] # NULL
        /\ \A t \in Harts : msip[t] => msip'[t]
    BY <1>1 DEF sendMany, TypeOK
  <2>2. QED
    BY <1>1, <1>2, <1>3, <2>1, KeepIpi
<1>9. QED
  BY <1>4, <1>5, <1>6, <1>7, <1>8 DEF IpiInv

(* sbi_ipiSend takes the lock of its target.                                *)
LEMMA SendLockStep ==
  ASSUME IpiInv, NEW h \in Harts, sendLock(h)
  PROVE  IpiInv'
<1>1. TypeOK /\ HasTarget /\ HasTask /\ LockExclusive /\ NoLostIpi
  BY DEF IpiInv
<1>2. /\ pc[h] = "lock" /\ pc'[h] \in {"take"} /\ todo' = todo
      /\ \A g \in Harts \ {h} : pc'[g] = pc[g] /\ todo'[g] = todo[g] /\ slot'[g] = slot[g]
  BY <1>1 DEF sendLock, goto, TypeOK
<1>3. \A g \in Harts \ {h} : target(g)' = target(g) /\ \A t : holds(g, t)' = holds(g, t)
  BY <1>2, Others
<1>4. TypeOK'
  BY <1>1 DEF TypeOK, sendLock, goto, Labels, spinlock_set
<1>5. HasTarget'
  BY <1>1, <1>2 DEF HasTarget, Sending
<1>6. HasTask'
  BY <1>1, <1>2 DEF HasTask
<1>7. LockExclusive'
  <2>1. target(h) \in Harts
    BY <1>1, <1>2, TargetHart DEF HasTarget
  <2>2. target(h)' = target(h) /\ spinlock_set(target(h))
    BY <1>2 DEF sendLock, target
  <2>3. \A t \in Harts : holds(h, t)' => t = target(h)
    BY <1>2, <2>2 DEF holds, Draining
  <2>4. QED
    BY <1>1, <1>3, <2>1, <2>2, <2>3, TakeLock
<1>8. NoLostIpi'
  <2>1. /\ \A t \in Harts : tasks'[t][list] # NULL => tasks[t][list] # NULL
        /\ \A t \in Harts : msip[t] => msip'[t]
    BY <1>1 DEF sendLock, TypeOK
  <2>2. QED
    BY <1>1, <1>2, <1>3, <2>1, KeepIpi
<1>9. QED
  BY <1>4, <1>5, <1>6, <1>7, <1>8 DEF IpiInv

(* sbi_ipiSend looks for a free slot.                                       *)
LEMMA SendTakeStep ==
  ASSUME IpiInv, NEW h \in Harts, sendTake(h)
  PROVE  IpiInv'
<1>1. TypeOK /\ HasTarget /\ HasTask /\ LockExclusive /\ NoLostIpi
  BY DEF IpiInv
<1>2. /\ pc[h] = "take" /\ pc'[h] \in {"refused", "link"} /\ todo' = todo
      /\ \A g \in Harts \ {h} : pc'[g] = pc[g] /\ todo'[g] = todo[g] /\ slot'[g] = slot[g]
  BY <1>1 DEF sendTake, goto, TypeOK
<1>3. \A g \in Harts \ {h} : target(g)' = target(g) /\ \A t : holds(g, t)' = holds(g, t)
  BY <1>2, Others
<1>4. TypeOK'
  <2>1. target(h) \in Harts
    BY <1>1, <1>2, TargetHart DEF HasTarget, Sending
  <2>2. slot' \in [Harts -> Slots \cup {NULL}]
    <3>1. CASE slot' = slot
      BY <1>1, <3>1 DEF TypeOK
    <3>2. CASE /\ poolMask[target(h)] # {}
               /\ slot' = [slot EXCEPT ![h] = sbi_getFirstBit(poolMask[target(h)])]
      <4>1. poolMask[target(h)] \in SUBSET Slots /\ Slots \in SUBSET Nat
        BY <1>1, <2>1, SbiIpiAssumption DEF TypeOK, Slots
      <4>2. poolMask[target(h)] \in SUBSET Nat
        BY <4>1
      <4>3. Min(poolMask[target(h)]) \in Slots
        BY <3>2, <4>1, <4>2, MinInSet
      <4>4. QED
        BY <1>1, <3>2, <4>3 DEF TypeOK, sbi_getFirstBit
    <3>3. QED
      BY <3>1, <3>2 DEF sendTake
  <2>3. QED
    BY <1>1, <2>2, ZenonT(60) DEF TypeOK, sendTake, goto, Labels
<1>5. HasTarget'
  BY <1>1, <1>2 DEF HasTarget, Sending
<1>6. HasTask'
  BY <1>1, <1>2 DEF HasTask
<1>7. LockExclusive'
  <2>1. lock' = lock /\ \A t \in Harts : holds(h, t)' => holds(h, t)
    BY <1>2 DEF sendTake, holds, target, Sending, Draining
  <2>2. QED
    BY <1>1, <1>3, <2>1, KeepLock
<1>8. NoLostIpi'
  <2>1. /\ \A t \in Harts : tasks'[t][list] # NULL => tasks[t][list] # NULL
        /\ \A t \in Harts : msip[t] => msip'[t]
    BY <1>1 DEF sendTake, TypeOK
  <2>2. QED
    BY <1>1, <1>2, <1>3, <2>1, KeepIpi
<1>9. QED
  BY <1>4, <1>5, <1>6, <1>7, <1>8 DEF IpiInv

(* sbi_ipiSend unlocks and asks for a retry.                                *)
LEMMA SendRefusedStep ==
  ASSUME IpiInv, NEW h \in Harts, sendRefused(h)
  PROVE  IpiInv'
<1>1. TypeOK /\ HasTarget /\ HasTask /\ LockExclusive /\ NoLostIpi
  BY DEF IpiInv
<1>2. /\ pc[h] = "refused" /\ pc'[h] \in {"many"}
      /\ \A g \in Harts \ {h} : pc'[g] = pc[g] /\ todo'[g] = todo[g] /\ slot'[g] = slot[g]
  BY <1>1 DEF sendRefused, goto, TypeOK
<1>3. \A g \in Harts \ {h} : target(g)' = target(g) /\ \A t : holds(g, t)' = holds(g, t)
  BY <1>2, Others
<1>4. TypeOK'
  BY <1>1 DEF TypeOK, sendRefused, goto, Labels, spinlock_clear
<1>5. HasTarget'
  BY <1>1, <1>2 DEF HasTarget, Sending
<1>6. HasTask'
  BY <1>1, <1>2 DEF HasTask
<1>7. LockExclusive'
  <2>1. target(h) \in Harts
    BY <1>1, <1>2, TargetHart DEF HasTarget, Sending
  <2>2. holds(h, target(h)) /\ spinlock_clear(target(h))
    BY <1>1, <1>2 DEF sendRefused, holds, HasTarget, Sending
  <2>3. \A t \in Harts : ~holds(h, t)'
    BY <1>2 DEF holds, Sending, Draining
  <2>4. QED
    BY <1>1, <1>3, <2>1, <2>2, <2>3, ClearLock
<1>8. NoLostIpi'
  <2>1. /\ \A t \in Harts : tasks'[t][list] # NULL => tasks[t][list] # NULL
        /\ \A t \in Harts : msip[t] => msip'[t]
    BY <1>1 DEF sendRefused, TypeOK
  <2>2. QED
    BY <1>1, <1>2, <1>3, <2>1, KeepIpi
<1>9. QED
  BY <1>4, <1>5, <1>6, <1>7, <1>8 DEF IpiInv

(* sbi_ipiSend links the task: the only step that makes a list nonempty.    *)
LEMMA SendLinkStep ==
  ASSUME IpiInv, NEW h \in Harts, sendLink(h)
  PROVE  IpiInv'
<1>1. TypeOK /\ HasTarget /\ HasTask /\ LockExclusive /\ NoLostIpi
  BY DEF IpiInv
<1>2. /\ pc[h] = "link" /\ pc'[h] \in {"raise"} /\ todo' = todo
      /\ \A g \in Harts \ {h} : pc'[g] = pc[g] /\ todo'[g] = todo[g] /\ slot'[g] = slot[g]
  BY <1>1 DEF sendLink, goto, TypeOK
<1>3. \A g \in Harts \ {h} : target(g)' = target(g) /\ \A t : holds(g, t)' = holds(g, t)
  BY <1>2, Others
<1>4. TypeOK'
  <2> DEFINE t == target(h)
             l == IF tasks[t][list] = NULL THEN list ELSE prev(tasks[t][list])
  <2>1. t \in Harts
    BY <1>1, <1>2, TargetHart DEF HasTarget, Sending
  <2>2. tasks[t] \in [Locations -> Pointers] /\ list \in Locations
    BY <1>1, <2>1 DEF TypeOK, Locations
  <2>3. l \in Locations
    BY <2>2 DEF Locations, Pointers
  <2>4. slot[h] \in Pointers
    BY <1>1 DEF TypeOK, Pointers
  <2>5. lib_listAdd(tasks[t], l, slot[h]) \in [Locations -> Pointers]
    <3> HIDE DEF t, l
    <3>1. QED
      BY <2>2, <2>3, <2>4, AddType
  <2>6. tasks' \in [Harts -> [Locations -> Pointers]]
    <3>1. tasks' = [tasks EXCEPT ![t] = lib_listAdd(tasks[t], l, slot[h])]
      BY DEF sendLink
    <3> HIDE DEF t, l
    <3>2. QED
      BY <1>1, <2>5, <3>1 DEF TypeOK
  <2>7. handler' \in [Harts -> [Slots -> Extensions \cup {NULL}]] /\ poolMask' \in [Harts -> SUBSET Slots]
    BY <1>1 DEF TypeOK, sendLink
  <2>8. QED
    BY <1>1, <2>6, <2>7 DEF TypeOK, sendLink, goto, Labels
<1>5. HasTarget'
  BY <1>1, <1>2 DEF HasTarget, Sending
<1>6. HasTask'
  BY <1>1, <1>2 DEF HasTask
<1>7. LockExclusive'
  <2>1. lock' = lock /\ \A t \in Harts : holds(h, t)' => holds(h, t)
    BY <1>2 DEF sendLink, holds, target, Sending, Draining
  <2>2. QED
    BY <1>1, <1>3, <2>1, KeepLock
<1>8. NoLostIpi'
  <2>1. target(h)' = target(h)
    BY <1>2 DEF target
  <2>2. /\ \A t \in Harts : tasks'[t][list] # NULL => tasks[t][list] # NULL \/ t = target(h)
        /\ msip' = msip
    BY <1>1 DEF sendLink, TypeOK
  <2>3. QED
    BY <1>1, <1>2, <1>3, <2>1, <2>2, KeepIpi
<1>9. QED
  BY <1>4, <1>5, <1>6, <1>7, <1>8 DEF IpiInv

(* sbi_ipiRawSend sets MSIP of the target.                                  *)
LEMMA RawSendStep ==
  ASSUME IpiInv, NEW h \in Harts, sbi_ipiRawSend(h)
  PROVE  IpiInv'
<1>1. TypeOK /\ HasTarget /\ HasTask /\ LockExclusive /\ NoLostIpi
  BY DEF IpiInv
<1>2. /\ pc[h] = "raise" /\ pc'[h] \in {"unlock"} /\ todo' = todo
      /\ \A g \in Harts \ {h} : pc'[g] = pc[g] /\ todo'[g] = todo[g] /\ slot'[g] = slot[g]
  BY <1>1 DEF sbi_ipiRawSend, goto, TypeOK
<1>3. \A g \in Harts \ {h} : target(g)' = target(g) /\ \A t : holds(g, t)' = holds(g, t)
  BY <1>2, Others
<1>4. TypeOK'
  BY <1>1 DEF TypeOK, sbi_ipiRawSend, goto, Labels
<1>5. HasTarget'
  BY <1>1, <1>2 DEF HasTarget, Sending
<1>6. HasTask'
  BY <1>1, <1>2 DEF HasTask
<1>7. LockExclusive'
  <2>1. lock' = lock /\ \A t \in Harts : holds(h, t)' => holds(h, t)
    BY <1>2 DEF sbi_ipiRawSend, holds, target, Sending, Draining
  <2>2. QED
    BY <1>1, <1>3, <2>1, KeepLock
<1>8. NoLostIpi'
  <2>1. /\ \A t \in Harts : msip[t] => msip'[t]
        /\ target(h) \in Harts => msip'[target(h)]
        /\ tasks' = tasks
    BY <1>1 DEF sbi_ipiRawSend, TypeOK
  <2>2. QED
    BY <1>1, <1>2, <1>3, <2>1, KeepIpi
<1>9. QED
  BY <1>4, <1>5, <1>6, <1>7, <1>8 DEF IpiInv

(* sbi_ipiSend unlocks after the interrupt was raised.                      *)
LEMMA SendUnlockStep ==
  ASSUME IpiInv, NEW h \in Harts, sendUnlock(h)
  PROVE  IpiInv'
<1>1. TypeOK /\ HasTarget /\ HasTask /\ LockExclusive /\ NoLostIpi
  BY DEF IpiInv
<1>2. /\ pc[h] = "unlock" /\ pc'[h] \in {"many"}
      /\ \A g \in Harts \ {h} : pc'[g] = pc[g] /\ todo'[g] = todo[g] /\ slot'[g] = slot[g]
  BY <1>1 DEF sendUnlock, goto, TypeOK
<1>3. \A g \in Harts \ {h} : target(g)' = target(g) /\ \A t : holds(g, t)' = holds(g, t)
  BY <1>2, Others
<1>4. TypeOK'
  BY <1>1 DEF TypeOK, sendUnlock, goto, Labels, spinlock_clear
<1>5. HasTarget'
  BY <1>1, <1>2 DEF HasTarget, Sending
<1>6. HasTask'
  BY <1>1, <1>2 DEF HasTask
<1>7. LockExclusive'
  <2>1. target(h) \in Harts
    BY <1>1, <1>2, TargetHart DEF HasTarget, Sending
  <2>2. holds(h, target(h)) /\ spinlock_clear(target(h))
    BY <1>1, <1>2 DEF sendUnlock, holds, HasTarget, Sending
  <2>3. \A t \in Harts : ~holds(h, t)'
    BY <1>2 DEF holds, Sending, Draining
  <2>4. QED
    BY <1>1, <1>3, <2>1, <2>2, <2>3, ClearLock
<1>8. NoLostIpi'
  <2>1. /\ \A t \in Harts : tasks'[t][list] # NULL => tasks[t][list] # NULL
        /\ \A t \in Harts : msip[t] => msip'[t]
    BY <1>1 DEF sendUnlock, TypeOK
  <2>2. QED
    BY <1>1, <1>2, <1>3, <2>1, KeepIpi
<1>9. QED
  BY <1>4, <1>5, <1>6, <1>7, <1>8 DEF IpiInv

(* sbi_ipiHandler clears MSIP before it takes the lock.                     *)
LEMMA RawClearStep ==
  ASSUME IpiInv, NEW h \in Harts, sbi_ipiRawClear(h)
  PROVE  IpiInv'
<1>1. TypeOK /\ HasTarget /\ HasTask /\ LockExclusive /\ NoLostIpi
  BY DEF IpiInv
<1>2. /\ pc[h] = "smode" /\ pc'[h] \in {"irqlock"} /\ todo' = todo
      /\ \A g \in Harts \ {h} : pc'[g] = pc[g] /\ todo'[g] = todo[g] /\ slot'[g] = slot[g]
  BY <1>1 DEF sbi_ipiRawClear, goto, TypeOK
<1>3. \A g \in Harts \ {h} : target(g)' = target(g) /\ \A t : holds(g, t)' = holds(g, t)
  BY <1>2, Others
<1>4. TypeOK'
  BY <1>1 DEF TypeOK, sbi_ipiRawClear, goto, Labels
<1>5. HasTarget'
  BY <1>1, <1>2 DEF HasTarget, Sending
<1>6. HasTask'
  BY <1>1, <1>2 DEF HasTask
<1>7. LockExclusive'
  <2>1. lock' = lock /\ \A t \in Harts : holds(h, t)' => holds(h, t)
    BY <1>2 DEF sbi_ipiRawClear, holds, target, Sending, Draining
  <2>2. QED
    BY <1>1, <1>3, <2>1, KeepLock
<1>8. NoLostIpi'
  <2>1. tasks' = tasks /\ \A t \in Harts : msip[t] => msip'[t] \/ t = h
    BY <1>1 DEF sbi_ipiRawClear, TypeOK
  <2>2. QED
    BY <1>1, <1>2, <1>3, <2>1, KeepIpi
<1>9. QED
  BY <1>4, <1>5, <1>6, <1>7, <1>8 DEF IpiInv

(* sbi_ipiHandler takes the lock of its own hart.                           *)
LEMMA HandlerLockStep ==
  ASSUME IpiInv, NEW h \in Harts, handlerLock(h)
  PROVE  IpiInv'
<1>1. TypeOK /\ HasTarget /\ HasTask /\ LockExclusive /\ NoLostIpi
  BY DEF IpiInv
<1>2. /\ pc[h] = "irqlock" /\ pc'[h] \in {"drain"} /\ todo' = todo
      /\ \A g \in Harts \ {h} : pc'[g] = pc[g] /\ todo'[g] = todo[g] /\ slot'[g] = slot[g]
  BY <1>1 DEF handlerLock, goto, TypeOK
<1>3. \A g \in Harts \ {h} : target(g)' = target(g) /\ \A t : holds(g, t)' = holds(g, t)
  BY <1>2, Others
<1>4. TypeOK'
  BY <1>1 DEF TypeOK, handlerLock, goto, Labels, spinlock_set
<1>5. HasTarget'
  BY <1>1, <1>2 DEF HasTarget, Sending
<1>6. HasTask'
  BY <1>1, <1>2 DEF HasTask
<1>7. LockExclusive'
  <2>1. spinlock_set(h) /\ \A t \in Harts : holds(h, t)' => t = h
    BY <1>2 DEF handlerLock, holds, Sending, Draining
  <2>2. QED
    BY <1>1, <1>3, <2>1, TakeLock
<1>8. NoLostIpi'
  <2>1. /\ \A t \in Harts : tasks'[t][list] # NULL => tasks[t][list] # NULL
        /\ \A t \in Harts : msip[t] => msip'[t]
    BY <1>1 DEF handlerLock, TypeOK
  <2>2. QED
    BY <1>1, <1>2, <1>3, <2>1, KeepIpi
<1>9. QED
  BY <1>4, <1>5, <1>6, <1>7, <1>8 DEF IpiInv

(* sbi_ipiHandler removes a task, or finds none and leaves the loop.        *)
LEMMA HandlerDrainStep ==
  ASSUME IpiInv, NEW h \in Harts, handlerDrain(h)
  PROVE  IpiInv'
<1>1. TypeOK /\ HasTarget /\ HasTask /\ LockExclusive /\ NoLostIpi
  BY DEF IpiInv
<1>2. /\ pc[h] = "drain" /\ pc'[h] \in {"run", "irqunlock"} /\ todo' = todo
      /\ \A g \in Harts \ {h} : pc'[g] = pc[g] /\ todo'[g] = todo[g] /\ slot'[g] = slot[g]
  BY <1>1 DEF handlerDrain, goto, TypeOK
<1>3. \A g \in Harts \ {h} : target(g)' = target(g) /\ \A t : holds(g, t)' = holds(g, t)
  BY <1>2, Others
<1>4. TypeOK'
  <2>1. CASE tasks' = tasks /\ slot' = slot
    BY <1>1, <2>1 DEF TypeOK, handlerDrain, goto, Labels
  <2>2. CASE /\ tasks[h][list] # NULL
             /\ slot' = [slot EXCEPT ![h] = tasks[h][list]]
             /\ tasks' = [tasks EXCEPT ![h] = lib_listRemove(@, list, tasks[h][list])]
    <3>1. tasks[h] \in [Locations -> Pointers] /\ list \in Locations
      BY <1>1 DEF TypeOK, Locations
    <3>2. tasks[h][list] \in Slots
      BY <2>2, <3>1 DEF Pointers
    <3>3. lib_listRemove(tasks[h], list, tasks[h][list]) \in [Locations -> Pointers]
      BY <3>1, <3>2, RemoveType
    <3>4. tasks' \in [Harts -> [Locations -> Pointers]]
      BY <1>1, <2>2, <3>3 DEF TypeOK
    <3>5. QED
      BY <1>1, <2>2, <3>2, <3>4 DEF TypeOK, handlerDrain, goto, Labels
  <2>3. QED
    BY <2>1, <2>2 DEF handlerDrain
<1>5. HasTarget'
  BY <1>1, <1>2 DEF HasTarget, Sending
<1>6. HasTask'
  <2>1. tasks[h][list] \in Slots \cup {NULL}
    BY <1>1, ZenonT(60) DEF TypeOK, Locations, Pointers
  <2>2. pc'[h] = "run" => slot'[h] \in Slots
    BY <1>1, <2>1 DEF handlerDrain, goto, TypeOK
  <2>3. QED
    BY <1>1, <1>2, <2>2 DEF HasTask
<1>7. LockExclusive'
  <2>1. lock' = lock /\ \A t \in Harts : holds(h, t)' => holds(h, t)
    BY <1>2 DEF handlerDrain, holds, target, Sending, Draining
  <2>2. QED
    BY <1>1, <1>3, <2>1, KeepLock
<1>8. NoLostIpi'
  <2>1. /\ \A t \in Harts : tasks'[t][list] # NULL => tasks[t][list] # NULL
        /\ msip' = msip
        /\ pc'[h] = "run" \/ tasks'[h][list] = NULL
    <3>1. CASE tasks[h][list] = NULL
      BY <1>1, <3>1 DEF handlerDrain, TypeOK
    <3>2. CASE tasks[h][list] # NULL
      BY <1>1, <3>2 DEF handlerDrain, TypeOK, goto
    <3>3. QED
      BY <3>1, <3>2
  <2>2. QED
    BY <1>1, <1>2, <1>3, <2>1, KeepIpi
<1>9. QED
  BY <1>4, <1>5, <1>6, <1>7, <1>8 DEF IpiInv

(* sbi_ipiHandler runs the task and gives the slot back.                    *)
LEMMA HandlerRunStep ==
  ASSUME IpiInv, NEW h \in Harts, handlerRun(h)
  PROVE  IpiInv'
<1>1. TypeOK /\ HasTarget /\ HasTask /\ LockExclusive /\ NoLostIpi
  BY DEF IpiInv
<1>2. /\ pc[h] = "run" /\ pc'[h] \in {"drain"} /\ todo' = todo
      /\ \A g \in Harts \ {h} : pc'[g] = pc[g] /\ todo'[g] = todo[g] /\ slot'[g] = slot[g]
  BY <1>1 DEF handlerRun, goto, TypeOK
<1>3. \A g \in Harts \ {h} : target(g)' = target(g) /\ \A t : holds(g, t)' = holds(g, t)
  BY <1>2, Others
<1>4. TypeOK'
  <2>1. slot[h] \in Slots
    BY <1>1, <1>2 DEF HasTask
  <2>2. QED
    BY <1>1, <2>1 DEF TypeOK, handlerRun, runHandler, goto, Labels
<1>5. HasTarget'
  BY <1>1, <1>2 DEF HasTarget, Sending
<1>6. HasTask'
  BY <1>1, <1>2 DEF HasTask
<1>7. LockExclusive'
  <2>1. lock' = lock /\ \A t \in Harts : holds(h, t)' => holds(h, t)
    BY <1>2 DEF handlerRun, holds, target, Sending, Draining
  <2>2. QED
    BY <1>1, <1>3, <2>1, KeepLock
<1>8. NoLostIpi'
  <2>1. /\ \A t \in Harts : tasks'[t][list] # NULL => tasks[t][list] # NULL
        /\ \A t \in Harts : msip[t] => msip'[t]
    BY <1>1 DEF handlerRun, TypeOK
  <2>2. QED
    BY <1>1, <1>2, <1>3, <2>1, KeepIpi
<1>9. QED
  BY <1>4, <1>5, <1>6, <1>7, <1>8 DEF IpiInv

(* sbi_ipiHandler unlocks.                                                  *)
LEMMA HandlerUnlockStep ==
  ASSUME IpiInv, NEW h \in Harts, handlerUnlock(h)
  PROVE  IpiInv'
<1>1. TypeOK /\ HasTarget /\ HasTask /\ LockExclusive /\ NoLostIpi
  BY DEF IpiInv
<1>2. /\ pc[h] = "irqunlock" /\ pc'[h] \in {"smode"} /\ todo' = todo
      /\ \A g \in Harts \ {h} : pc'[g] = pc[g] /\ todo'[g] = todo[g] /\ slot'[g] = slot[g]
  BY <1>1 DEF handlerUnlock, goto, TypeOK
<1>3. \A g \in Harts \ {h} : target(g)' = target(g) /\ \A t : holds(g, t)' = holds(g, t)
  BY <1>2, Others
<1>4. TypeOK'
  BY <1>1 DEF TypeOK, handlerUnlock, goto, Labels, spinlock_clear
<1>5. HasTarget'
  BY <1>1, <1>2 DEF HasTarget, Sending
<1>6. HasTask'
  BY <1>1, <1>2 DEF HasTask
<1>7. LockExclusive'
  <2>1. holds(h, h) /\ spinlock_clear(h) /\ \A t \in Harts : ~holds(h, t)'
    BY <1>2 DEF handlerUnlock, holds, Sending, Draining
  <2>2. QED
    BY <1>1, <1>3, <2>1, ClearLock
<1>8. NoLostIpi'
  <2>1. /\ \A t \in Harts : tasks'[t][list] # NULL => tasks[t][list] # NULL
        /\ \A t \in Harts : msip[t] => msip'[t]
    BY <1>1 DEF handlerUnlock, TypeOK
  <2>2. QED
    BY <1>1, <1>2, <1>3, <2>1, KeepIpi
<1>9. QED
  BY <1>4, <1>5, <1>6, <1>7, <1>8 DEF IpiInv

(* An ecall enters sbi_ipiSendMany, or is refused.                          *)
LEMMA EcallStep ==
  ASSUME IpiInv, NEW h \in Harts, ecall(h)
  PROVE  IpiInv'
<1>1. PICK e \in Calls, mask \in Masks, base \in 0..HartCount + 1 : sbi_ipiSendMany(h, e, mask, base)
  BY DEF ecall
<1>2. CASE UNCHANGED ipiVars
  BY <1>2, KeptIpiInv
<1>3. CASE /\ todo' = [todo EXCEPT ![h] = targets(mask, base)]
           /\ ext' = [ext EXCEPT ![h] = e]
           /\ goto(h, "many")
           /\ UNCHANGED <<hartMask, lock, poolMask, tasks, handler, msip, ssip, slot>>
  <2>1. TypeOK /\ HasTarget /\ HasTask /\ LockExclusive /\ NoLostIpi
    BY DEF IpiInv
  <2>2. /\ pc[h] = "smode" /\ pc'[h] = "many"
        /\ \A g \in Harts \ {h} : pc'[g] = pc[g] /\ todo'[g] = todo[g]
    BY <1>1, <1>3, <2>1 DEF sbi_ipiSendMany, goto, TypeOK
  <2>3. \A g \in Harts \ {h} : target(g)' = target(g) /\ \A t : holds(g, t)' = holds(g, t)
    BY <2>2, Others
  <2>4. TypeOK'
    <3>1. targets(mask, base) \in SUBSET Harts
      BY <2>1 DEF targets, TypeOK
    <3>2. e \in Extensions
      BY SbiIpiAssumption DEF Extensions
    <3>3. todo' \in [Harts -> SUBSET Harts]
      BY <1>3, <2>1, <3>1 DEF TypeOK
    <3>4. ext' \in [Harts -> Extensions \cup {NULL}]
      BY <1>3, <2>1, <3>2 DEF TypeOK
    <3>5. QED
      BY <1>3, <2>1, <3>3, <3>4 DEF TypeOK, goto, Labels
  <2>5. HasTarget'
    BY <2>1, <2>2 DEF HasTarget, Sending
  <2>6. HasTask'
    BY <1>3, <2>1, <2>2 DEF HasTask
  <2>7. LockExclusive'
    <3>1. lock' = lock /\ \A t \in Harts : ~holds(h, t)'
      BY <1>3, <2>2 DEF holds, Sending, Draining
    <3>2. QED
      BY <2>1, <2>3, <3>1, KeepLock
  <2>8. NoLostIpi'
    <3>1. tasks' = tasks /\ msip' = msip
      BY <1>3
    <3>2. QED
      BY <2>1, <2>2, <2>3, <3>1, KeepIpi
  <2>9. QED
    BY <2>4, <2>5, <2>6, <2>7, <2>8 DEF IpiInv
<1>4. QED
  BY <1>1, <1>2, <1>3 DEF sbi_ipiSendMany

(* The invariant holds after sbi_ipiInit.                                   *)
LEMMA InvInit == Init => IpiInv
<1> SUFFICES ASSUME Init PROVE IpiInv
  OBVIOUS
<1>1. TypeOK
  BY SbiIpiAssumption DEF Init, sbi_ipiInit, TypeOK, empty, Pointers, Labels
<1>2. \A h \in Harts : pc[h] = "smode" /\ tasks[h][list] = NULL
  BY DEF Init, empty, Locations
<1>3. HasTarget /\ HasTask /\ NoLostIpi
  BY <1>2 DEF HasTarget, HasTask, NoLostIpi, Sending
<1>4. LockExclusive
  BY <1>2 DEF LockExclusive, holds, Sending, Draining
<1>5. QED
  BY <1>1, <1>3, <1>4 DEF IpiInv

(* Every step of every hart keeps the invariant.                            *)
LEMMA InvStep == IpiInv /\ [Next]_ipiVars => IpiInv'
<1> SUFFICES ASSUME IpiInv, [Next]_ipiVars PROVE IpiInv'
  OBVIOUS
<1>1. CASE UNCHANGED ipiVars
  BY <1>1, KeptIpiInv
<1>2. ASSUME NEW h \in Harts, ipiStep(h) PROVE IpiInv'
  BY <1>2, SendManyStep, SendTakeStep, SendRefusedStep, SendLinkStep, RawSendStep, SendUnlockStep,
     RawClearStep, HandlerDrainStep, HandlerRunStep, HandlerUnlockStep DEF ipiStep
<1>3. ASSUME NEW h \in Harts, sendLock(h) \/ handlerLock(h) \/ ecall(h) PROVE IpiInv'
  BY <1>3, SendLockStep, HandlerLockStep, EcallStep
<1>4. QED
  BY <1>1, <1>2, <1>3 DEF Next

(* For every number of harts and slots, every set of calls and masks: the   *)
(* lists and pools of ipi.c are guarded by their locks, and no task that    *)
(* was linked is left without an interrupt pending, about to be raised or   *)
(* being handled.                                                           *)
THEOREM SbiIpiInvariant == Spec => [](TypeOK /\ LockExclusive /\ NoLostIpi)
<1>1. IpiInv => TypeOK /\ LockExclusive /\ NoLostIpi
  BY DEF IpiInv
<1>2. QED
  BY InvInit, InvStep, <1>1, PTL DEF Spec

(* No two harts are ever inside a critical section of the same lock.        *)
THEOREM LocksExclude == Spec => []LockExclusive
BY SbiIpiInvariant, PTL

(***************************************************************************)
(* SlotsAccounted.  It needs to be known what a list of lib/list.c is: the *)
(* nodes L of a ring, on which next and prev are inverse to each other and *)
(* which next goes round in one cycle.                                     *)
(***************************************************************************)
Ring(mem, L) ==
  /\ L \in SUBSET Slots
  /\ mem[list] = NULL <=> L = {}
  /\ L # {} => mem[list] \in L
  /\ \A s \in L : /\ mem[next(s)] \in L /\ mem[prev(s)] \in L
                  /\ mem[prev(mem[next(s)])] = s /\ mem[next(mem[prev(s)])] = s
  /\ \A C \in SUBSET L : mem[list] \in C /\ (\A c \in C : mem[next(c)] \in C) => C = L

(* The locations are different from each other, and NULL is not a slot.     *)
LEMMA Distinct ==
  /\ NULL \notin Slots
  /\ list \in Locations
  /\ \A s \in Slots : next(s) \in Locations /\ prev(s) \in Locations
  /\ \A s \in Slots : next(s) # list /\ prev(s) # list
  /\ \A s, r \in Slots : next(s) # prev(r) /\ (next(s) = next(r) => s = r) /\ (prev(s) = prev(r) => s = r)
BY SbiIpiAssumption DEF Slots, Locations, list, next, prev

(* The way round a ring meets exactly its nodes.                            *)
LEMMA RingReached ==
  ASSUME NEW mem \in [Locations -> Pointers], NEW L, Ring(mem, L)
  PROVE  reached(mem) = L
<1> DEFINE closed(C) == /\ mem[list] \in C \cup {NULL}
                        /\ \A c \in C : mem[next(c)] \in C \cup {NULL}
<1>1. reached(mem) = {s \in Slots : \A C \in SUBSET Slots : closed(C) => s \in C}
  BY DEF reached
<1>2. L \in SUBSET Slots /\ closed(L)
  BY DEF Ring
<1>3. ASSUME NEW s \in L, NEW C \in SUBSET Slots, closed(C)
      PROVE  s \in C
  <2>1. mem[list] \in C \cap L
    BY <1>2, <1>3, Distinct DEF Ring
  <2>2. \A c \in C \cap L : mem[next(c)] \in C \cap L
    BY <1>2, <1>3, Distinct DEF Ring
  <2>3. C \cap L = L
    BY <2>1, <2>2 DEF Ring
  <2>4. QED
    BY <2>3
<1>4. QED
  BY <1>1, <1>2, <1>3

(* lib_listAdd makes a ring of one node of an empty list.                   *)
LEMMA RingAddFirst ==
  ASSUME NEW mem \in [Locations -> Pointers], Ring(mem, {}), NEW s \in Slots
  PROVE  Ring(lib_listAdd(mem, list, s), {s})
<1> DEFINE new == lib_listAdd(mem, list, s)
<1>1. mem[list] = NULL /\ s # NULL
  BY Distinct DEF Ring
<1>2. new = [mem EXCEPT ![next(s)] = s, ![prev(s)] = s, ![list] = s]
  BY <1>1 DEF lib_listAdd
<1> HIDE DEF new
<1>3. new[list] = s /\ new[next(s)] = s /\ new[prev(s)] = s
  BY <1>2, Distinct
<1>4. QED
  BY <1>1, <1>3 DEF Ring, new

(* Passed the location of the prev of the first node, lib_listAdd links the *)
(* new node before the last one, and the nodes are still a ring.            *)
LEMMA RingAddNext ==
  ASSUME NEW mem \in [Locations -> Pointers], NEW L, Ring(mem, L), L # {}, NEW s \in Slots \ L
  PROVE  Ring(lib_listAdd(mem, prev(mem[list]), s), L \cup {s})
<1> DEFINE head == mem[list]
           l == prev(head)
           x == mem[l]
           p == mem[prev(x)]
           m1 == [mem EXCEPT ![prev(s)] = p]
           m2 == [m1 EXCEPT ![next(p)] = s]
           m3 == [m2 EXCEPT ![next(s)] = x]
           m4 == [m3 EXCEPT ![prev(x)] = s]
           new == lib_listAdd(mem, l, s)
<1>1. /\ head \in L /\ x \in L /\ p \in L /\ L \in SUBSET Slots
      /\ s \notin L /\ s # NULL /\ x # NULL /\ s \in Slots
  BY Distinct DEF Ring
<1>2. mem[next(p)] = x
  BY <1>1 DEF Ring
<1>3. new = m4
  <2>1. m1[l] = x /\ m1[prev(x)] = p
    BY <1>1, Distinct
  <2>2. m2[l] = x
    <3> HIDE DEF m1
    <3>1. QED
      BY <1>1, <2>1, Distinct
  <2>3. m3[l] = x
    <3> HIDE DEF m2
    <3>1. QED
      BY <1>1, <2>2, Distinct
  <2>4. new = LET n1 == [mem EXCEPT ![prev(s)] = mem[prev(mem[l])]]
                  n2 == [n1 EXCEPT ![next(n1[prev(n1[l])])] = s]
                  n3 == [n2 EXCEPT ![next(s)] = n2[l]]
              IN [n3 EXCEPT ![prev(n3[l])] = s]
    BY <1>1 DEF lib_listAdd
  <2>5. QED
    BY <2>1, <2>2, <2>3, <2>4
<1> HIDE DEF new, head, x, p, l
<1>4. m4 \in [Locations -> Pointers]
  BY <1>1, Distinct DEF Pointers
<1>5. /\ m4[list] = head /\ m4[next(s)] = x /\ m4[prev(s)] = p
      /\ m4[next(p)] = s /\ m4[prev(x)] = s
      /\ \A c \in L \ {p} : m4[next(c)] = mem[next(c)]
      /\ \A c \in L \ {x} : m4[prev(c)] = mem[prev(c)]
  BY <1>1, Distinct DEF head
<1> HIDE DEF m4
<1>6. /\ \A c \in L : /\ mem[next(c)] \in L /\ mem[prev(c)] \in L
                      /\ mem[prev(mem[next(c)])] = c /\ mem[next(mem[prev(c)])] = c
      /\ mem[prev(x)] = p
  BY DEF Ring, p
<1>7. ASSUME NEW c \in L \cup {s}
      PROVE  /\ m4[next(c)] \in L \cup {s} /\ m4[prev(c)] \in L \cup {s}
             /\ m4[prev(m4[next(c)])] = c /\ m4[next(m4[prev(c)])] = c
  <2>1. CASE c = s
    BY <1>1, <1>5, <2>1
  <2>2. CASE c \in L
    <3>1. m4[next(c)] \in L \cup {s} /\ m4[prev(m4[next(c)])] = c
      <4>1. CASE c = p
        BY <1>5, <4>1
      <4>2. CASE c # p
        <5>1. m4[next(c)] = mem[next(c)] /\ mem[next(c)] \in L /\ mem[next(c)] # x
          BY <1>5, <1>6, <2>2, <4>2
        <5>2. QED
          BY <1>5, <1>6, <2>2, <5>1
      <4>3. QED
        BY <4>1, <4>2
    <3>2. m4[prev(c)] \in L \cup {s} /\ m4[next(m4[prev(c)])] = c
      <4>1. CASE c = x
        BY <1>5, <4>1
      <4>2. CASE c # x
        <5>1. m4[prev(c)] = mem[prev(c)] /\ mem[prev(c)] \in L /\ mem[prev(c)] # p
          BY <1>2, <1>5, <1>6, <2>2, <4>2
        <5>2. QED
          BY <1>5, <1>6, <2>2, <5>1
      <4>3. QED
        BY <4>1, <4>2
    <3>3. QED
      BY <3>1, <3>2
  <2>3. QED
    BY <2>1, <2>2
<1>8. ASSUME NEW C \in SUBSET (L \cup {s}), m4[list] \in C, \A c \in C : m4[next(c)] \in C
      PROVE  C = L \cup {s}
  <2>1. head \in C \cap L
    BY <1>1, <1>5, <1>8
  <2>2. ASSUME NEW c \in C \cap L PROVE mem[next(c)] \in C \cap L
    <3>1. CASE c = p
      <4>1. s \in C
        BY <1>5, <1>8, <3>1
      <4>2. x \in C
        BY <1>5, <1>8, <4>1
      <4>3. QED
        BY <1>1, <1>2, <3>1, <4>2
    <3>2. CASE c # p
      BY <1>5, <1>6, <1>8, <3>2
    <3>3. QED
      BY <3>1, <3>2
  <2>3. C \cap L = L
    BY <2>1, <2>2 DEF Ring, head
  <2>4. s \in C
    BY <1>1, <1>5, <1>8, <2>3
  <2>5. QED
    BY <2>3, <2>4
<1>9. Ring(m4, L \cup {s})
  <2>1. L \cup {s} \in SUBSET Slots /\ L \cup {s} # {} /\ m4[list] \in L \cup {s} /\ m4[list] # NULL
    BY <1>1, <1>5, Distinct
  <2>2. \A C \in SUBSET (L \cup {s}) :
          m4[list] \in C /\ (\A c \in C : m4[next(c)] \in C) => C = L \cup {s}
    BY <1>8
  <2> DEFINE M == L \cup {s}
  <2>3. \A c \in M : /\ m4[next(c)] \in M /\ m4[prev(c)] \in M
                     /\ m4[prev(m4[next(c)])] = c /\ m4[next(m4[prev(c)])] = c
    BY <1>7
  <2> HIDE DEF M
  <2>4. QED
    BY <2>1, <2>2, <2>3 DEF Ring, M
<1>10. QED
  BY <1>3, <1>9 DEF new, l, head

(* Both together, as sbi_ipiSend calls it.                                  *)
LEMMA RingAdd ==
  ASSUME NEW mem \in [Locations -> Pointers], NEW L, Ring(mem, L), NEW s \in Slots \ L
  PROVE  Ring(lib_listAdd(mem, IF mem[list] = NULL THEN list ELSE prev(mem[list]), s), L \cup {s})
<1>1. CASE mem[list] = NULL
  <2>1. L = {}
    BY <1>1 DEF Ring
  <2>2. QED
    BY <1>1, <2>1, RingAddFirst
<1>2. CASE mem[list] # NULL
  <2>1. L # {}
    BY <1>2 DEF Ring
  <2>2. QED
    BY <1>2, <2>1, RingAddNext
<1>3. QED
  BY <1>1, <1>2

(* lib_listRemove takes the first node out of a ring.                       *)
LEMMA RingRemove ==
  ASSUME NEW mem \in [Locations -> Pointers], NEW L, Ring(mem, L), mem[list] # NULL
  PROVE  mem[list] \in L /\ Ring(lib_listRemove(mem, list, mem[list]), L \ {mem[list]})
<1> DEFINE h == mem[list]
           a == mem[next(h)]
           z == mem[prev(h)]
           new == lib_listRemove(mem, list, h)
<1>1. h \in L /\ a \in L /\ z \in L /\ L \in SUBSET Slots /\ h # NULL /\ h \in Slots
  BY Distinct DEF Ring
<1>2. mem[prev(a)] = h /\ mem[next(z)] = h
  BY <1>1 DEF Ring
<1>3. CASE a = h
  <2>1. z = h
    BY <1>2, <1>3
  <2>2. L = {h}
    <3>1. {h} \in SUBSET L /\ mem[list] \in {h} /\ \A c \in {h} : mem[next(c)] \in {h}
      BY <1>1, <1>3
    <3>2. QED
      BY <3>1 DEF Ring
  <2>3. new = [[mem EXCEPT ![list] = NULL] EXCEPT ![next(h)] = NULL, ![prev(h)] = NULL]
    BY <1>1, <1>3, <2>1 DEF lib_listRemove
  <2> HIDE DEF new, h
  <2>4. new[list] = NULL
    BY <1>1, <2>3, Distinct
  <2>5. Ring(new, L \ {h})
    BY <2>2, <2>4 DEF Ring
  <2>6. QED
    BY <1>1, <2>5 DEF new, h
<1>4. CASE a # h
  <2> DEFINE m1 == [mem EXCEPT ![next(z)] = a]
             m2 == [m1 EXCEPT ![prev(a)] = z]
             m3 == [m2 EXCEPT ![list] = a]
             m4 == [m3 EXCEPT ![next(h)] = NULL, ![prev(h)] = NULL]
             M == L \ {h}
  <2>1. z # h
    BY <1>2, <1>4
  <2>2. new = m4
    <3>1. m1[next(h)] = a /\ m1[prev(h)] = z
      BY <1>1, <2>1, Distinct
    <3>2. m2[list] = h /\ m2[next(h)] = a
      <4>1. m1[list] = h
        BY <1>1, Distinct
      <4> HIDE DEF m1
      <4>2. QED
        BY <1>1, <3>1, <4>1, Distinct
    <3>3. new = LET n1 == [mem EXCEPT ![next(mem[prev(h)])] = mem[next(h)]]
                    n2 == [n1 EXCEPT ![prev(n1[next(h)])] = n1[prev(h)]]
                    n3 == IF mem[next(h)] = h /\ mem[prev(h)] = h THEN [mem EXCEPT ![list] = NULL]
                          ELSE IF h = n2[list] THEN [n2 EXCEPT ![list] = n2[next(h)]] ELSE n2
                IN [n3 EXCEPT ![next(h)] = NULL, ![prev(h)] = NULL]
      BY <1>1 DEF lib_listRemove
    <3>4. QED
      BY <1>4, <3>1, <3>2, <3>3
  <2> HIDE DEF new, h, a, z
  <2>3. /\ m4[list] = a /\ m4[next(z)] = a /\ m4[prev(a)] = z
        /\ \A c \in M \ {z} : m4[next(c)] = mem[next(c)]
        /\ \A c \in M \ {a} : m4[prev(c)] = mem[prev(c)]
    BY <1>1, <1>4, <2>1, Distinct
  <2> HIDE DEF m4
  <2>4. /\ \A c \in L : /\ mem[next(c)] \in L /\ mem[prev(c)] \in L
                        /\ mem[prev(mem[next(c)])] = c /\ mem[next(mem[prev(c)])] = c
        /\ mem[next(h)] = a /\ mem[prev(h)] = z
    BY DEF Ring, a, z
  <2>5. a \in M /\ z \in M /\ M \in SUBSET Slots /\ a # NULL
    BY <1>1, <1>4, <2>1, Distinct
  <2>6. ASSUME NEW c \in M
        PROVE  /\ m4[next(c)] \in M /\ m4[prev(c)] \in M
               /\ m4[prev(m4[next(c)])] = c /\ m4[next(m4[prev(c)])] = c
    <3>1. m4[next(c)] \in M /\ m4[prev(m4[next(c)])] = c
      <4>1. CASE c = z
        BY <2>3, <2>5, <4>1
      <4>2. CASE c # z
        <5>1. m4[next(c)] = mem[next(c)] /\ mem[next(c)] \in L /\ mem[next(c)] # h /\ mem[next(c)] # a
          BY <1>2, <2>3, <2>4, <4>2
        <5>2. QED
          BY <2>3, <2>4, <5>1
      <4>3. QED
        BY <4>1, <4>2
    <3>2. m4[prev(c)] \in M /\ m4[next(m4[prev(c)])] = c
      <4>1. CASE c = a
        BY <2>3, <2>5, <4>1
      <4>2. CASE c # a
        <5>1. m4[prev(c)] = mem[prev(c)] /\ mem[prev(c)] \in L /\ mem[prev(c)] # h /\ mem[prev(c)] # z
          BY <1>2, <2>3, <2>4, <4>2
        <5>2. QED
          BY <2>3, <2>4, <5>1
      <4>3. QED
        BY <4>1, <4>2
    <3>3. QED
      BY <3>1, <3>2
  <2>7. ASSUME NEW C \in SUBSET M, m4[list] \in C, \A c \in C : m4[next(c)] \in C
        PROVE  C = M
    <3>1. a \in C
      BY <2>3, <2>7
    <3>2. ASSUME NEW c \in C \cup {h} PROVE mem[next(c)] \in C \cup {h}
      <4>1. CASE c = h
        BY <2>4, <3>1, <4>1
      <4>2. CASE c = z
        BY <1>2, <4>2
      <4>3. CASE c # h /\ c # z
        BY <2>3, <2>7, <4>3
      <4>4. QED
        BY <4>1, <4>2, <4>3
    <3>3. C \cup {h} = L
      <4>1. C \cup {h} \in SUBSET L /\ mem[list] \in C \cup {h}
        BY <1>1 DEF h
      <4>2. QED
        BY <3>2, <4>1 DEF Ring
    <3>4. QED
      BY <3>3
  <2>8. Ring(m4, M)
    BY <2>3, <2>5, <2>6, <2>7 DEF Ring
  <2>9. QED
    BY <1>1, <2>2, <2>8 DEF new, h
<1>5. QED
  BY <1>3, <1>4

(***************************************************************************)
(* The slots.  What is neither free nor in the hands of the handler is in  *)
(* the list, and a sender at "link" has a free slot of its target.         *)
(***************************************************************************)
runs(t) == IF pc[t] = "run" THEN {slot[t]} ELSE {}

Rings == \A t \in Harts : /\ Ring(tasks[t], Slots \ (poolMask[t] \cup runs(t)))
                          /\ runs(t) \cap poolMask[t] = {}

HasSlot == \A h \in Harts : pc[h] = "link" => slot[h] \in poolMask[target(h)]

SlotInv == IpiInv /\ Rings /\ HasSlot

(* That is what SlotsAccounted says.                                        *)
LEMMA SlotInvImplies == SlotInv => SlotsAccounted
<1> SUFFICES ASSUME SlotInv, NEW t \in Harts
             PROVE  /\ poolMask[t] \cup linked(t) \cup runs(t) = Slots
                    /\ poolMask[t] \cap linked(t) = {}
                    /\ runs(t) \cap (poolMask[t] \cup linked(t)) = {}
  BY DEF SlotsAccounted, runs
<1>1. tasks[t] \in [Locations -> Pointers] /\ poolMask[t] \in SUBSET Slots
  BY DEF SlotInv, IpiInv, TypeOK
<1>2. runs(t) \in SUBSET Slots
  BY DEF SlotInv, IpiInv, HasTask, runs
<1>3. linked(t) = Slots \ (poolMask[t] \cup runs(t))
  BY <1>1, RingReached DEF SlotInv, Rings, linked
<1>4. runs(t) \cap poolMask[t] = {}
  BY DEF SlotInv, Rings
<1>5. QED
  BY <1>1, <1>2, <1>3, <1>4

(* A step of h that leaves lists and pools alone keeps what the others have. *)
LEMMA QuietStep ==
  ASSUME SlotInv, IpiInv', NEW h \in Harts, tasks' = tasks, poolMask' = poolMask,
         pc[h] # "run", pc'[h] # "run",
         pc'[h] = "link" => slot'[h] \in poolMask[target(h)] /\ todo'[h] = todo[h],
         \A g \in Harts \ {h} : pc'[g] = pc[g] /\ todo'[g] = todo[g] /\ slot'[g] = slot[g]
  PROVE  SlotInv'
<1>1. ASSUME NEW t \in Harts PROVE runs(t)' = runs(t)
  BY DEF runs
<1>2. Rings'
  BY <1>1 DEF SlotInv, Rings
<1>3. HasSlot'
  BY DEF SlotInv, HasSlot, target
<1>4. QED
  BY <1>2, <1>3 DEF SlotInv

(* The steps of sbi_ipiSendMany and sbi_ipiSend but the one that links.     *)
LEMMA SlotsSend ==
  ASSUME SlotInv, IpiInv', NEW h \in Harts,
         \/ sendMany(h) \/ sendLock(h) \/ sendTake(h) \/ sendRefused(h) \/ sbi_ipiRawSend(h)
         \/ sendUnlock(h) \/ ecall(h)
  PROVE  SlotInv'
<1> USE DEF SlotInv, IpiInv, TypeOK, goto
<1>1. CASE sendMany(h)
  BY <1>1, QuietStep DEF sendMany
<1>2. CASE sendLock(h)
  BY <1>2, QuietStep DEF sendLock
<1>3. CASE sendTake(h)
  <2>1. CASE poolMask[target(h)] = {}
    BY <1>3, <2>1, QuietStep DEF sendTake
  <2>2. CASE poolMask[target(h)] # {}
    <3> HIDE DEF TypeOK
    <3>1. target(h) \in Harts
      BY <1>3, TargetHart DEF sendTake, HasTarget, Sending
    <3>2. poolMask[target(h)] \in SUBSET Slots /\ Slots \in SUBSET Nat
      BY <3>1, SbiIpiAssumption DEF Slots, TypeOK
    <3>3. poolMask[target(h)] \in SUBSET Nat
      BY <3>2
    <3>4. sbi_getFirstBit(poolMask[target(h)]) \in poolMask[target(h)]
      BY <2>2, <3>3, MinInSet DEF sbi_getFirstBit
    <3>5. /\ pc[h] = "take" /\ pc'[h] = "link" /\ todo' = todo /\ tasks' = tasks /\ poolMask' = poolMask
          /\ slot'[h] = sbi_getFirstBit(poolMask[target(h)])
          /\ \A g \in Harts \ {h} : pc'[g] = pc[g] /\ todo'[g] = todo[g] /\ slot'[g] = slot[g]
      BY <1>3, <2>2 DEF sendTake, TypeOK
    <3>6. QED
      <4> HIDE DEF SlotInv, IpiInv
      <4>1. QED
        BY <3>4, <3>5, QuietStep
  <2>3. QED
    BY <2>1, <2>2
<1>4. CASE sendRefused(h)
  BY <1>4, QuietStep DEF sendRefused
<1>5. CASE sbi_ipiRawSend(h)
  BY <1>5, QuietStep DEF sbi_ipiRawSend
<1>6. CASE sendUnlock(h)
  BY <1>6, QuietStep DEF sendUnlock
<1>7. CASE ecall(h)
  BY <1>7, QuietStep DEF ecall, sbi_ipiSendMany, ipiVars
<1>8. QED
  BY <1>1, <1>2, <1>3, <1>4, <1>5, <1>6, <1>7

(* The steps of the handler that move no task.                              *)
LEMMA SlotsHandle ==
  ASSUME SlotInv, IpiInv', NEW h \in Harts,
         \/ sbi_ipiRawClear(h) \/ handlerLock(h) \/ handlerUnlock(h)
         \/ handlerDrain(h) /\ tasks[h][list] = NULL
  PROVE  SlotInv'
<1> USE DEF SlotInv, IpiInv, TypeOK, goto
<1>1. CASE sbi_ipiRawClear(h)
  BY <1>1, QuietStep DEF sbi_ipiRawClear
<1>2. CASE handlerLock(h)
  BY <1>2, QuietStep DEF handlerLock
<1>3. CASE handlerUnlock(h)
  BY <1>3, QuietStep DEF handlerUnlock
<1>4. CASE handlerDrain(h) /\ tasks[h][list] = NULL
  BY <1>4, QuietStep DEF handlerDrain
<1>5. QED
  BY <1>1, <1>2, <1>3, <1>4

(* sbi_ipiSend takes the slot out of the pool and links it: the lock keeps  *)
(* another sender from having chosen the same slot.                         *)
LEMMA SlotsLink ==
  ASSUME SlotInv, IpiInv', NEW h \in Harts, sendLink(h)
  PROVE  SlotInv'
<1> DEFINE t == target(h)
           s == slot[h]
           l == IF tasks[t][list] = NULL THEN list ELSE prev(tasks[t][list])
<1>1. /\ t \in Harts /\ s \in poolMask[t] /\ poolMask[t] \in SUBSET Slots /\ s \in Slots
      /\ tasks[t] \in [Locations -> Pointers]
  BY TargetHart DEF SlotInv, IpiInv, TypeOK, HasSlot, sendLink, Sending
<1> HIDE DEF t, s
<1>2. /\ poolMask'[t] = poolMask[t] \ {s}
      /\ tasks'[t] = lib_listAdd(tasks[t], l, s)
      /\ \A u \in Harts \ {t} : poolMask'[u] = poolMask[u] /\ tasks'[u] = tasks[u]
  BY <1>1 DEF sendLink, SlotInv, IpiInv, TypeOK, t, s
<1>3. /\ pc[h] = "link" /\ pc'[h] = "raise" /\ todo' = todo /\ slot' = slot
      /\ \A g \in Harts \ {h} : pc'[g] = pc[g]
  BY DEF sendLink, goto, SlotInv, IpiInv, TypeOK
<1>4. ASSUME NEW u \in Harts PROVE runs(u)' = runs(u)
  BY <1>3 DEF runs
<1>5. pc[t] # "run"
  <2>1. holds(h, t)
    BY <1>3 DEF holds, t, SlotInv, IpiInv, HasTarget, Sending
  <2>2. pc[t] = "run" => holds(t, t)
    BY DEF holds, Draining
  <2>3. QED
    BY <1>1, <1>3, <2>1, <2>2 DEF SlotInv, IpiInv, LockExclusive
<1>6. ASSUME NEW u \in Harts
      PROVE  /\ Ring(tasks'[u], Slots \ (poolMask'[u] \cup runs(u)'))
             /\ runs(u)' \cap poolMask'[u] = {}
  <2>1. CASE u # t
    BY <1>2, <1>4, <2>1 DEF SlotInv, Rings
  <2>2. CASE u = t
    <3>1. runs(t) = {}
      BY <1>5 DEF runs
    <3>2. Ring(tasks[t], Slots \ poolMask[t])
      BY <1>1, <3>1 DEF SlotInv, Rings
    <3>3. Ring(lib_listAdd(tasks[t], l, s), (Slots \ poolMask[t]) \cup {s})
      BY <1>1, <3>2, RingAdd
    <3>4. (Slots \ poolMask[t]) \cup {s} = Slots \ (poolMask[t] \ {s})
      BY <1>1
    <3>5. runs(u)' = {}
      BY <1>4, <2>2, <3>1
    <3>6. Slots \ (poolMask'[u] \cup runs(u)') = Slots \ (poolMask[t] \ {s})
      BY <1>2, <2>2, <3>5
    <3>7. Ring(tasks'[u], Slots \ (poolMask[t] \ {s}))
      BY <1>2, <2>2, <3>3, <3>4
    <3>8. QED
      BY <3>5, <3>6, <3>7
  <2>3. QED
    BY <2>1, <2>2
<1>7. Rings'
  BY <1>6 DEF Rings
<1>8. ASSUME NEW g \in Harts, pc'[g] = "link" PROVE slot'[g] \in poolMask'[target(g)']
  <2>1. g # h /\ pc[g] = "link"
    BY <1>3, <1>8
  <2>2. target(g)' = target(g)
    BY <1>3 DEF target
  <2>3. target(g) # t
    BY <1>1, <1>3, <2>1 DEF SlotInv, IpiInv, LockExclusive, holds, HasTarget, Sending, t
  <2>4. target(g) \in Harts
    BY <2>1, TargetHart DEF SlotInv, IpiInv, HasTarget, Sending
  <2>5. QED
    BY <1>2, <1>3, <2>1, <2>2, <2>3, <2>4 DEF SlotInv, HasSlot
<1>9. HasSlot'
  BY <1>8 DEF HasSlot
<1>10. QED
  BY <1>7, <1>9 DEF SlotInv

(* sbi_ipiHandler takes the first task out of its list.                     *)
LEMMA SlotsDrain ==
  ASSUME SlotInv, IpiInv', NEW h \in Harts, handlerDrain(h), tasks[h][list] # NULL
  PROVE  SlotInv'
<1> DEFINE s == tasks[h][list]
<1>1. /\ poolMask' = poolMask /\ todo' = todo /\ pc[h] = "drain" /\ pc'[h] = "run" /\ slot'[h] = s
      /\ tasks'[h] = lib_listRemove(tasks[h], list, s)
      /\ \A u \in Harts \ {h} : tasks'[u] = tasks[u] /\ pc'[u] = pc[u] /\ slot'[u] = slot[u]
  BY DEF handlerDrain, goto, SlotInv, IpiInv, TypeOK
<1>2. tasks[h] \in [Locations -> Pointers] /\ poolMask[h] \in SUBSET Slots
  BY DEF SlotInv, IpiInv, TypeOK
<1>3. ASSUME NEW u \in Harts \ {h} PROVE runs(u)' = runs(u)
  BY <1>1 DEF runs
<1>4. ASSUME NEW u \in Harts
      PROVE  /\ Ring(tasks'[u], Slots \ (poolMask'[u] \cup runs(u)'))
             /\ runs(u)' \cap poolMask'[u] = {}
  <2>1. CASE u # h
    BY <1>1, <1>3, <2>1 DEF SlotInv, Rings
  <2>2. CASE u = h
    <3>1. runs(h) = {} /\ runs(h)' = {s}
      BY <1>1 DEF runs
    <3>2. Ring(tasks[h], Slots \ poolMask[h])
      BY <3>1 DEF SlotInv, Rings
    <3>3. s \in Slots \ poolMask[h] /\ Ring(lib_listRemove(tasks[h], list, s), (Slots \ poolMask[h]) \ {s})
      BY <1>2, <3>2, RingRemove
    <3>4. (Slots \ poolMask[h]) \ {s} = Slots \ (poolMask[h] \cup {s})
      OBVIOUS
    <3> HIDE DEF s
    <3>5. QED
      BY <1>1, <2>2, <3>1, <3>3, <3>4
  <2>3. QED
    BY <2>1, <2>2
<1>5. Rings'
  BY <1>4 DEF Rings
<1>6. HasSlot'
  BY <1>1 DEF SlotInv, HasSlot, target
<1>7. QED
  BY <1>5, <1>6 DEF SlotInv

(* ... and gives its slot back when its handler has run.                    *)
LEMMA SlotsRun ==
  ASSUME SlotInv, IpiInv', NEW h \in Harts, handlerRun(h)
  PROVE  SlotInv'
<1> DEFINE s == slot[h]
<1>1. /\ tasks' = tasks /\ todo' = todo /\ pc[h] = "run" /\ pc'[h] = "drain"
      /\ poolMask'[h] = poolMask[h] \cup {s}
      /\ \A u \in Harts \ {h} : poolMask'[u] = poolMask[u] /\ pc'[u] = pc[u] /\ slot'[u] = slot[u]
  BY DEF handlerRun, goto, SlotInv, IpiInv, TypeOK
<1>2. ASSUME NEW u \in Harts \ {h} PROVE runs(u)' = runs(u)
  BY <1>1 DEF runs
<1>3. ASSUME NEW u \in Harts
      PROVE  /\ Ring(tasks'[u], Slots \ (poolMask'[u] \cup runs(u)'))
             /\ runs(u)' \cap poolMask'[u] = {}
  <2>1. CASE u # h
    BY <1>1, <1>2, <2>1 DEF SlotInv, Rings
  <2>2. CASE u = h
    <3>1. runs(h) = {s} /\ runs(h)' = {}
      BY <1>1 DEF runs
    <3>2. Ring(tasks[h], Slots \ (poolMask[h] \cup {s}))
      BY <3>1 DEF SlotInv, Rings
    <3> HIDE DEF s
    <3>3. QED
      BY <1>1, <2>2, <3>1, <3>2
  <2>3. QED
    BY <2>1, <2>2
<1>4. Rings'
  BY <1>3 DEF Rings
<1>5. ASSUME NEW g \in Harts, pc'[g] = "link" PROVE slot'[g] \in poolMask'[target(g)']
  <2>1. g # h /\ pc[g] = "link" /\ target(g)' = target(g) /\ slot'[g] = slot[g]
    BY <1>1, <1>5 DEF target
  <2>2. target(g) \in Harts
    BY <2>1, TargetHart DEF SlotInv, IpiInv, HasTarget, Sending
  <2>3. slot[g] \in poolMask[target(g)]
    BY <2>1 DEF SlotInv, HasSlot
  <2>4. poolMask[target(g)] \subseteq poolMask'[target(g)]
    BY <1>1, <2>2
  <2>5. QED
    BY <2>1, <2>3, <2>4
<1>6. HasSlot'
  BY <1>5 DEF HasSlot
<1>7. QED
  BY <1>4, <1>6 DEF SlotInv

(* Every pool is full and every list empty after sbi_ipiInit.               *)
LEMMA SlotsInit == Init => SlotInv
<1> SUFFICES ASSUME Init PROVE SlotInv
  OBVIOUS
<1>1. ASSUME NEW t \in Harts
      PROVE pc[t] = "smode" /\ poolMask[t] = Slots /\ tasks[t][list] = NULL /\ runs(t) = {}
  BY DEF Init, sbi_ipiInit, empty, Locations, runs
<1>2. ASSUME NEW t \in Harts PROVE Ring(tasks[t], {})
  BY <1>1 DEF Ring
<1>3. Rings
  <2>1. ASSUME NEW t \in Harts PROVE Slots \ (poolMask[t] \cup runs(t)) = {}
    BY <1>1
  <2>2. QED
    BY <1>1, <1>2, <2>1 DEF Rings
<1>4. HasSlot
  BY <1>1 DEF HasSlot
<1>5. QED
  BY <1>3, <1>4, InvInit DEF SlotInv

(* Every step of every hart keeps the slots.                                *)
LEMMA SlotsStep == SlotInv /\ [Next]_ipiVars => SlotInv'
<1> SUFFICES ASSUME SlotInv, [Next]_ipiVars PROVE SlotInv'
  OBVIOUS
<1>1. IpiInv'
  BY InvStep DEF SlotInv
<1>2. CASE UNCHANGED ipiVars
  BY <1>1, <1>2 DEF ipiVars, SlotInv, Rings, HasSlot, runs, target
<1>3. ASSUME NEW h \in Harts, ipiStep(h) PROVE SlotInv'
  BY <1>1, <1>3, SlotsSend, SlotsHandle, SlotsLink, SlotsDrain, SlotsRun DEF ipiStep
<1>4. ASSUME NEW h \in Harts, sendLock(h) \/ handlerLock(h) \/ ecall(h) PROVE SlotInv'
  BY <1>1, <1>4, SlotsSend, SlotsHandle
<1>5. QED
  BY <1>2, <1>3, <1>4 DEF Next

(* No slot of any pool is ever lost or used twice: lib_listAdd, passed       *)
(* &tasks->prev, and lib_listRemove keep a ring of exactly the slots that    *)
(* are neither free nor held by the handler.                                 *)
THEOREM SlotsKept == Spec => []SlotsAccounted
BY SlotsInit, SlotsStep, SlotInvImplies, PTL DEF Spec

(***************************************************************************)
(* Hart state management (SbiHsm).                                         *)
(***************************************************************************)
(***************************************************************************)
(* The phases of a hart.                                                   *)
(***************************************************************************)
First   == {"bss", "bootid", "ready"}                   (* the boot hart alone *)
Booting == First \cup {"reset", "waitboot", "mask", "scratch", "init"}
Waiting == {"poll", "wfi"}
Up      == Labels \cup {"readarg", "readaddr", "writeaddr", "writearg"}
HsmLabels == Booting \cup Waiting \cup Up \cup {"gather", "jump"}

(* The harts that hsm_init has counted, and those past hsm_hartWait. *)
counted == {h \in Harts : pc[h] \notin Booting}
left    == {h \in Harts : pc[h] \in Up \cup {"jump"}}

States == {"STOPPED", "START_PENDING", "STARTED"}
Calling == {"writeaddr", "writearg"}
CallType == [hartid : Harts, addr : StartAddrs, opaque : Opaques]
Grants == Harts \X Opaques \X StartAddrs

HsmTypes ==
  /\ hartMask \subseteq Harts
  /\ pc \in [Harts -> HsmLabels]
  /\ hartLock \in Nat /\ hartsStarted \in Nat /\ bootReady \in BOOLEAN
  /\ state \in [Harts -> States \cup {NULL}]
  /\ nextAddr \in [Harts -> StartAddrs \cup {Payload, NULL}]
  /\ nextArg1 \in [Harts -> Opaques \cup {Fdt, NULL}]
  /\ call \in [Harts -> CallType \cup {NULL}]
  /\ DOMAIN entry = Harts
  /\ granted \in [Harts -> SUBSET Grants]

(* One hart is elected, and until it has cleared .bss the others wait. *)
Election ==
  /\ hartLock = 0 => ~bootReady /\ \A h \in Harts : pc[h] = "reset"
  /\ \A g, h \in Harts : pc[g] \in First /\ pc[h] \in First => g = h
  /\ ~bootReady => \A h \in Harts : pc[h] \in First \cup {"reset", "waitboot"}
  /\ bootReady => \A h \in Harts : pc[h] \notin First
  /\ \A h \in Harts : /\ pc[h] = "ready" => bootHartId = h
                      /\ pc[h] = "gather" => bootHartId = h
                      /\ pc[h] \in Waiting => bootHartId # h

(* What a hart has done to its own data by the time it gets somewhere. *)
Progress ==
  \A h \in Harts :
    /\ pc[h] \notin First \cup {"reset", "waitboot", "mask"} => h \in hartMask
    /\ pc[h] = "init" => state[h] = "STOPPED"
    /\ pc[h] \in Waiting => state[h] \in {"STOPPED", "START_PENDING"}
    /\ pc[h] \in {"gather", "jump"} => state[h] = "START_PENDING"
    /\ pc[h] \in Up => state[h] = "STARTED"

(* Nobody goes on before the boot hart has seen all of them. *)
Gathered ==
  /\ hartsStarted = Cardinality(counted)
  /\ left # {} => counted = Harts

(* A hart has been granted a start once if it is not the boot hart and is no *)
(* longer stopped, and otherwise not at all.                                 *)
Granted ==
  \A h \in Harts :
    /\ \A c, d \in granted[h] : c = d
    /\ h \notin counted \/ h = bootHartId \/ state[h] = "STOPPED" => granted[h] = {}
    /\ h \in counted /\ h # bootHartId /\ state[h] # "STOPPED" => granted[h] # {}
    /\ granted[h] # {} => left # {}

(* Hart b is inside the hsm_hartStart for h that was granted as c. *)
calling(c, h) ==
  /\ pc[c[1]] \in Calling
  /\ call[c[1]] = [hartid |-> h, addr |-> c[3], opaque |-> c[2]]

(* The words a hart reads before it leaves are those of the payload, those   *)
(* of the call that started it, or about to be written by that call.         *)
Written ==
  \A h \in Harts :
    /\ pc[h] \in Calling => /\ call[h] \in CallType
                            /\ <<h, call[h].opaque, call[h].addr>> \in granted[call[h].hartid]
    /\ h \in counted \cup {g \in Harts : pc[g] = "init"} =>
         /\ nextAddr[h] # NULL
         /\ granted[h] = {} => nextArg1[h] = Fdt /\ nextAddr[h] = Payload
    /\ \A c \in granted[h] :
         /\ nextArg1[h] = c[2] \/ calling(c, h)
         /\ nextAddr[h] = c[3] \/ (calling(c, h) /\ pc[c[1]] = "writeaddr")

HsmInv == HsmTypes /\ Election /\ Progress /\ Gathered /\ Granted /\ Written

USE DEF First, Booting, Waiting, Up, Labels, HsmLabels, Calling, goto, ipiIdle, hsmVars

(* An interrupt between harts, or the ecall that sends it, concerns the HSM  *)
(* only in that a hart that is up stays up.                                  *)
ipiAction(h) == ipiStep(h) \/ sendLock(h) \/ handlerLock(h) \/ ecall(h) \/ clearSsip(h)

(* Such a step moves one hart from a label of SbiIpi to another.             *)
LEMMA IpiMoves ==
  ASSUME HsmTypes, NEW h \in Harts, ipiAction(h)
  PROVE  /\ pc[h] \in Labels /\ hartMask' = hartMask
         /\ \E l \in Labels : pc' = [pc EXCEPT ![h] = l]
<1>0. pc = [pc EXCEPT ![h] = pc[h]]
  BY DEF HsmTypes
<1>1. CASE sendMany(h) \/ sendTake(h) \/ sendRefused(h) \/ sendLink(h)
  BY <1>0, <1>1 DEF sendMany, sendTake, sendRefused, sendLink
<1>2. CASE sbi_ipiRawSend(h) \/ sendUnlock(h) \/ sbi_ipiRawClear(h) \/ handlerDrain(h)
  BY <1>2 DEF sbi_ipiRawSend, sendUnlock, sbi_ipiRawClear, handlerDrain
<1>3. CASE handlerRun(h) \/ handlerUnlock(h) \/ sendLock(h) \/ handlerLock(h) \/ clearSsip(h)
  BY <1>0, <1>3 DEF handlerRun, handlerUnlock, sendLock, handlerLock, clearSsip
<1>4. CASE ecall(h)
  BY <1>0, <1>4 DEF ecall, sbi_ipiSendMany, ipiVars
<1>5. QED
  BY <1>1, <1>2, <1>3, <1>4 DEF ipiAction, ipiStep

(* The number of harts counted is that of all harts only when all are.       *)
LEMMA CountAll ==
  /\ IsFiniteSet(Harts) /\ Cardinality(Harts) = HartCount
  /\ \A S \in SUBSET Harts : /\ IsFiniteSet(S) /\ Cardinality(S) \in Nat
                             /\ Cardinality(S) >= HartCount => S = Harts
<1>1. HartCount \in Nat \ {0}
  BY SbiIpiAssumption
<1>2. IsFiniteSet(Harts) /\ Cardinality(Harts) = HartCount
  <2>1. 0 \in Int /\ HartCount - 1 \in Int /\ ~(0 > HartCount - 1) /\ HartCount - 1 - 0 + 1 = HartCount
    BY <1>1
  <2>2. QED
    BY <2>1, FS_Interval DEF Harts
<1>3. QED
  BY <1>1, <1>2, FS_Subset, FS_CardinalityType

(* Nothing Written speaks of changes when no call is begun or goes on.       *)
LEMMA KeepWritten ==
  ASSUME HsmTypes, Written, UNCHANGED <<nextAddr, nextArg1, call, granted>>,
         \A g \in Harts : /\ pc'[g] \in Booting <=> pc[g] \in Booting
                          /\ pc'[g] = "init" <=> pc[g] = "init"
                          /\ pc'[g] \in Calling \/ pc[g] \in Calling => pc'[g] = pc[g]
  PROVE  Written'
<1> HIDE DEF Booting, Calling
<1>1. \A g \in Harts : \A c \in granted[g] : c[1] \in Harts
  BY DEF HsmTypes, Grants
<1>2. counted' \cup {g \in Harts : pc'[g] = "init"} = counted \cup {g \in Harts : pc[g] = "init"}
  BY DEF counted
<1>3. \A g \in Harts : pc'[g] \in Calling =>
        call'[g] \in CallType /\ <<g, call'[g].opaque, call'[g].addr>> \in granted'[call'[g].hartid]
  BY DEF Written
<1>4. ASSUME NEW g \in Harts, NEW c \in granted[g]
      PROVE  /\ nextArg1'[g] = c[2] \/ calling(c, g)'
             /\ nextAddr'[g] = c[3] \/ (calling(c, g)' /\ pc'[c[1]] = "writeaddr")
  <2>1. /\ nextArg1[g] = c[2] \/ calling(c, g)
        /\ nextAddr[g] = c[3] \/ (calling(c, g) /\ pc[c[1]] = "writeaddr")
    BY DEF Written
  <2>2. calling(c, g) => calling(c, g)' /\ pc'[c[1]] = pc[c[1]]
    BY <1>1 DEF calling
  <2>3. nextArg1'[g] = nextArg1[g] /\ nextAddr'[g] = nextAddr[g]
    OBVIOUS
  <2>4. QED
    BY <2>1, <2>2, <2>3
<1>5. QED
  BY <1>2, <1>3, <1>4 DEF Written

(* The election: hartLock is 0 for the first hart only.                    *)
LEMMA ElectStep ==
  ASSUME HsmInv, NEW h \in Harts, elect(h)
  PROVE  HsmInv'
<1> HsmTypes /\ Election /\ Progress /\ Gathered /\ Granted /\ Written
  BY DEF HsmInv
<1>1. HsmTypes'
  BY DEF elect, HsmTypes, States
<1>2. Election'
  <2>1. CASE hartLock = 0
    <3>1. \A g \in Harts : pc[g] = "reset" /\ pc'[g] = IF g = h THEN "bss" ELSE "reset"
      BY <2>1 DEF elect, HsmTypes, Election
    <3>2. hartLock' # 0 /\ ~bootReady'
      BY <2>1, <3>1 DEF elect, HsmTypes, Election
    <3>3. QED
      BY <3>1, <3>2 DEF Election
  <2>2. CASE hartLock # 0
    BY <2>2 DEF elect, HsmTypes, Election
  <2>3. QED
    BY <2>1, <2>2
<1>3. Progress'
  BY DEF elect, HsmTypes, Election, Progress, Gathered, counted, left
<1>4. Gathered'
  BY DEF elect, HsmTypes, Gathered, counted, left
<1>5. Granted'
  BY DEF elect, HsmTypes, Election, Progress, Gathered, Granted, counted, left
<1>6. Written'
  BY DEF elect, HsmTypes, Election, Progress, Granted, Written, calling, counted, left, CallType
<1>7. QED
  BY <1>1, <1>2, <1>3, <1>4, <1>5, <1>6 DEF HsmInv

(* Clearing .bss disturbs nobody: the other harts are waiting for it.      *)
LEMMA ClearBssStep ==
  ASSUME HsmInv, NEW h \in Harts, clearBss(h)
  PROVE  HsmInv'
<1> HsmTypes /\ Election /\ Progress /\ Gathered /\ Granted /\ Written
  BY DEF HsmInv
<1>1. HsmTypes'
  BY DEF clearBss, HsmTypes, States
<1>2. Election'
  BY DEF clearBss, HsmTypes, Election
<1>3. Progress'
  BY DEF clearBss, HsmTypes, Election, Progress, Gathered, counted, left
<1>4. Gathered'
  <2>1. counted' = {} /\ left' = {} /\ hartsStarted' = 0
    BY DEF clearBss, HsmTypes, Election, counted, left
  <2>2. QED
    BY <2>1, FS_EmptySet DEF Gathered
<1>5. Granted'
  BY DEF clearBss, HsmTypes, Election, Progress, Gathered, Granted, counted, left
<1>6. Written'
  BY DEF clearBss, HsmTypes, Election, Progress, Granted, Written, calling, counted, left, CallType
<1>7. QED
  BY <1>1, <1>2, <1>3, <1>4, <1>5, <1>6 DEF HsmInv

(* bootHartId is written while the others wait.                            *)
LEMMA SetBootHartStep ==
  ASSUME HsmInv, NEW h \in Harts, setBootHart(h)
  PROVE  HsmInv'
<1> HsmTypes /\ Election /\ Progress /\ Gathered /\ Granted /\ Written
  BY DEF HsmInv
<1>1. HsmTypes'
  BY DEF setBootHart, HsmTypes, States
<1>2. Election'
  BY DEF setBootHart, HsmTypes, Election
<1>3. Progress'
  BY DEF setBootHart, HsmTypes, Election, Progress, Gathered, counted, left
<1>4. Gathered'
  BY DEF setBootHart, HsmTypes, Gathered, counted, left
<1>5. Granted'
  BY DEF setBootHart, HsmTypes, Election, Progress, Gathered, Granted, counted, left
<1>6. Written'
  BY DEF setBootHart, HsmTypes, Election, Progress, Granted, Written, calling, counted, left, CallType
<1>7. QED
  BY <1>1, <1>2, <1>3, <1>4, <1>5, <1>6 DEF HsmInv

(* The boot hart lets the others in.                                       *)
LEMMA SetBootReadyStep ==
  ASSUME HsmInv, NEW h \in Harts, setBootReady(h)
  PROVE  HsmInv'
<1> HsmTypes /\ Election /\ Progress /\ Gathered /\ Granted /\ Written
  BY DEF HsmInv
<1>1. HsmTypes'
  BY DEF setBootReady, HsmTypes, States
<1>2. Election'
  BY DEF setBootReady, HsmTypes, Election
<1>3. Progress'
  BY DEF setBootReady, HsmTypes, Election, Progress, Gathered, counted, left
<1>4. Gathered'
  BY DEF setBootReady, HsmTypes, Gathered, counted, left
<1>5. Granted'
  BY DEF setBootReady, HsmTypes, Election, Progress, Gathered, Granted, counted, left
<1>6. Written'
  BY DEF setBootReady, HsmTypes, Election, Progress, Granted, Written, calling, counted, left, CallType
<1>7. QED
  BY <1>1, <1>2, <1>3, <1>4, <1>5, <1>6 DEF HsmInv

(* A hart that waited enters.                                              *)
LEMMA WaitBootHartStep ==
  ASSUME HsmInv, NEW h \in Harts, waitBootHart(h)
  PROVE  HsmInv'
<1> HsmTypes /\ Election /\ Progress /\ Gathered /\ Granted /\ Written
  BY DEF HsmInv
<1>1. HsmTypes'
  BY DEF waitBootHart, HsmTypes, States
<1>2. Election'
  BY DEF waitBootHart, HsmTypes, Election
<1>3. Progress'
  BY DEF waitBootHart, HsmTypes, Election, Progress, Gathered, counted, left
<1>4. Gathered'
  BY DEF waitBootHart, HsmTypes, Gathered, counted, left
<1>5. Granted'
  BY DEF waitBootHart, HsmTypes, Election, Progress, Gathered, Granted, counted, left
<1>6. Written'
  BY DEF waitBootHart, HsmTypes, Election, Progress, Granted, Written, calling, counted, left, CallType
<1>7. QED
  BY <1>1, <1>2, <1>3, <1>4, <1>5, <1>6 DEF HsmInv

(* A hart marks itself in sbi_hartMask.                                    *)
LEMMA MarkHartStep ==
  ASSUME HsmInv, NEW h \in Harts, markHart(h)
  PROVE  HsmInv'
<1> HsmTypes /\ Election /\ Progress /\ Gathered /\ Granted /\ Written
  BY DEF HsmInv
<1>1. HsmTypes'
  BY DEF markHart, HsmTypes, States
<1>2. Election'
  BY DEF markHart, HsmTypes, Election
<1>3. Progress'
  BY DEF markHart, HsmTypes, Election, Progress, Gathered, counted, left
<1>4. Gathered'
  BY DEF markHart, HsmTypes, Gathered, counted, left
<1>5. Granted'
  BY DEF markHart, HsmTypes, Election, Progress, Gathered, Granted, counted, left
<1>6. Written'
  BY DEF markHart, HsmTypes, Election, Progress, Granted, Written, calling, counted, left, CallType
<1>7. QED
  BY <1>1, <1>2, <1>3, <1>4, <1>5, <1>6 DEF HsmInv

(* A hart initialises its own data before anybody can have started it.     *)
LEMMA ScratchInitStep ==
  ASSUME HsmInv, NEW h \in Harts, sbi_scratchInit(h)
  PROVE  HsmInv'
<1> HsmTypes /\ Election /\ Progress /\ Gathered /\ Granted /\ Written
  BY DEF HsmInv
<1>1. HsmTypes'
  BY DEF sbi_scratchInit, HsmTypes, States
<1>2. Election'
  BY DEF sbi_scratchInit, HsmTypes, Election
<1>3. Progress'
  BY DEF sbi_scratchInit, HsmTypes, Election, Progress, Gathered, counted, left
<1>4. Gathered'
  BY DEF sbi_scratchInit, HsmTypes, Gathered, counted, left
<1>5. Granted'
  BY DEF sbi_scratchInit, HsmTypes, Election, Progress, Gathered, Granted, counted, left
<1>6. Written'
  <2>1. granted[h] = {} /\ h \notin counted
    BY DEF sbi_scratchInit, Granted, counted
  <2>2. /\ nextArg1'[h] = Fdt /\ nextAddr'[h] = Payload /\ Payload # NULL
        /\ \A g \in Harts \ {h} : nextArg1'[g] = nextArg1[g] /\ nextAddr'[g] = nextAddr[g] /\ pc'[g] = pc[g]
        /\ pc[h] = "scratch" /\ pc'[h] = "init" /\ call' = call /\ granted' = granted
    BY SbiHsmAssumption DEF sbi_scratchInit, HsmTypes
  <2>3. QED
    BY <2>1, <2>2 DEF Written, calling, counted, HsmTypes, Grants
<1>7. QED
  BY <1>1, <1>2, <1>3, <1>4, <1>5, <1>6 DEF HsmInv

(* hsm_init counts a hart once.                                            *)
LEMMA InitStep ==
  ASSUME HsmInv, NEW h \in Harts, hsm_init(h)
  PROVE  HsmInv'
<1> HsmTypes /\ Election /\ Progress /\ Gathered /\ Granted /\ Written
  BY DEF HsmInv
<1>1. HsmTypes'
  BY DEF hsm_init, HsmTypes, States
<1>2. Election'
  BY DEF hsm_init, HsmTypes, Election
<1>3. Progress'
  BY DEF hsm_init, HsmTypes, Election, Progress, Gathered, counted, left
<1>4. Gathered'
  <2>1. counted' = counted \cup {h} /\ h \notin counted /\ left' = left
    BY DEF hsm_init, HsmTypes, counted, left
  <2>2. counted \in SUBSET Harts
    BY DEF counted
  <2>3. Cardinality(counted') = Cardinality(counted) + 1
    BY <2>1, <2>2, CountAll, FS_AddElement
  <2>4. QED
    BY <2>1, <2>3 DEF Gathered, hsm_init
<1>5. Granted'
  BY DEF hsm_init, HsmTypes, Election, Progress, Gathered, Granted, counted, left
<1>6. Written'
  BY DEF hsm_init, HsmTypes, Election, Progress, Granted, Written, calling, counted, left, CallType
<1>7. QED
  BY <1>1, <1>2, <1>3, <1>4, <1>5, <1>6 DEF HsmInv

(* The boot hart goes on when it has counted every hart.                   *)
LEMMA GatherStep ==
  ASSUME HsmInv, NEW h \in Harts, gatherHarts(h)
  PROVE  HsmInv'
<1> HsmTypes /\ Election /\ Progress /\ Gathered /\ Granted /\ Written
  BY DEF HsmInv
<1>1. HsmTypes'
  BY DEF gatherHarts, HsmTypes, States
<1>2. Election'
  BY DEF gatherHarts, HsmTypes, Election
<1>3. Progress'
  BY DEF gatherHarts, HsmTypes, Election, Progress, Gathered, counted, left
<1>4. Gathered'
  <2>1. counted' = counted /\ hartsStarted' = hartsStarted /\ hartsStarted >= HartCount
    BY DEF gatherHarts, HsmTypes, counted
  <2>2. counted \in SUBSET Harts
    BY DEF counted
  <2>3. QED
    BY <2>1, <2>2, CountAll DEF Gathered
<1>5. Granted'
  BY DEF gatherHarts, HsmTypes, Election, Progress, Gathered, Granted, counted, left
<1>6. Written'
  BY DEF gatherHarts, HsmTypes, Election, Progress, Granted, Written, calling, counted, left, CallType
<1>7. QED
  BY <1>1, <1>2, <1>3, <1>4, <1>5, <1>6 DEF HsmInv

(* A hart leaves hsm_hartWait because it was started, by a hart that is    *)
(* up.                                                                     *)
LEMMA HartWaitStep ==
  ASSUME HsmInv, NEW h \in Harts, hsm_hartWait(h)
  PROVE  HsmInv'
<1> HsmTypes /\ Election /\ Progress /\ Gathered /\ Granted /\ Written
  BY DEF HsmInv
<1>1. HsmTypes'
  BY DEF hsm_hartWait, HsmTypes, States
<1>2. Election'
  BY DEF hsm_hartWait, HsmTypes, Election
<1>3. Progress'
  BY DEF hsm_hartWait, HsmTypes, Election, Progress, Gathered, counted, left
<1>4. Gathered'
  <2>1. counted' = counted /\ hartsStarted' = hartsStarted /\ pc[h] = "poll"
    BY DEF hsm_hartWait, HsmTypes, counted
  <2>2. CASE state[h] = "START_PENDING"
    <3>1. granted[h] # {}
      BY <2>1, <2>2 DEF Granted, Election, counted
    <3>2. counted = Harts
      BY <3>1 DEF Granted, Gathered
    <3>3. QED
      BY <2>1, <3>2 DEF Gathered
  <2>3. CASE state[h] # "START_PENDING"
    <3>1. left' = left
      BY <2>3 DEF hsm_hartWait, HsmTypes, left
    <3>2. QED
      BY <2>1, <3>1 DEF Gathered
  <2>4. QED
    BY <2>2, <2>3
<1>5. Granted'
  BY DEF hsm_hartWait, HsmTypes, Election, Progress, Gathered, Granted, counted, left
<1>6. Written'
  BY DEF hsm_hartWait, HsmTypes, Election, Progress, Granted, Written, calling, counted, left, CallType
<1>7. QED
  BY <1>1, <1>2, <1>3, <1>4, <1>5, <1>6 DEF HsmInv

(* A hart that wakes looks at its state again, whatever woke it.           *)
LEMMA WakeStep ==
  ASSUME HsmInv, NEW h \in Harts, wake(h) \/ wakeSpurious(h)
  PROVE  HsmInv'
<1> HsmTypes /\ Election /\ Progress /\ Gathered /\ Granted /\ Written
  BY DEF HsmInv
<1>1. HsmTypes'
  BY DEF wake, wakeSpurious, HsmTypes, States
<1>2. Election'
  BY DEF wake, wakeSpurious, HsmTypes, Election
<1>3. Progress'
  BY DEF wake, wakeSpurious, HsmTypes, Election, Progress, Gathered, counted, left
<1>4. Gathered'
  <2>0. hartsStarted' = hartsStarted
    BY DEF wake, wakeSpurious
  <2>1. counted' = counted
    BY DEF wake, wakeSpurious, HsmTypes, counted
  <2>2. left' = left
    BY DEF wake, wakeSpurious, HsmTypes, left
  <2>3. QED
    BY <2>0, <2>1, <2>2 DEF Gathered
<1>5. Granted'
  BY DEF wake, wakeSpurious, HsmTypes, Election, Progress, Gathered, Granted, counted, left
<1>6. Written'
  BY KeepWritten DEF wake, wakeSpurious, HsmTypes
<1>7. QED
  BY <1>1, <1>2, <1>3, <1>4, <1>5, <1>6 DEF HsmInv

(* hsm_hartStartJump finds the state it expects.                           *)
LEMMA StartJumpStep ==
  ASSUME HsmInv, NEW h \in Harts, hsm_hartStartJump(h)
  PROVE  HsmInv'
<1> HsmTypes /\ Election /\ Progress /\ Gathered /\ Granted /\ Written
  BY DEF HsmInv
<1>0. state' = [state EXCEPT ![h] = "STARTED"] /\ pc[h] = "jump" /\ state[h] = "START_PENDING"
      /\ pc' = [pc EXCEPT ![h] = "readarg"]
  BY DEF hsm_hartStartJump, Progress
<1>1. HsmTypes'
  BY <1>0 DEF hsm_hartStartJump, HsmTypes, States
<1>2. Election'
  BY <1>0 DEF hsm_hartStartJump, HsmTypes, Election
<1>3. Progress'
  BY <1>0 DEF hsm_hartStartJump, HsmTypes, Election, Progress, Gathered, counted, left
<1>4. Gathered'
  BY <1>0 DEF hsm_hartStartJump, HsmTypes, Gathered, counted, left
<1>5. Granted'
  BY <1>0 DEF hsm_hartStartJump, HsmTypes, Election, Progress, Gathered, Granted, counted, left
<1>6. Written'
  BY <1>0 DEF hsm_hartStartJump, HsmTypes, Election, Progress, Granted, Written, calling, counted, left, CallType
<1>7. QED
  BY <1>1, <1>2, <1>3, <1>4, <1>5, <1>6 DEF HsmInv

(* A hart reads its argument and its address.                              *)
LEMMA ReadStep ==
  ASSUME HsmInv, NEW h \in Harts, readArg(h) \/ hart_changeMode(h)
  PROVE  HsmInv'
<1> HsmTypes /\ Election /\ Progress /\ Gathered /\ Granted /\ Written
  BY DEF HsmInv
<1>1. HsmTypes'
  BY DEF readArg, hart_changeMode, HsmTypes, States
<1>2. Election'
  BY DEF readArg, hart_changeMode, HsmTypes, Election
<1>3. Progress'
  BY DEF readArg, hart_changeMode, HsmTypes, Election, Progress, Gathered, counted, left
<1>4. Gathered'
  <2>1. counted' = counted /\ left' = left /\ hartsStarted' = hartsStarted
    BY DEF readArg, hart_changeMode, HsmTypes, counted, left
  <2>2. QED
    BY <2>1 DEF Gathered
<1>5. Granted'
  BY DEF readArg, hart_changeMode, HsmTypes, Election, Progress, Gathered, Granted, counted, left
<1>6. Written'
  BY KeepWritten DEF readArg, hart_changeMode, HsmTypes
<1>7. QED
  BY <1>1, <1>2, <1>3, <1>4, <1>5, <1>6 DEF HsmInv

(* hsm_hartStart writes the address.                                       *)
LEMMA WriteAddrStep ==
  ASSUME HsmInv, NEW h \in Harts, writeAddr(h)
  PROVE  HsmInv'
<1> HsmTypes /\ Election /\ Progress /\ Gathered /\ Granted /\ Written
  BY DEF HsmInv
<1>0. call[h] \in CallType /\ call[h].hartid \in Harts /\ call[h].addr \in StartAddrs
  BY DEF writeAddr, Written, CallType
<1>1. HsmTypes'
  BY <1>0 DEF writeAddr, HsmTypes, States
<1>2. Election'
  BY <1>0 DEF writeAddr, HsmTypes, Election
<1>3. Progress'
  BY <1>0 DEF writeAddr, HsmTypes, Election, Progress, Gathered, counted, left
<1>4. Gathered'
  BY <1>0 DEF writeAddr, HsmTypes, Gathered, counted, left
<1>5. Granted'
  BY <1>0 DEF writeAddr, HsmTypes, Election, Progress, Gathered, Granted, counted, left
<1>6. Written'
  <2> DEFINE t == call[h].hartid
  <2>1. /\ pc[h] = "writeaddr" /\ pc'[h] = "writearg"
        /\ \A g \in Harts \ {h} : pc'[g] = pc[g]
        /\ \A g \in Harts : nextAddr'[g] = IF g = t THEN call[h].addr ELSE nextAddr[g]
        /\ UNCHANGED <<nextArg1, call, granted>>
    BY <1>0 DEF writeAddr, HsmTypes
  <2>2. <<h, call[h].opaque, call[h].addr>> \in granted[t]
    BY <2>1 DEF Written
  <2>3. \A g \in Harts : \A c \in granted[g] :
          /\ c[1] \in Harts /\ (calling(c, g) => calling(c, g)')
          /\ g = t => c = <<h, call[h].opaque, call[h].addr>>
          /\ c[1] = h /\ calling(c, g) => g = t
    BY <2>1, <2>2 DEF HsmTypes, Grants, Granted, calling
  <2>4. counted' \cup {g \in Harts : pc'[g] = "init"} = counted \cup {g \in Harts : pc[g] = "init"}
    BY <2>1 DEF counted
  <2>5. call[h].addr # NULL
    BY <1>0, SbiHsmAssumption
  <2> HIDE DEF t
  <2>6. \A g \in Harts : pc'[g] \in Calling => call'[g] \in CallType /\ <<g, call'[g].opaque, call'[g].addr>> \in granted'[call'[g].hartid]
    BY <2>1 DEF Written
  <2>7. \A g \in Harts : \A c \in granted'[g] : nextArg1'[g] = c[2] \/ calling(c, g)'
    BY <2>1, <2>3 DEF Written
  <2>8. \A g \in Harts : \A c \in granted'[g] :
          nextAddr'[g] = c[3] \/ (calling(c, g)' /\ pc'[c[1]] = "writeaddr")
    <3> SUFFICES ASSUME NEW g \in Harts, NEW c \in granted[g]
                 PROVE  nextAddr'[g] = c[3] \/ (calling(c, g)' /\ pc'[c[1]] = "writeaddr")
      BY <2>1
    <3>1. CASE g = t
      BY <2>1, <2>3, <3>1
    <3>2. CASE g # t
      <4>1. calling(c, g) => c[1] # h
        BY <2>3, <3>2
      <4>2. nextAddr[g] = c[3] \/ (calling(c, g) /\ pc[c[1]] = "writeaddr")
        BY DEF Written
      <4>3. nextAddr'[g] = nextAddr[g] /\ (calling(c, g) => calling(c, g)' /\ pc'[c[1]] = pc[c[1]])
        BY <2>1, <2>3, <3>2, <4>1
      <4>4. QED
        BY <4>2, <4>3
    <3>3. QED
      BY <3>1, <3>2
  <2>9. QED
    BY <2>1, <2>2, <2>4, <2>5, <2>6, <2>7, <2>8 DEF Written
<1>7. QED
  BY <1>1, <1>2, <1>3, <1>4, <1>5, <1>6 DEF HsmInv

(* hsm_hartStart writes the argument and sends the interrupt.              *)
LEMMA WriteArgStep ==
  ASSUME HsmInv, NEW h \in Harts, writeArg(h)
  PROVE  HsmInv'
<1> HsmTypes /\ Election /\ Progress /\ Gathered /\ Granted /\ Written
  BY DEF HsmInv
<1>0. call[h] \in CallType /\ call[h].hartid \in Harts /\ call[h].opaque \in Opaques
  BY DEF writeArg, Written, CallType
<1>1. HsmTypes'
  BY <1>0 DEF writeArg, HsmTypes, States
<1>2. Election'
  BY <1>0 DEF writeArg, HsmTypes, Election
<1>3. Progress'
  BY <1>0 DEF writeArg, HsmTypes, Election, Progress, Gathered, counted, left
<1>4. Gathered'
  BY <1>0 DEF writeArg, HsmTypes, Gathered, counted, left
<1>5. Granted'
  BY <1>0 DEF writeArg, HsmTypes, Election, Progress, Gathered, Granted, counted, left
<1>6. Written'
  <2> DEFINE t == call[h].hartid
  <2>1. /\ pc[h] = "writearg" /\ pc'[h] = "many" /\ call'[h] = NULL
        /\ \A g \in Harts \ {h} : pc'[g] = pc[g] /\ call'[g] = call[g]
        /\ \A g \in Harts : nextArg1'[g] = IF g = t THEN call[h].opaque ELSE nextArg1[g]
        /\ UNCHANGED <<nextAddr, granted>>
    BY <1>0 DEF writeArg, HsmTypes
  <2>2. <<h, call[h].opaque, call[h].addr>> \in granted[t]
    BY <2>1 DEF Written
  <2>3. \A g \in Harts : \A c \in granted[g] :
          /\ c[1] \in Harts /\ (calling(c, g) /\ c[1] # h => calling(c, g)')
          /\ g = t => c = <<h, call[h].opaque, call[h].addr>>
          /\ c[1] = h /\ calling(c, g) => g = t
    BY <2>1, <2>2 DEF HsmTypes, Grants, Granted, calling
  <2>4. counted' \cup {g \in Harts : pc'[g] = "init"} = counted \cup {g \in Harts : pc[g] = "init"}
    BY <2>1 DEF counted
  <2> HIDE DEF t
  <2>5. \A g \in Harts : pc'[g] \in Calling => call'[g] \in CallType /\ <<g, call'[g].opaque, call'[g].addr>> \in granted'[call'[g].hartid]
    BY <2>1 DEF Written
  <2>6. \A g \in Harts : \A c \in granted'[g] : nextArg1'[g] = c[2] \/ calling(c, g)'
    <3> SUFFICES ASSUME NEW g \in Harts, NEW c \in granted[g]
                 PROVE  nextArg1'[g] = c[2] \/ calling(c, g)'
      BY <2>1
    <3>1. CASE g = t
      BY <2>1, <2>3, <3>1
    <3>2. CASE g # t
      BY <2>1, <2>3, <3>2, ZenonT(60) DEF Written
    <3>3. QED
      BY <3>1, <3>2
  <2>7. \A g \in Harts : \A c \in granted'[g] :
          nextAddr'[g] = c[3] \/ (calling(c, g)' /\ pc'[c[1]] = "writeaddr")
    BY <2>1, <2>3, ZenonT(60) DEF Written
  <2>8. \A g \in Harts : granted[g] = {} => g # t
    BY <2>2
  <2>9. \A g \in counted \cup {k \in Harts : pc[k] = "init"} :
          /\ nextAddr'[g] # NULL
          /\ granted'[g] = {} => nextArg1'[g] = Fdt /\ nextAddr'[g] = Payload
    BY <2>1, <2>8 DEF Written, counted
  <2>10. QED
    BY <2>4, <2>5, <2>6, <2>7, <2>9 DEF Written
<1>7. QED
  BY <1>1, <1>2, <1>3, <1>4, <1>5, <1>6 DEF HsmInv

(* hsm_hartStart is granted for a stopped hart only.                         *)
LEMMA StartStep ==
  ASSUME HsmInv, NEW h \in Harts, start(h), state' # state
  PROVE  HsmInv'
<1> HsmTypes /\ Election /\ Progress /\ Gathered /\ Granted /\ Written
  BY DEF HsmInv
<1>0. PICK t \in Harts, addr \in StartAddrs, opaque \in Opaques :
        /\ pc[h] = "smode" /\ pc' = [pc EXCEPT ![h] = "writeaddr"]
        /\ state[t] = "STOPPED" /\ state' = [state EXCEPT ![t] = "START_PENDING"]
        /\ call' = [call EXCEPT ![h] = [hartid |-> t, addr |-> addr, opaque |-> opaque]]
        /\ granted' = [granted EXCEPT ![t] = @ \cup {<<h, opaque, addr>>}]
        /\ UNCHANGED <<hartMask, hartLock, bootReady, bootHartId, hartsStarted, nextAddr,
                       nextArg1, entry>>
  <2>1. PICK t \in 0..HartCount, addr \in StartAddrs, opaque \in Opaques :
          hsm_hartStart(h, t, addr, opaque)
    BY DEF start
  <2>2. t < HartCount
    BY <2>1 DEF hsm_hartStart, sbiVars
  <2>3. t \in Harts
    BY <2>2, SbiIpiAssumption DEF Harts
  <2>4. QED
    BY <2>1, <2>3 DEF hsm_hartStart, sbiVars
<1> DEFINE c == <<h, opaque, addr>>
<1>a. counted = Harts /\ pc[t] \in Waiting /\ t # h /\ granted[t] = {} /\ c \in Grants
  <2>1. h \in left
    BY <1>0 DEF left
  <2>2. counted = Harts
    BY <2>1 DEF Gathered
  <2>3. pc[t] \notin Booting
    BY <2>2 DEF counted
  <2>4. QED
    BY <1>0, <2>2, <2>3 DEF Progress, Granted, HsmTypes, Grants
<1>1. HsmTypes'
  BY <1>0, <1>a DEF HsmTypes, States, CallType
<1>2. Election'
  BY <1>0 DEF HsmTypes, Election
<1>3. Progress'
  BY <1>0, <1>a DEF HsmTypes, Progress
<1>b. counted' = counted /\ left' = left
  BY <1>0 DEF HsmTypes, counted, left
<1>4. Gathered'
  BY <1>0, <1>b DEF Gathered
<1>5. Granted'
  <2>1. granted'[t] = {c} /\ \A g \in Harts \ {t} : granted'[g] = granted[g]
    BY <1>0, <1>a DEF HsmTypes
  <2>2. left # {} /\ t \in counted /\ t # bootHartId
    BY <1>0, <1>a DEF left, Election
  <2>3. state'[t] = "START_PENDING" /\ \A g \in Harts \ {t} : state'[g] = state[g]
    BY <1>0 DEF HsmTypes
  <2> HIDE DEF c
  <2>4. QED
    BY <1>0, <1>b, <2>1, <2>2, <2>3 DEF Granted
<1>6. Written'
  <2>1. /\ granted'[t] = {c} /\ \A g \in Harts \ {t} : granted'[g] = granted[g]
        /\ call'[h] = [hartid |-> t, addr |-> addr, opaque |-> opaque]
        /\ \A g \in Harts \ {h} : call'[g] = call[g] /\ pc'[g] = pc[g]
        /\ pc'[h] = "writeaddr" /\ pc[h] = "smode"
    BY <1>0, <1>a DEF HsmTypes
  <2>2. calling(c, t)' /\ c[1] = h
    BY <2>1 DEF calling
  <2>3. \A g \in Harts : \A d \in granted[g] :
          d[1] \in Harts /\ (calling(d, g) => calling(d, g)' /\ pc'[d[1]] = pc[d[1]])
    BY <2>1 DEF HsmTypes, Grants, calling
  <2>4. \A g \in Harts : pc'[g] \in Calling =>
          call'[g] \in CallType /\ <<g, call'[g].opaque, call'[g].addr>> \in granted'[call'[g].hartid]
    <3> SUFFICES ASSUME NEW g \in Harts, pc'[g] \in Calling
                 PROVE  /\ call'[g] \in CallType
                        /\ <<g, call'[g].opaque, call'[g].addr>> \in granted'[call'[g].hartid]
      OBVIOUS
    <3>1. CASE g = h
      BY <2>1, <3>1 DEF CallType
    <3>2. CASE g # h
      <4>1. call[g] \in CallType /\ <<g, call[g].opaque, call[g].addr>> \in granted[call[g].hartid]
        BY <2>1, <3>2 DEF Written
      <4>2. call[g].hartid \in Harts /\ call[g].hartid # t
        BY <1>a, <4>1 DEF CallType
      <4>3. QED
        BY <2>1, <3>2, <4>1, <4>2
    <3>3. QED
      BY <3>1, <3>2
  <2>5. \A g \in Harts : \A d \in granted'[g] :
          /\ nextArg1'[g] = d[2] \/ calling(d, g)'
          /\ nextAddr'[g] = d[3] \/ (calling(d, g)' /\ pc'[d[1]] = "writeaddr")
    <3> SUFFICES ASSUME NEW g \in Harts, NEW d \in granted'[g]
                 PROVE  /\ nextArg1'[g] = d[2] \/ calling(d, g)'
                        /\ nextAddr'[g] = d[3] \/ (calling(d, g)' /\ pc'[d[1]] = "writeaddr")
      OBVIOUS
    <3> HIDE DEF c
    <3>1. CASE g = t
      BY <2>1, <2>2, <3>1
    <3>2. CASE g # t
      BY <1>0, <2>1, <2>3, <3>2, ZenonT(60) DEF Written
    <3>3. QED
      BY <3>1, <3>2
  <2>6. counted \subseteq Harts
    BY DEF counted
  <2>7. \A g \in Harts : nextAddr'[g] # NULL /\ (granted'[g] = {} => nextArg1'[g] = Fdt /\ nextAddr'[g] = Payload)
    <3> HIDE DEF c
    <3>1. QED
      BY <1>0, <1>a, <2>1 DEF Written
  <2>8. QED
    BY <1>b, <2>4, <2>5, <2>7 DEF Written
<1>7. QED
  BY <1>1, <1>2, <1>3, <1>4, <1>5, <1>6 DEF HsmInv

(* An interrupt between harts keeps the invariant.                         *)
LEMMA IpiActionStep ==
  ASSUME HsmInv, NEW h \in Harts, ipiAction(h), UNCHANGED hsmVars
  PROVE  HsmInv'
<1> HsmTypes /\ Election /\ Progress /\ Gathered /\ Granted /\ Written
  BY DEF HsmInv
<1>0. PICK l \in Labels : pc' = [pc EXCEPT ![h] = l] /\ pc[h] \in Labels /\ hartMask' = hartMask
  BY IpiMoves
<1>1. HsmTypes'
  BY <1>0 DEF HsmTypes, States
<1>2. Election'
  BY <1>0 DEF HsmTypes, Election
<1>3. Progress'
  BY <1>0 DEF HsmTypes, Election, Progress, Gathered, counted, left
<1>4. Gathered'
  BY <1>0 DEF HsmTypes, Gathered, counted, left
<1>5. Granted'
  BY <1>0 DEF HsmTypes, Election, Progress, Gathered, Granted, counted, left
<1>6. Written'
  BY <1>0, KeepWritten DEF HsmTypes
<1>7. QED
  BY <1>1, <1>2, <1>3, <1>4, <1>5, <1>6 DEF HsmInv

(* A refused hsm_hartStart changes nothing.                                  *)
LEMMA StartRefused ==
  ASSUME HsmInv, NEW h \in Harts, start(h), state' = state
  PROVE  UNCHANGED sbiVars
<1>1. PICK t \in 0..HartCount, addr \in StartAddrs, opaque \in Opaques :
        hsm_hartStart(h, t, addr, opaque)
  BY DEF start
<1>2. ~(t < HartCount /\ state[t] = "STOPPED" /\ state' = [state EXCEPT ![t] = "START_PENDING"])
  BY SbiIpiAssumption DEF HsmInv, HsmTypes, Harts
<1>3. QED
  BY <1>1, <1>2 DEF hsm_hartStart

(* Reset establishes the invariant.                                          *)
LEMMA IInvInit == HsmInit => HsmInv
<1> SUFFICES ASSUME HsmInit PROVE HsmInv
  OBVIOUS
<1>1. counted = {} /\ left = {}
  BY DEF HsmInit, counted, left
<1>2. Gathered
  BY <1>1, FS_EmptySet DEF HsmInit, Gathered
<1>3. HsmTypes /\ Election /\ Progress
  BY DEF HsmInit, HsmTypes, Election, Progress
<1>4. Granted /\ Written
  BY <1>1 DEF HsmInit, Granted, Written
<1>5. QED
  BY <1>2, <1>3, <1>4 DEF HsmInv

(* A step that changes nothing the invariant speaks of keeps it.             *)
LEMMA KeptHsmInv ==
  ASSUME HsmInv, UNCHANGED <<hartMask, pc, hsmVars>>
  PROVE  HsmInv'
BY DEF HsmInv, HsmTypes, Election, Progress, Gathered, Granted, Written, calling, counted, left

(* Every step of HsmNext preserves the invariant.                            *)
LEMMA IInvStep == HsmInv /\ [HsmNext]_sbiVars => HsmInv'
<1> SUFFICES ASSUME HsmInv, [HsmNext]_sbiVars PROVE HsmInv'
  OBVIOUS
<1>1. CASE UNCHANGED sbiVars
  BY <1>1, KeptHsmInv DEF sbiVars, ipiVars
<1>2. CASE HsmNext
  <2>1. PICK h \in Harts :
          \/ hsmStep(h) \/ start(h) \/ wakeSpurious(h)
          \/ ipiAction(h) /\ UNCHANGED hsmVars
    BY <1>2 DEF HsmNext, ipiAction
  <2>2. CASE hsmStep(h) \/ wakeSpurious(h)
    BY <2>2, ElectStep, ClearBssStep, SetBootHartStep, SetBootReadyStep, WaitBootHartStep,
       MarkHartStep, ScratchInitStep, InitStep, GatherStep, HartWaitStep, WakeStep,
       StartJumpStep, ReadStep, WriteAddrStep, WriteArgStep DEF hsmStep
  <2>3. CASE start(h)
    <3>1. CASE state' = state
      <4>1. UNCHANGED sbiVars
        BY <2>3, <3>1, StartRefused
      <4>2. QED
        BY <4>1, KeptHsmInv DEF sbiVars, ipiVars
    <3>2. CASE state' # state
      BY <2>3, <3>2, StartStep
    <3>3. QED
      BY <3>1, <3>2
  <2>4. CASE ipiAction(h) /\ UNCHANGED hsmVars
    BY <2>4, IpiActionStep
  <2>5. QED
    BY <2>1, <2>2, <2>3, <2>4
<1>3. QED
  BY <1>1, <1>2

(* The phases of the boot are kept by every step of every hart.              *)
LEMMA InvariantHolds == HsmSpec => []HsmInv
BY IInvInit, IInvStep, PTL DEF HsmSpec

(* "This should never happen" (hsm.c:80) never does: for every number of     *)
(* harts, calls and interrupts, hsm_hartStartJump finds START_PENDING.       *)
THEOREM NoHartHalts == HsmSpec => []NeverHalts
<1>1. HsmInv => NeverHalts
  BY DEF HsmInv, HsmTypes, NeverHalts
<1>2. QED
  BY <1>1, InvariantHolds, PTL

(* For every number of harts, none runs supervisor code before all of them   *)
(* have gone through _start and have their data, and none that was not       *)
(* started.                                                                  *)
THEOREM BootComplete == HsmSpec => []AllHartsBooted
<1>1. HsmInv => AllHartsBooted
  <2> SUFFICES ASSUME HsmInv, NEW g \in Harts, running(g) PROVE AllHartsBooted
    BY DEF AllHartsBooted
  <2>1. left # {}
    BY DEF left, running
  <2>2. counted = Harts
    BY <2>1 DEF HsmInv, Gathered
  <2>3. \A h \in Harts : pc[h] \in HsmLabels /\ pc[h] \notin Booting
    BY <2>2 DEF HsmInv, HsmTypes, counted
  <2>4. QED
    BY <2>3 DEF HsmInv, HsmTypes, Progress, AllHartsBooted, running
<1>2. QED
  BY <1>1, InvariantHolds, PTL

(* Of any number of harts that start the same hart at once, one is granted   *)
(* the call; the boot hart is never started again.                           *)
THEOREM OneStart == HsmSpec => []StartedOnce
<1>1. HsmInv => StartedOnce
  <2> SUFFICES ASSUME HsmInv, NEW h \in Harts
               PROVE  Cardinality(granted[h]) <= 1 /\ (h = bootHartId => granted[h] = {})
    BY DEF StartedOnce
  <2>1. CASE granted[h] = {}
    BY <2>1, FS_EmptySet
  <2>2. CASE granted[h] # {}
    <3>1. PICK c \in granted[h] : granted[h] = {c}
      BY <2>2 DEF HsmInv, Granted
    <3>2. Cardinality(granted[h]) = 1
      BY <3>1, FS_Singleton
    <3>3. QED
      BY <2>2, <3>2 DEF HsmInv, Granted
  <2>3. QED
    BY <2>1, <2>2
<1>2. QED
  BY <1>1, InvariantHolds, PTL

(* A hart enters supervisor mode with the argument and at the address of the *)
(* call that started it, and the boot hart with those of the payload, unless *)
(* it reads before that call has written them (hsm.c:52).                    *)
THEOREM StartAddress == HsmSpec => StartsWhereAsked
<1> DEFINE A == \A h \in Harts : entry'[h] # entry[h] =>
       LET part == IF entry'[h][2] = NULL THEN 1 ELSE 2
       IN \/ h = bootHartId /\ entry'[h][part] = <<Fdt, Payload>>[part]
          \/ \E c \in granted[h] : entry'[h][part] = c[part + 1]
          \/ \E b \in Harts : /\ pc[b] = "writeaddr" \/ (pc[b] = "writearg" /\ part = 1)
                              /\ call[b].hartid = h
<1>1. HsmInv /\ [HsmNext]_sbiVars => [A]_sbiVars
  <2> SUFFICES ASSUME HsmInv, [HsmNext]_sbiVars, NEW h \in Harts, entry'[h] # entry[h]
               PROVE  LET part == IF entry'[h][2] = NULL THEN 1 ELSE 2
                      IN \/ h = bootHartId /\ entry'[h][part] = <<Fdt, Payload>>[part]
                         \/ \E c \in granted[h] : entry'[h][part] = c[part + 1]
                         \/ \E b \in Harts : /\ \/ pc[b] = "writeaddr"
                                                \/ pc[b] = "writearg" /\ part = 1
                                             /\ call[b].hartid = h
    OBVIOUS
  <2>1. readArg(h) \/ hart_changeMode(h)
    <3>1. PICK g \in Harts : readArg(g) \/ hart_changeMode(g)
      BY DEF sbiVars, ipiVars, HsmNext, hsmStep, elect, clearBss, setBootHart, setBootReady,
             waitBootHart, markHart, sbi_scratchInit, hsm_init, gatherHarts, hsm_hartWait, wake,
             wakeSpurious, hsm_hartStartJump, writeAddr, writeArg, start, hsm_hartStart
    <3>2. g = h
      BY <3>1 DEF readArg, hart_changeMode, HsmInv, HsmTypes
    <3>3. QED
      BY <3>1, <3>2
  <2>2. h \in counted /\ state[h] = "STARTED"
    BY <2>1 DEF readArg, hart_changeMode, counted, HsmInv, Progress
  <2>3. /\ nextAddr[h] # NULL
        /\ granted[h] = {} => h = bootHartId /\ nextArg1[h] = Fdt /\ nextAddr[h] = Payload
    BY <2>2 DEF HsmInv, Granted, Written
  <2>4. \A c \in granted[h] :
          /\ c[1] \in Harts
          /\ nextArg1[h] = c[2] \/ (pc[c[1]] \in Calling /\ call[c[1]].hartid = h)
          /\ nextAddr[h] = c[3] \/ (pc[c[1]] = "writeaddr" /\ call[c[1]].hartid = h)
    <3>1. \A c \in granted[h] : c[1] \in Harts
      BY DEF HsmInv, HsmTypes, Grants
    <3>2. \A c \in granted[h] : calling(c, h) => pc[c[1]] \in Calling /\ call[c[1]].hartid = h
      BY DEF calling
    <3>3. QED
      BY <3>1, <3>2 DEF HsmInv, Written
  <2>5. CASE readArg(h)
    <3>1. entry'[h] = <<nextArg1[h], NULL>>
      BY <2>5 DEF readArg, HsmInv, HsmTypes
    <3>2. entry'[h][2] = NULL /\ entry'[h][1] = nextArg1[h]
      BY <3>1
    <3>3. CASE granted[h] = {}
      BY <2>3, <3>2, <3>3
    <3>4. CASE granted[h] # {}
      BY <2>4, <3>2, <3>4
    <3>5. QED
      BY <3>3, <3>4
  <2>6. CASE hart_changeMode(h)
    <3>1. entry'[h] = <<entry[h][1], nextAddr[h]>>
      BY <2>6 DEF hart_changeMode, HsmInv, HsmTypes
    <3>2. entry'[h][2] # NULL /\ entry'[h][2] = nextAddr[h]
      BY <2>3, <3>1
    <3>3. CASE granted[h] = {}
      BY <2>3, <3>2, <3>3
    <3>4. CASE granted[h] # {}
      BY <2>4, <3>2, <3>4
    <3>5. QED
      BY <3>3, <3>4
  <2>7. QED
    BY <2>1, <2>5, <2>6
<1>2. QED
  BY <1>1, InvariantHolds, PTL DEF StartsWhereAsked, HsmSpec
=============================================================================
