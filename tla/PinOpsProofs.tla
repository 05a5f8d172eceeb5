---------------------------- MODULE PinOpsProofs ----------------------------
(***************************************************************************)
(* What holds of PinOps for every set of writes, slots and names, every    *)
(* number of reloads, and every reserved_slots a user can store: the       *)
(* records, what a failed or late write leaves, then the order of the      *)
(* writes to a slot and what it means for the slot as stored.              *)
(***************************************************************************)
EXTENDS PinOps, TLAPS

(* A delivered write leaves a complete record, whatever was stored before. *)
LEMMA WrittenIsRecord ==
  ASSUME NEW r \in Request, NEW record \in SlotRecord \cup {Absent}
  PROVE  Written(r, record) \in SlotRecord
<1>1. r.name \in Names /\ r.kind \in {"set_pin", "clear_pin", "clear_slot"}
  BY NamesAssumption DEF Request
<1>2. (IF record = Absent THEN DefaultSlot ELSE record) \in SlotRecord
  BY NamesAssumption DEF SlotRecord, DefaultSlot
<1>3. CASE r.kind = "set_pin"
  BY <1>1, <1>3 DEF Written, SlotRecord
<1>4. CASE r.kind = "clear_pin"
  BY <1>1, <1>2, <1>4 DEF Written, SlotRecord
<1>5. CASE r.kind = "clear_slot"
  BY <1>1, <1>5, NamesAssumption DEF Written, SlotRecord, DefaultSlot
<1>6. QED
  BY <1>1, <1>3, <1>4, <1>5

(* The floor is at least 1, for a hand-edited value too. *)
LEMMA FloorProtectsMaster ==
  ASSUME NEW v \in Int \cup {NotANumber}
  PROVE  FirstUserSlot(v) \in Int /\ FirstUserSlot(v) >= 1
BY NotANumberAssumption
   DEF FirstUserSlot, Larger, Smaller, RESERVED_SLOTS_MIN, RESERVED_SLOTS_MAX, SLOT_FIRST_USER

-----------------------------------------------------------------------------
(***************************************************************************)
(* Type correctness.  A command is on its way, or its answer, only for a   *)
(* write that waits for it, and only a write that was asked for leaves one *)
(* behind: without that, what the lock executes could be anything.         *)
(***************************************************************************)
CommandsKnown ==
  /\ \A o \in Ops : radio[o] # "idle" => pc[o] = "sending"
  /\ \A o \in stray : pc[o] # "new"

TInv == TypeOK /\ CommandsKnown

LEMMA InitTInv == Init => TInv
<1> SUFFICES ASSUME Init PROVE TInv
  OBVIOUS
<1>1. 1 \in Coordinators /\ 0 \in 0..MaxLoads /\ 1 \in 0..MaxLoads
  BY LoadsAssumption DEF Coordinators
<1>2. stored \in SlotMap
  BY DEF Init, SlotMap
<1>3. view \in [Coordinators -> SlotMap]
  BY <1>2 DEF Init
<1>4. /\ pinLock \in [Coordinators -> Ops \cup {NoOp}]
      /\ codes \in [Slots -> Ops \cup {NoOp}] /\ executed \in [Slots -> Ops \cup {NoOp}]
  BY DEF Init
<1>5. /\ pc \in [Ops -> Live \cup {"new", "done"}]
      /\ \A o \in Ops : pc[o] = "new" /\ radio[o] = "idle"
      /\ request \in [Ops -> Request \cup {NoOp}]
      /\ outcome \in [Ops -> Outcomes]
  BY DEF Init, Outcomes
<1>6. /\ on \in [Ops -> 0..MaxLoads] /\ attempt \in [Ops -> 0..2]
      /\ radio \in [Ops -> {"idle", "air", "accepted", "refused"}]
      /\ stray \subseteq Ops
  BY <1>1 DEF Init
<1>7. TypeOK
  BY <1>1, <1>2, <1>3, <1>4, <1>5, <1>6 DEF Init, TypeOK
<1>8. CommandsKnown
  BY <1>5 DEF Init, CommandsKnown
<1>9. QED
  BY <1>7, <1>8 DEF TInv

(* Giving up on commands leaves one behind only for a write that waited. *)
LEMMA GiveUpTInv ==
  ASSUME TInv, NEW os \in SUBSET Ops, GiveUp(os)
  PROVE  /\ radio' \in [Ops -> {"idle", "air", "accepted", "refused"}]
         /\ stray' \subseteq Ops
         /\ \A o \in os : radio'[o] = "idle"
         /\ \A o \in Ops : radio'[o] # "idle" => o \notin os /\ radio'[o] = radio[o]
         /\ \A o \in stray' : o \in stray \/ (o \in os /\ pc[o] = "sending")
BY DEF TInv, TypeOK, CommandsKnown, GiveUp

LEMMA FinishTInv ==
  ASSUME TInv, NEW o \in Ops, NEW how \in Outcomes, Finish(o, how)
  PROVE  /\ pc' = [pc EXCEPT ![o] = "done"]
         /\ pc' \in [Ops -> Live \cup {"new", "done"}]
         /\ outcome' \in [Ops -> Outcomes]
         /\ pinLock' \in [Coordinators -> Ops \cup {NoOp}]
         /\ UNCHANGED <<request, on, attempt>>
BY DEF TInv, TypeOK, Finish

LEMMA ExecuteTypeOK ==
  ASSUME TInv, NEW o \in Ops, pc[o] # "new", Execute(o)
  PROVE  /\ codes' \in [Slots -> Ops \cup {NoOp}]
         /\ executed' \in [Slots -> Ops \cup {NoOp}]
BY DEF TInv, TypeOK, Execute

LEMMA SaveTypeOK ==
  ASSUME TInv, NEW g, NEW slots \in SlotMap, SaveSlots(g, slots)
  PROVE  /\ stored' \in SlotMap
         /\ view' \in [Coordinators -> SlotMap]
         /\ UNCHANGED <<reserved, caps>>
BY DEF TInv, TypeOK, SaveSlots

LEMMA BeginTInv ==
  ASSUME TInv, NEW o \in Ops, NEW g \in Coordinators, Begin(o, g)
  PROVE  /\ pc' \in [Ops -> Live \cup {"new", "done"}]
         /\ \A p \in Ops : p # o => pc'[p] = pc[p] /\ radio'[p] = radio[p]
         /\ pc'[o] \in {"sending", "done"}
         /\ outcome' \in [Ops -> Outcomes]
         /\ attempt' \in [Ops -> 0..2]
         /\ pinLock' \in [Coordinators -> Ops \cup {NoOp}]
         /\ radio' \in [Ops -> {"idle", "air", "accepted", "refused"}]
         /\ radio'[o] # "idle" => pc'[o] = "sending" \/ radio'[o] = radio[o]
         /\ stray' \subseteq stray
<1>1. CASE pc' = [pc EXCEPT ![o] = "sending"] /\ Transmit(o)
           /\ pinLock' = [pinLock EXCEPT ![g] = o]
           /\ attempt' = [attempt EXCEPT ![o] = 1] /\ outcome' = outcome
  BY <1>1 DEF TInv, TypeOK, Live, Outcomes, Transmit
<1>2. CASE pc' = [pc EXCEPT ![o] = "done"]
           /\ outcome' = [outcome EXCEPT ![o] = "unreached"]
           /\ UNCHANGED <<pinLock, attempt, radio, stray>>
  BY <1>2 DEF TInv, TypeOK, Live, Outcomes
<1>3. QED
  BY <1>1, <1>2 DEF Begin

(* One step per action; each disturbs only the conjuncts it is about. *)
LEMMA NextTInv == TInv /\ [Next]_vars => TInv'
<1> SUFFICES ASSUME TInv, [Next]_vars PROVE TInv'
  OBVIOUS
<1> USE DEF entryVars, coordVars, opVars, radioVars
<1>1. ASSUME NEW o \in Ops, NEW r \in Request, Ask(o, r) PROVE TInv'
  <2>1. current \in Coordinators /\ current \in 0..MaxLoads
    BY <1>1, LoadsAssumption DEF Ask, TInv, TypeOK, Coordinators
  <2>2. /\ request' \in [Ops -> Request \cup {NoOp}] /\ on' \in [Ops -> 0..MaxLoads]
        /\ \A p \in Ops : p # o => request'[p] = request[p] /\ on'[p] = on[p]
        /\ request'[o] = r /\ on'[o] = current
    BY <1>1, <2>1 DEF Ask, TInv, TypeOK
  <2>3. CASE Begin(o, current)
    <3>1. TypeOK'
      BY <1>1, <2>1, <2>2, <2>3, BeginTInv DEF Ask, TInv, TypeOK
    <3>2. CommandsKnown'
      BY <1>1, <2>1, <2>3, BeginTInv DEF Ask, TInv, TypeOK, CommandsKnown
    <3>3. QED
      BY <3>1, <3>2 DEF TInv
  <2>4. CASE /\ pc' = [pc EXCEPT ![o] = "waiting"]
             /\ UNCHANGED <<pinLock, attempt, outcome, radio, stray>>
    BY <1>1, <2>1, <2>2, <2>4 DEF Ask, TInv, TypeOK, CommandsKnown, Live
  <2>5. QED
    BY <1>1, <2>3, <2>4 DEF Ask
<1>2. ASSUME NEW o \in Ops, Acquire(o) PROVE TInv'
  <2>1. on[o] \in Coordinators /\ request[o] \in Request
    BY <1>2 DEF Acquire, TInv, TypeOK
  <2>2. TypeOK'
    BY <1>2, <2>1, BeginTInv DEF Acquire, TInv, TypeOK
  <2>3. CommandsKnown'
    BY <1>2, <2>1, BeginTInv DEF Acquire, TInv, TypeOK, CommandsKnown
  <2>4. QED
    BY <2>2, <2>3 DEF TInv
<1>3. ASSUME NEW o \in Ops, LockExecutes(o) PROVE TInv'
  <2>1. pc[o] = "sending"
    BY <1>3 DEF LockExecutes, TInv, CommandsKnown
  <2>2. QED
    BY <1>3, <2>1, ExecuteTypeOK DEF LockExecutes, TInv, TypeOK, CommandsKnown
<1>4. ASSUME NEW o \in Ops, LockRefuses(o) PROVE TInv'
  BY <1>4 DEF LockRefuses, TInv, TypeOK, CommandsKnown
<1>5. ASSUME NEW o \in Ops, StrayExecutes(o) PROVE TInv'
  <2>1. pc[o] # "new"
    BY <1>5 DEF StrayExecutes, TInv, CommandsKnown
  <2>2. QED
    BY <1>5, <2>1, ExecuteTypeOK DEF StrayExecutes, TInv, TypeOK, CommandsKnown
<1>6. ASSUME NEW o \in Ops, AnswerArrives(o) PROVE TInv'
  <2> DEFINE slots == [LoadSlots(on[o]) EXCEPT ![request[o].slot] =
                         Written(request[o], LoadSlots(on[o])[request[o].slot])]
  <2>1. pc[o] = "sending" /\ request[o] \in Request /\ request[o].slot \in Slots
    BY <1>6 DEF AnswerArrives, TInv, TypeOK, Request
  <2>2. slots \in SlotMap
    BY <2>1, WrittenIsRecord DEF LoadSlots, TInv, TypeOK, SlotMap
  <2>3. ASSUME NEW how \in Outcomes, Finish(o, how),
               SaveSlots(on[o], slots) \/ UNCHANGED <<entryVars, view>>
        PROVE  TInv'
    <3>1. stored' \in SlotMap /\ view' \in [Coordinators -> SlotMap] /\ UNCHANGED <<reserved, caps>>
      BY <2>2, <2>3, SaveTypeOK DEF TInv, TypeOK
    <3>2. QED
      BY <1>6, <2>1, <2>3, <3>1, FinishTInv DEF AnswerArrives, TInv, TypeOK, CommandsKnown
  <2>4. QED
    BY <1>6, <2>3 DEF AnswerArrives, Deliver, Outcomes
<1>7. ASSUME NEW o \in Ops, AnswerMissing(o) PROVE TInv'
  <2>1. CASE attempt[o] = 2 /\ Finish(o, "unreached")
    BY <1>7, <2>1, GiveUpTInv, FinishTInv DEF AnswerMissing, TInv, TypeOK, CommandsKnown, Outcomes
  <2>2. CASE pc' = [pc EXCEPT ![o] = "waking"]
             /\ UNCHANGED <<pinLock, request, on, attempt, outcome>>
    BY <1>7, <2>2, GiveUpTInv DEF AnswerMissing, TInv, TypeOK, CommandsKnown, Live
  <2>3. QED
    BY <1>7, <2>1, <2>2 DEF AnswerMissing
<1>8. ASSUME NEW o \in Ops, SendFails(o) PROVE TInv'
  BY <1>8, GiveUpTInv, FinishTInv DEF SendFails, TInv, TypeOK, CommandsKnown, Outcomes
<1>9. ASSUME NEW o \in Ops, Woken(o) PROVE TInv'
  BY <1>9 DEF Woken, Transmit, TInv, TypeOK, CommandsKnown, Live
<1>10. ASSUME NEW o \in Ops, Cancel(o) PROVE TInv'
  BY <1>10, GiveUpTInv, FinishTInv DEF Cancel, TInv, TypeOK, CommandsKnown, Outcomes, Live
<1>11. ASSUME NEW s \in Slots, NEW n \in Names, SetSlotName(s, n) PROVE TInv'
  <2> DEFINE kept  == IF stored[s] = Absent THEN DefaultSlot ELSE stored[s]
             named == [kept EXCEPT !.name = n]
             slots == [stored EXCEPT ![s] = IF named = DefaultSlot THEN Absent ELSE named]
  <2>1. kept \in SlotRecord
    BY NamesAssumption DEF TInv, TypeOK, SlotMap, SlotRecord, DefaultSlot
  <2>2. named \in SlotRecord
    BY <2>1 DEF SlotRecord
  <2>3. slots \in SlotMap
    BY <2>2 DEF TInv, TypeOK, SlotMap
  <2>4. SaveSlots(current, slots)
    BY <1>11 DEF SetSlotName, LoadSlots
  <2>5. QED
    BY <1>11, <2>3, <2>4, SaveTypeOK DEF SetSlotName, TInv, TypeOK, CommandsKnown
<1>12. ASSUME NEW r \in ReservedChoices, SettingsStep(r) PROVE TInv'
  BY <1>12, ReservedAssumption DEF SettingsStep, TInv, TypeOK, CommandsKnown
<1>13. ASSUME RefreshCapabilities PROVE TInv'
  BY <1>13 DEF RefreshCapabilities, TInv, TypeOK, CommandsKnown
<1>14. ASSUME Unload PROVE TInv'
  BY <1>14, LoadsAssumption DEF Unload, TInv, TypeOK, CommandsKnown
<1>15. ASSUME Build PROVE TInv'
  <2>1. loads + 1 \in Coordinators /\ loads + 1 \in 0..MaxLoads /\ 0 \in 0..MaxLoads
    BY <1>15, LoadsAssumption DEF Build, TInv, TypeOK, Coordinators
  <2>2. view' \in [Coordinators -> SlotMap]
    BY <1>15, <2>1 DEF Build, TInv, TypeOK
  <2>3. QED
    BY <1>15, <2>1, <2>2 DEF Build, TInv, TypeOK, CommandsKnown
<1>16. ASSUME Publish PROVE TInv'
  BY <1>16, LoadsAssumption DEF Publish, TInv, TypeOK, CommandsKnown
<1>17. ASSUME Restart PROVE TInv'
  <2>1. 0 \in 0..MaxLoads
    BY LoadsAssumption
  <2>2. /\ pc' \in [Ops -> Live \cup {"new", "done"}] /\ outcome' \in [Ops -> Outcomes]
        /\ pinLock' \in [Coordinators -> Ops \cup {NoOp}]
        /\ \A o \in Ops : pc'[o] = "new" <=> pc[o] = "new"
    BY <1>17 DEF Restart, TInv, TypeOK, Live, Outcomes
  <2>3. QED
    BY <1>17, <2>1, <2>2, GiveUpTInv DEF Restart, TInv, TypeOK, CommandsKnown
<1>18. CASE UNCHANGED vars
  BY <1>18 DEF vars, TInv, TypeOK, CommandsKnown
<1>19. QED
  BY <1>1, <1>2, <1>3, <1>4, <1>5, <1>6, <1>7, <1>8, <1>9, <1>10, <1>11, <1>12, <1>13,
     <1>14, <1>15, <1>16, <1>17, <1>18 DEF Next

LEMMA SpecTInv == Spec => []TInv
BY InitTInv, NextTInv, PTL DEF Spec

(* Every variable keeps its shape under every interleaving. *)
THEOREM TypeCorrect == Spec => []TypeOK
<1>1. TInv => TypeOK
  BY DEF TInv
<1>2. QED
  BY <1>1, SpecTInv, PTL
-----------------------------------------------------------------------------
(***************************************************************************)
(* Slot 0.  Every write that was let through is for a slot at or above 1,  *)
(* and the lock executes only commands of such writes.                     *)
(***************************************************************************)
AboveMaster == \A o \in Ops : pc[o] # "new" => request[o].slot >= 1

LEMMA AboveMasterStep == TInv /\ AboveMaster /\ [Next]_vars => AboveMaster'
<1> SUFFICES ASSUME TInv, AboveMaster, [Next]_vars PROVE AboveMaster'
  OBVIOUS
<1> USE DEF opVars
<1>1. ASSUME NEW o \in Ops, NEW r \in Request, Ask(o, r) PROVE AboveMaster'
  <2>1. Floor \in Int /\ Floor >= 1 /\ r.slot \in Int
    BY FloorProtectsMaster, ReservedAssumption, SlotsAssumption DEF Floor, TInv, TypeOK, Request
  <2>2. request'[o].slot >= 1 /\ \A p \in Ops : p # o => request'[p] = request[p]
    BY <1>1, <2>1 DEF Ask, TInv, TypeOK
  <2>3. \A p \in Ops : p # o => pc'[p] = pc[p]
    BY <1>1 DEF Ask, Begin, TInv, TypeOK
  <2>4. QED
    BY <2>2, <2>3 DEF AboveMaster
<1>2. ASSUME NEW o \in Ops, Acquire(o) PROVE AboveMaster'
  BY <1>2 DEF Acquire, Begin, AboveMaster, TInv, TypeOK
<1>3. ASSUME NEW o \in Ops, LockExecutes(o) \/ LockRefuses(o) \/ StrayExecutes(o) PROVE AboveMaster'
  BY <1>3 DEF LockExecutes, LockRefuses, StrayExecutes, AboveMaster
<1>4. ASSUME NEW o \in Ops, AnswerArrives(o) \/ AnswerMissing(o) \/ SendFails(o)
      PROVE  AboveMaster'
  BY <1>4 DEF AnswerArrives, AnswerMissing, SendFails, Deliver, Finish, AboveMaster, TInv, TypeOK
<1>5. ASSUME NEW o \in Ops, Woken(o) \/ Cancel(o) PROVE AboveMaster'
  BY <1>5 DEF Woken, Cancel, Finish, AboveMaster, TInv, TypeOK, Live
<1>6. ASSUME NEW s \in Slots, NEW n \in Names, SetSlotName(s, n) PROVE AboveMaster'
  BY <1>6 DEF SetSlotName, AboveMaster
<1>7. ASSUME NEW r \in ReservedChoices, SettingsStep(r) PROVE AboveMaster'
  BY <1>7 DEF SettingsStep, AboveMaster
<1>8. CASE RefreshCapabilities \/ Unload \/ Build \/ Publish
  BY <1>8 DEF RefreshCapabilities, Unload, Build, Publish, AboveMaster
<1>9. CASE Restart
  BY <1>9 DEF Restart, AboveMaster, Live
<1>10. CASE UNCHANGED vars
  BY <1>10 DEF vars, AboveMaster
<1>11. QED
  BY <1>1, <1>2, <1>3, <1>4, <1>5, <1>6, <1>7, <1>8, <1>9, <1>10 DEF Next

(* Whatever a step does, it changes what the lock holds only by executing  *)
(* the command of one write.                                               *)
LEMMA OnlyExecuteChangesLock ==
  ASSUME TInv, [Next]_vars
  PROVE  \/ UNCHANGED <<codes, executed>>
         \/ \E o \in Ops : pc[o] # "new" /\ Execute(o)
<1> USE DEF radioVars
<1>1. ASSUME NEW o \in Ops, LockExecutes(o) \/ StrayExecutes(o)
      PROVE  pc[o] # "new" /\ Execute(o)
  BY <1>1 DEF LockExecutes, StrayExecutes, TInv, CommandsKnown
<1>2. QED
  BY <1>1 DEF Next, vars, Ask, Acquire, LockRefuses, AnswerArrives, AnswerMissing, SendFails,
         Woken, Cancel, SetSlotName, SettingsStep, RefreshCapabilities, Unload, Build, Publish,
         Restart

(* Slot 0 of the lock is never written, whatever reserved_slots holds. *)
THEOREM MasterNeverWritten == Spec => MasterUntouched
<1>1. Init => AboveMaster
  BY DEF Init, AboveMaster
<1>2. Spec => []AboveMaster
  BY <1>1, AboveMasterStep, SpecTInv, PTL DEF Spec
<1>3. TInv /\ AboveMaster /\ [Next]_vars
        => [0 \in Slots => codes'[0] = codes[0] /\ executed'[0] = executed[0]]_vars
  <2> SUFFICES ASSUME TInv, AboveMaster, [Next]_vars, 0 \in Slots
               PROVE  codes'[0] = codes[0] /\ executed'[0] = executed[0]
    OBVIOUS
  <2>1. ASSUME NEW o \in Ops, pc[o] # "new", Execute(o)
        PROVE  codes'[0] = codes[0] /\ executed'[0] = executed[0]
    BY <2>1 DEF AboveMaster, Execute, TInv, TypeOK
  <2>2. QED
    BY <2>1, OnlyExecuteChangesLock
<1>4. QED
  BY <1>2, <1>3, SpecTInv, PTL DEF Spec, MasterUntouched
-----------------------------------------------------------------------------
(***************************************************************************)
(* The coordinator the sensors read.  Without a wait between construction  *)
(* and runtime_data there is no coordinator a save can miss.               *)
(***************************************************************************)
ViewInv == building = 0 /\ ViewIsCurrent

LEMMA ViewInvStep == StringsCached /\ TInv /\ ViewInv /\ [Next]_vars => ViewInv'
<1> SUFFICES ASSUME StringsCached, TInv, ViewInv, [Next]_vars PROVE ViewInv'
  OBVIOUS
<1> USE DEF ViewInv, ViewIsCurrent, coordVars, entryVars
<1>1. ASSUME NEW g, NEW slots, SaveSlots(g, slots), UNCHANGED coordVars PROVE ViewInv'
  BY <1>1 DEF SaveSlots, TInv, TypeOK, Coordinators
<1>2. ASSUME NEW o \in Ops, AnswerArrives(o) PROVE ViewInv'
  BY <1>1, <1>2 DEF AnswerArrives, Deliver
<1>3. ASSUME NEW s \in Slots, NEW n \in Names, SetSlotName(s, n) PROVE ViewInv'
  BY <1>1, <1>3 DEF SetSlotName
<1>4. CASE Build
  BY <1>4, LoadsAssumption DEF Build, TInv, TypeOK, Coordinators
<1>5. CASE UNCHANGED <<stored, view, coordVars>>
  BY <1>5
<1>6. CASE Unload \/ Publish \/ Restart
  BY <1>6 DEF Unload, Publish, Restart
<1>7. QED
  BY <1>2, <1>3, <1>4, <1>5, <1>6
     DEF Next, vars, Ask, Acquire, LockExecutes, LockRefuses, StrayExecutes, AnswerMissing,
         SendFails, Woken, Cancel, SettingsStep, RefreshCapabilities

(* With the strings in the cache, the coordinator the sensors read shows   *)
(* every save, whichever coordinator made it.                              *)
THEOREM ViewStaysCurrent == StringsCached => (Spec => []ViewIsCurrent)
<1>1. Init => ViewInv
  BY LoadsAssumption DEF Init, ViewInv, ViewIsCurrent, Coordinators
<1>2. ViewInv => ViewIsCurrent
  BY DEF ViewInv
<1> SUFFICES ASSUME StringsCached PROVE Spec => []ViewIsCurrent
  OBVIOUS
<1>3. TInv /\ ViewInv /\ [Next]_vars => ViewInv'
  BY ViewInvStep
<1>4. QED
  BY <1>1, <1>2, <1>3, SpecTInv, PTL DEF Spec
-----------------------------------------------------------------------------
(***************************************************************************)
(* The options are one store.  A coordinator writes back the slots it just *)
(* took over, so each write is a step of SlotStore on one slot; no other   *)
(* step touches what SlotStore is about.                                   *)
(***************************************************************************)

(* A delivered write makes of the slot what SlotStore says it does. *)
LEMMA DeliverRefines ==
  ASSUME TInv, NEW o \in Ops, NEW how, request[o] \in Request, Deliver(o, how)
  PROVE  Store!Next
<1> DEFINE s == request[o].slot
           kept == IF stored[s] = Absent THEN DefaultSlot ELSE stored[s]
<1>1. /\ s \in Slots /\ request[o].name \in Names
      /\ request[o].kind \in {"set_pin", "clear_pin", "clear_slot"}
  BY NamesAssumption DEF Request
<1>2. /\ stored' = [stored EXCEPT ![s] = Written(request[o], stored[s])]
      /\ UNCHANGED <<reserved, caps>>
  BY DEF Deliver, SaveSlots, LoadSlots
<1>3. CASE request[o].kind = "set_pin"
  <2>1. Store!PinSet(s, request[o].name)
    BY <1>2, <1>3 DEF Written, Store!PinSet, Store!Put
  <2>2. QED
    BY <1>1, <2>1 DEF Store!Next
<1>4. CASE request[o].kind = "clear_pin"
  <2>1. kept \in SlotRecord /\ kept.name = Store!NameOf(stored[s])
    BY <1>1, NamesAssumption DEF TInv, TypeOK, SlotMap, SlotRecord, DefaultSlot, Store!NameOf
  <2>2. \A k \in SlotRecord : \A b : [k EXCEPT !.hasPin = b] = [name |-> k.name, hasPin |-> b]
    BY DEF SlotRecord
  <2>3. Written(request[o], stored[s]) = [kept EXCEPT !.hasPin = FALSE]
    BY <1>4 DEF Written
  <2> HIDE DEF kept
  <2>4. Written(request[o], stored[s]) = [name |-> Store!NameOf(stored[s]), hasPin |-> FALSE]
    BY <2>1, <2>2, <2>3
  <2>5. Store!PinCleared(s)
    BY <1>2, <2>4 DEF Store!PinCleared, Store!Put
  <2>6. QED
    BY <1>1, <2>5 DEF Store!Next
<1>5. CASE request[o].kind = "clear_slot"
  <2>1. Store!SlotCleared(s)
    BY <1>2, <1>5 DEF Written, Store!SlotCleared, Store!Put, DefaultSlot, Store!DefaultSlot
  <2>2. QED
    BY <1>1, <2>1 DEF Store!Next
<1>6. QED
  BY <1>1, <1>3, <1>4, <1>5

LEMMA SetSlotNameRefines ==
  ASSUME TInv, NEW s \in Slots, NEW n \in Names, SetSlotName(s, n)
  PROVE  Store!Next
<1> DEFINE kept  == IF stored[s] = Absent THEN DefaultSlot ELSE stored[s]
           named == [kept EXCEPT !.name = n]
<1>1. kept \in SlotRecord /\ (kept.hasPin <=> Store!HasPin(stored[s]))
  BY NamesAssumption DEF TInv, TypeOK, SlotMap, SlotRecord, DefaultSlot, Store!HasPin
<1>2. named = [name |-> n, hasPin |-> kept.hasPin]
  BY <1>1 DEF SlotRecord
<1>3. stored' = [stored EXCEPT ![s] = IF named = DefaultSlot THEN Absent ELSE named]
  BY DEF SetSlotName, LoadSlots, SaveSlots
<1>4. UNCHANGED <<reserved, caps>> /\ (n = NoName => stored[s] # Absent)
  BY DEF SetSlotName, LoadSlots, SaveSlots
<1>a. kept.hasPin \in BOOLEAN /\ (stored[s] # Absent => kept = stored[s])
  BY <1>1 DEF SlotRecord
<1>b. Store!HasPin(stored[s]) \in BOOLEAN
  BY <1>a, <1>1 DEF Store!HasPin
<1>c. kept.hasPin = Store!HasPin(stored[s])
  BY <1>1, <1>a, <1>b
<1> HIDE DEF kept, named
<1>5. CASE n # NoName
  <2>1. named # DefaultSlot
    BY <1>2, <1>5 DEF DefaultSlot
  <2>2. Store!Named(s, n)
    BY <1>2, <1>3, <1>4, <1>5, <1>c, <2>1 DEF Store!Named, Store!Put
  <2>3. QED
    BY <2>2 DEF Store!Next
<1>6. CASE n = NoName /\ kept.hasPin
  <2>1. named # DefaultSlot /\ named = [name |-> NoName, hasPin |-> TRUE]
    BY <1>2, <1>6, <1>a DEF DefaultSlot
  <2>2. stored[s].hasPin
    BY <1>4, <1>6, <1>a
  <2>3. Store!Named(s, n)
    BY <1>3, <1>4, <1>6, <2>1, <2>2 DEF Store!Named, Store!Put
  <2>4. QED
    BY <2>3 DEF Store!Next
<1>7. CASE n = NoName /\ ~kept.hasPin
  <2>1. named = DefaultSlot
    BY <1>2, <1>7, <1>a DEF DefaultSlot
  <2>2. ~stored[s].hasPin
    BY <1>4, <1>7, <1>a
  <2>3. Store!Named(s, n)
    BY <1>3, <1>4, <1>7, <2>1, <2>2 DEF Store!Named, Store!Put
  <2>4. QED
    BY <2>3 DEF Store!Next
<1>8. QED
  BY <1>5, <1>6, <1>7

(* Every interleaving of coordinators, reloads and restarts leaves options *)
(* that one store, written one slot at a time, could hold.                 *)
THEOREM OptionsRefineStore == Spec => OptionsAreOneStore
<1>1. Init => Store!Init
  BY DEF Init, Store!Init
<1>2. TInv /\ [Next]_vars => [Store!Next]_(Store!storeVars)
  <2> SUFFICES ASSUME TInv, [Next]_vars
               PROVE  Store!Next \/ UNCHANGED entryVars
    BY DEF entryVars, Store!storeVars
  <2>1. ASSUME NEW o \in Ops, AnswerArrives(o) PROVE Store!Next \/ UNCHANGED entryVars
    <3>1. request[o] \in Request
      BY <2>1 DEF AnswerArrives, TInv, TypeOK
    <3>2. QED
      BY <2>1, <3>1, DeliverRefines DEF AnswerArrives
  <2>2. ASSUME NEW s \in Slots, NEW n \in Names, SetSlotName(s, n) PROVE Store!Next
    BY <2>2, SetSlotNameRefines
  <2>3. ASSUME NEW r \in ReservedChoices, SettingsStep(r) PROVE Store!Next
    BY <2>3 DEF SettingsStep, Store!ReservedSet, Store!Next
  <2>4. CASE RefreshCapabilities
    BY <2>4 DEF RefreshCapabilities, Store!CapabilitiesStored, Store!Next
  <2>5. CASE UNCHANGED entryVars
    BY <2>5
  <2>6. QED
    BY <2>1, <2>2, <2>3, <2>4, <2>5
       DEF Next, vars, Ask, Acquire, LockExecutes, LockRefuses, StrayExecutes, AnswerMissing,
           SendFails, Woken, Cancel, Unload, Build, Publish, Restart
<1>3. QED
  BY <1>1, <1>2, SpecTInv, PTL DEF Spec, OptionsAreOneStore, Store!Spec
-----------------------------------------------------------------------------
(***************************************************************************)
(* One write at a time.  The _pin_lock of its coordinator is held by the   *)
(* write that is with the lock; a command left behind by another write of  *)
(* that coordinator is gone before this one is sent; and what the lock     *)
(* accepted for a waiting write is still the last thing it executed for    *)
(* the slot, when no other coordinator writes to the slot.                 *)
(***************************************************************************)
LockHeld ==
  \A o \in Ops : pc[o] \in {"sending", "waking"} => pinLock[on[o]] = o

StrayApart ==
  \A o \in stray, p \in Ops : pc[p] = "sending" => on[o] # on[p]

(* What the lock holds for the slot of o once it executed o's command. *)
CodeOf(o) == IF request[o].kind = "set_pin" THEN o ELSE NoOp

AcceptedIsLast ==
  \A o \in Ops :
    LET s == request[o].slot
    IN  pc[o] = "sending" /\ radio[o] = "accepted" /\ OneCoordinator(s)
          => executed[s] = o /\ codes[s] = CodeOf(o)

OrderInv == LockHeld /\ StrayApart /\ AcceptedIsLast

LEMMA OneWriter ==
  ASSUME TInv, LockHeld
  PROVE  OneWriteAtATime
BY DEF LockHeld, OneWriteAtATime, TInv, TypeOK

LEMMA LockHeldStep == TInv /\ LockHeld /\ [Next]_vars => LockHeld'
<1> SUFFICES ASSUME TInv, LockHeld, [Next]_vars PROVE LockHeld'
  OBVIOUS
<1> USE DEF opVars
<1>1. ASSUME NEW o \in Ops, NEW r \in Request, Ask(o, r) PROVE LockHeld'
  <2>1. current \in Coordinators /\ on'[o] = current /\ \A p \in Ops \ {o} : on'[p] = on[p]
    BY <1>1, LoadsAssumption DEF Ask, TInv, TypeOK, Coordinators
  <2>2. CASE pinLock[current] = NoOp /\ Begin(o, current)
    BY <1>1, <2>1, <2>2, OpsAssumption DEF Begin, LockHeld, TInv, TypeOK
  <2>3. CASE pc' = [pc EXCEPT ![o] = "waiting"] /\ UNCHANGED pinLock
    BY <1>1, <2>1, <2>3 DEF LockHeld, TInv, TypeOK
  <2>4. QED
    BY <1>1, <2>2, <2>3 DEF Ask
<1>2. ASSUME NEW o \in Ops, Acquire(o) PROVE LockHeld'
  BY <1>2, OpsAssumption DEF Acquire, Begin, LockHeld, TInv, TypeOK
<1>3. ASSUME NEW o \in Ops, LockExecutes(o) \/ LockRefuses(o) \/ StrayExecutes(o) PROVE LockHeld'
  BY <1>3 DEF LockExecutes, LockRefuses, StrayExecutes, LockHeld
<1>4. ASSUME NEW o \in Ops, NEW how, Finish(o, how) PROVE LockHeld'
  BY <1>4 DEF Finish, LockHeld, TInv, TypeOK
<1>5. ASSUME NEW o \in Ops, AnswerArrives(o) \/ AnswerMissing(o) \/ SendFails(o)
      PROVE  LockHeld'
  BY <1>4, <1>5 DEF AnswerArrives, AnswerMissing, SendFails, Deliver, LockHeld, TInv, TypeOK
<1>6. ASSUME NEW o \in Ops, Woken(o) \/ Cancel(o) PROVE LockHeld'
  BY <1>4, <1>6 DEF Woken, Cancel, LockHeld, TInv, TypeOK
<1>7. ASSUME NEW s \in Slots, NEW n \in Names, SetSlotName(s, n) PROVE LockHeld'
  BY <1>7 DEF SetSlotName, LockHeld
<1>8. ASSUME NEW r \in ReservedChoices, SettingsStep(r) PROVE LockHeld'
  BY <1>8 DEF SettingsStep, LockHeld
<1>9. CASE RefreshCapabilities \/ Unload \/ Build \/ Publish
  BY <1>9 DEF RefreshCapabilities, Unload, Build, Publish, LockHeld
<1>10. CASE Restart
  BY <1>10 DEF Restart, LockHeld, Live
<1>11. CASE UNCHANGED vars
  BY <1>11 DEF vars, LockHeld
<1>12. QED
  BY <1>1, <1>2, <1>3, <1>5, <1>6, <1>7, <1>8, <1>9, <1>10, <1>11 DEF Next

LEMMA StrayApartStep == TInv /\ LockHeld /\ StrayApart /\ [Next]_vars => StrayApart'
<1> SUFFICES ASSUME TInv, LockHeld, StrayApart, [Next]_vars PROVE StrayApart'
  OBVIOUS
<1> USE DEF opVars
<1>1. ASSUME NEW o \in Ops, NEW r \in Request, Ask(o, r) PROVE StrayApart'
  <2>1. CASE Transmit(o)
    BY <2>1 DEF Transmit, StrayApart
  <2>2. CASE stray' = stray /\ pc'[o] # "sending" /\ \A p \in Ops \ {o} : pc'[p] = pc[p]
    BY <1>1, <2>2 DEF Ask, StrayApart, TInv, TypeOK, CommandsKnown
  <2>3. QED
    BY <1>1, <2>1, <2>2 DEF Ask, Begin, TInv, TypeOK
<1>2. ASSUME NEW o \in Ops, Acquire(o) PROVE StrayApart'
  <2>1. CASE Transmit(o)
    BY <2>1 DEF Transmit, StrayApart
  <2>2. CASE stray' = stray /\ pc'[o] # "sending" /\ \A p \in Ops \ {o} : pc'[p] = pc[p]
    BY <1>2, <2>2 DEF Acquire, StrayApart, TInv, TypeOK
  <2>3. QED
    BY <1>2, <2>1, <2>2 DEF Acquire, Begin, TInv, TypeOK
<1>3. ASSUME NEW o \in Ops, LockExecutes(o) \/ LockRefuses(o) \/ StrayExecutes(o) PROVE StrayApart'
  BY <1>3 DEF LockExecutes, LockRefuses, StrayExecutes, StrayApart
<1>4. ASSUME NEW o \in Ops, AnswerArrives(o) PROVE StrayApart'
  BY <1>4 DEF AnswerArrives, Deliver, Finish, StrayApart, TInv, TypeOK
<1>5. ASSUME NEW o \in Ops, GiveUp({o}), UNCHANGED on, pc'[o] # "sending",
             \A p \in Ops \ {o} : pc'[p] = pc[p]
      PROVE  StrayApart'
  <2>1. \A p \in Ops \ {o} : pc[o] = "sending" /\ pc[p] = "sending" => on[o] # on[p]
    BY OneWriter DEF OneWriteAtATime
  <2>2. \A q \in stray' : q \in Ops /\ (q \in stray \/ (q = o /\ pc[o] = "sending"))
    BY <1>5, GiveUpTInv DEF TInv, TypeOK
  <2>3. QED
    BY <1>5, <2>1, <2>2 DEF StrayApart
<1>6. ASSUME NEW o \in Ops, AnswerMissing(o) \/ SendFails(o) \/ Cancel(o) PROVE StrayApart'
  BY <1>5, <1>6 DEF AnswerMissing, SendFails, Cancel, Finish, TInv, TypeOK
<1>7. ASSUME NEW o \in Ops, Woken(o) PROVE StrayApart'
  BY <1>7 DEF Woken, Transmit, StrayApart
<1>8. ASSUME NEW s \in Slots, NEW n \in Names, SetSlotName(s, n) PROVE StrayApart'
  BY <1>8 DEF SetSlotName, StrayApart, radioVars
<1>9. ASSUME NEW r \in ReservedChoices, SettingsStep(r) PROVE StrayApart'
  BY <1>9 DEF SettingsStep, StrayApart, radioVars
<1>10. CASE RefreshCapabilities \/ Unload \/ Build \/ Publish
  BY <1>10 DEF RefreshCapabilities, Unload, Build, Publish, StrayApart, radioVars
<1>11. CASE Restart
  BY <1>11 DEF Restart, StrayApart, Live
<1>12. CASE UNCHANGED vars
  BY <1>12 DEF vars, StrayApart, radioVars
<1>13. QED
  BY <1>1, <1>2, <1>3, <1>4, <1>6, <1>7, <1>8, <1>9, <1>10, <1>11, <1>12 DEF Next

(* A write that was asked for keeps its request and its coordinator. *)
LEMMA AskedKept ==
  ASSUME TInv, [Next]_vars
  PROVE  \A o \in Ops : pc[o] # "new" =>
           pc'[o] # "new" /\ request'[o] = request[o] /\ on'[o] = on[o]
<1> USE DEF opVars, TInv, TypeOK
<1>1. ASSUME NEW o \in Ops, NEW r \in Request, Ask(o, r)
      PROVE  \A p \in Ops : pc[p] # "new" =>
               pc'[p] # "new" /\ request'[p] = request[p] /\ on'[p] = on[p]
  BY <1>1 DEF Ask, Begin
<1>2. ASSUME NEW o \in Ops,
             \/ Acquire(o) \/ LockExecutes(o) \/ LockRefuses(o) \/ StrayExecutes(o)
             \/ AnswerArrives(o) \/ AnswerMissing(o) \/ SendFails(o) \/ Woken(o) \/ Cancel(o)
      PROVE  UNCHANGED <<request, on>> /\ \A p \in Ops : pc[p] # "new" => pc'[p] # "new"
  BY <1>2 DEF Acquire, Begin, LockExecutes, LockRefuses, StrayExecutes, AnswerArrives, Deliver,
              AnswerMissing, SendFails, Woken, Cancel, Finish
<1>3. CASE Restart
  BY <1>3 DEF Restart
<1>4. CASE UNCHANGED opVars
  BY <1>4
<1>5. QED
  BY <1>1, <1>2, <1>3, <1>4
     DEF Next, vars, SetSlotName, SettingsStep, RefreshCapabilities, Unload, Build, Publish

(* So writes to a slot that are all on one coordinator always were. *)
LEMMA OneCoordinatorBefore ==
  ASSUME TInv, [Next]_vars, NEW s, OneCoordinator(s)'
  PROVE  OneCoordinator(s)
BY AskedKept DEF OneCoordinator, Asked

(* A step that accepts nothing and leaves the lock alone. *)
LEMMA AcceptedFrame ==
  ASSUME TInv, AcceptedIsLast, [Next]_vars, UNCHANGED <<codes, executed>>,
         \A p \in Ops : pc'[p] = "sending" /\ radio'[p] = "accepted"
                          => pc[p] = "sending" /\ radio[p] = "accepted"
  PROVE  AcceptedIsLast'
<1>1. ASSUME NEW p \in Ops, pc'[p] = "sending", radio'[p] = "accepted"
      PROVE  /\ request'[p] = request[p] /\ CodeOf(p)' = CodeOf(p)
             /\ OneCoordinator(request[p].slot)'
                  => executed[request[p].slot] = p /\ codes[request[p].slot] = CodeOf(p)
  <2>1. pc[p] = "sending" /\ radio[p] = "accepted"
    BY <1>1
  <2>2. request'[p] = request[p]
    BY <2>1, AskedKept
  <2>3. \A s : OneCoordinator(s)' => OneCoordinator(s)
    BY OneCoordinatorBefore
  <2>4. QED
    BY <2>1, <2>2, <2>3 DEF AcceptedIsLast, CodeOf, OneCoordinator, Asked
<1>2. QED
  BY <1>1 DEF AcceptedIsLast, OneCoordinator, Asked

LEMMA AcceptedIsLastStep == TInv /\ OrderInv /\ [Next]_vars => AcceptedIsLast'
<1> SUFFICES ASSUME TInv, OrderInv, [Next]_vars PROVE AcceptedIsLast'
  OBVIOUS
<1> USE DEF radioVars
<1>a. LockHeld /\ StrayApart /\ AcceptedIsLast
  BY DEF OrderInv
<1>1. ASSUME NEW o \in Ops, LockExecutes(o) PROVE AcceptedIsLast'
  <2> SUFFICES ASSUME NEW p \in Ops, pc[p] = "sending", radio'[p] = "accepted",
                      OneCoordinator(request[p].slot)
               PROVE  executed'[request[p].slot] = p /\ codes'[request[p].slot] = CodeOf(p)
    <3>1. UNCHANGED <<pc, request, on>>
      BY <1>1 DEF LockExecutes, opVars
    <3>2. \A s : OneCoordinator(s)' => OneCoordinator(s)
      BY OneCoordinatorBefore
    <3>3. \A p : CodeOf(p)' = CodeOf(p)
      BY <3>1 DEF CodeOf
    <3>4. QED
      BY <3>1, <3>2, <3>3 DEF AcceptedIsLast
  <2>1. /\ pc[o] = "sending" /\ request[o].slot \in Slots /\ request[p].slot \in Slots
    BY <1>1 DEF LockExecutes, TInv, TypeOK, CommandsKnown, Request
  <2>2. CASE p = o
    BY <1>1, <2>1, <2>2 DEF LockExecutes, Execute, CodeOf, TInv, TypeOK
  <2>3. CASE p # o
    <3>1. request[p].slot # request[o].slot
      BY <1>a, <2>1, <2>3, OneWriter DEF OneCoordinator, Asked, OneWriteAtATime
    <3>2. radio[p] = "accepted"
      BY <1>1, <2>3 DEF LockExecutes, TInv, TypeOK
    <3>3. QED
      BY <1>1, <1>a, <2>1, <3>1, <3>2 DEF LockExecutes, Execute, AcceptedIsLast, CodeOf, TInv, TypeOK
  <2>4. QED
    BY <2>2, <2>3
<1>2. ASSUME NEW o \in Ops, StrayExecutes(o) PROVE AcceptedIsLast'
  <2> SUFFICES ASSUME NEW p \in Ops, pc[p] = "sending", radio[p] = "accepted",
                      OneCoordinator(request[p].slot)
               PROVE  executed'[request[p].slot] = p /\ codes'[request[p].slot] = CodeOf(p)
    <3>1. UNCHANGED <<pc, request, on, radio>>
      BY <1>2 DEF StrayExecutes, opVars
    <3>2. \A s : OneCoordinator(s)' => OneCoordinator(s)
      BY OneCoordinatorBefore
    <3>3. \A p : CodeOf(p)' = CodeOf(p)
      BY <3>1 DEF CodeOf
    <3>4. QED
      BY <3>1, <3>2, <3>3 DEF AcceptedIsLast
  <2>1. pc[o] # "new" /\ request[o].slot \in Slots /\ request[p].slot \in Slots
    BY <1>2 DEF StrayExecutes, TInv, TypeOK, CommandsKnown, Request
  <2>2. request[p].slot # request[o].slot
    BY <1>2, <1>a, <2>1 DEF StrayExecutes, StrayApart, OneCoordinator, Asked
  <2>3. QED
    BY <1>2, <1>a, <2>1, <2>2 DEF StrayExecutes, Execute, AcceptedIsLast, CodeOf, TInv, TypeOK
<1>3. ASSUME NEW o \in Ops, NEW r \in Request, Ask(o, r) PROVE AcceptedIsLast'
  <2>1. \A p \in Ops : pc'[p] = "sending" /\ radio'[p] = "accepted"
                         => pc[p] = "sending" /\ radio[p] = "accepted"
    BY <1>3 DEF Ask, Begin, Transmit, TInv, TypeOK, CommandsKnown
  <2>2. QED
    BY <1>3, <1>a, <2>1, AcceptedFrame DEF Ask
<1>4. ASSUME NEW o \in Ops, Acquire(o) PROVE AcceptedIsLast'
  <2>1. \A p \in Ops : pc'[p] = "sending" /\ radio'[p] = "accepted"
                         => pc[p] = "sending" /\ radio[p] = "accepted"
    BY <1>4 DEF Acquire, Begin, Transmit, TInv, TypeOK, CommandsKnown
  <2>2. QED
    BY <1>4, <1>a, <2>1, AcceptedFrame DEF Acquire
<1>5. ASSUME NEW o \in Ops, \/ LockRefuses(o) \/ AnswerArrives(o) \/ AnswerMissing(o)
                            \/ SendFails(o) \/ Woken(o) \/ Cancel(o)
      PROVE  AcceptedIsLast'
  <2>1. \A p \in Ops : pc'[p] = "sending" /\ radio'[p] = "accepted"
                         => pc[p] = "sending" /\ radio[p] = "accepted"
    BY <1>5 DEF LockRefuses, opVars, AnswerArrives, Deliver, AnswerMissing, SendFails, Woken,
                Cancel, Finish, GiveUp, Transmit, TInv, TypeOK
  <2>2. UNCHANGED <<codes, executed>>
    BY <1>5 DEF LockRefuses, AnswerArrives, AnswerMissing, SendFails, Woken, Cancel
  <2>3. QED
    BY <1>a, <2>1, <2>2, AcceptedFrame
<1>6. CASE Restart
  <2>1. \A p \in Ops : pc'[p] # "sending"
    BY <1>6 DEF Restart, Live
  <2>2. QED
    BY <1>6, <1>a, <2>1, AcceptedFrame DEF Restart
<1>7. CASE UNCHANGED <<opVars, radioVars>>
  BY <1>7, <1>a, AcceptedFrame DEF opVars
<1>8. QED
  BY <1>1, <1>2, <1>3, <1>4, <1>5, <1>6, <1>7
     DEF Next, vars, SetSlotName, SettingsStep, RefreshCapabilities, Unload, Build, Publish

LEMMA SpecOrderInv == Spec => []OrderInv
<1>1. Init => OrderInv
  BY DEF Init, OrderInv, LockHeld, StrayApart, AcceptedIsLast
<1>2. TInv /\ OrderInv /\ [Next]_vars => OrderInv'
  BY LockHeldStep, StrayApartStep, AcceptedIsLastStep DEF OrderInv
<1>3. QED
  BY <1>1, <1>2, SpecTInv, PTL DEF Spec

(* A coordinator never has two writes with the lock. *)
THEOREM OneAtATime == Spec => []OneWriteAtATime
<1>1. TInv /\ OrderInv => OneWriteAtATime
  BY OneWriter DEF OrderInv
<1>2. QED
  BY <1>1, SpecTInv, SpecOrderInv, PTL

(* A held lock is held by a write of that coordinator that is still with   *)
(* the lock, so it has an answer, a failure or the end of a wake to come.  *)
HeldInUse ==
  \A g \in Coordinators : pinLock[g] # NoOp => on[pinLock[g]] = g /\ pc[pinLock[g]] \in {"sending", "waking"}

LEMMA HeldInUseStep == TInv /\ HeldInUse /\ [Next]_vars => HeldInUse'
<1> SUFFICES ASSUME TInv, HeldInUse, [Next]_vars PROVE HeldInUse'
  OBVIOUS
<1> USE DEF opVars
<1>t. /\ pinLock \in [Coordinators -> Ops \cup {NoOp}] /\ pc \in [Ops -> Live \cup {"new", "done"}]
      /\ on \in [Ops -> 0..MaxLoads] /\ NoOp \notin Ops
      /\ \A o \in Ops : pc[o] # "new" => on[o] \in Coordinators
  BY OpsAssumption DEF TInv, TypeOK
<1>0. ASSUME NEW o \in Ops, NEW g \in Coordinators, Begin(o, g), on'[o] = g, pc[o] \in {"new", "waiting"},
             \A p \in Ops \ {o} : on'[p] = on[p]
      PROVE  HeldInUse'
  <2> SUFFICES ASSUME NEW h \in Coordinators, pinLock'[h] # NoOp
               PROVE  on'[pinLock'[h]] = h /\ pc'[pinLock'[h]] \in {"sending", "waking"}
    BY DEF HeldInUse
  <2>1. \A f \in Coordinators : pinLock[f] # o
    BY <1>t, <1>0 DEF HeldInUse
  <2>2. CASE pinLock' = [pinLock EXCEPT ![g] = o] /\ pc' = [pc EXCEPT ![o] = "sending"]
    BY <1>t, <1>0, <2>1, <2>2 DEF HeldInUse
  <2>3. CASE pinLock' = pinLock /\ pc' = [pc EXCEPT ![o] = "done"]
    BY <1>t, <1>0, <2>1, <2>3 DEF HeldInUse
  <2>4. QED
    BY <1>0, <2>2, <2>3 DEF Begin
<1>1. ASSUME NEW o \in Ops, NEW r \in Request, Ask(o, r) PROVE HeldInUse'
  <2>1. /\ current \in Coordinators /\ on'[o] = current /\ \A p \in Ops \ {o} : on'[p] = on[p]
        /\ pc[o] = "new"
    BY <1>1, LoadsAssumption DEF Ask, TInv, TypeOK, Coordinators
  <2>2. CASE Begin(o, current)
    BY <1>0, <2>1, <2>2
  <2>3. CASE pc' = [pc EXCEPT ![o] = "waiting"] /\ UNCHANGED pinLock
    <3>1. \A f \in Coordinators : pinLock[f] # o
      BY <1>t, <2>1 DEF HeldInUse
    <3>2. QED
      BY <1>t, <2>1, <2>3, <3>1 DEF HeldInUse
  <2>4. QED
    BY <1>1, <2>2, <2>3 DEF Ask
<1>2. ASSUME NEW o \in Ops, Acquire(o) PROVE HeldInUse'
  <2>1. on[o] \in Coordinators /\ Begin(o, on[o]) /\ pc[o] = "waiting" /\ on' = on
    BY <1>t, <1>2 DEF Acquire
  <2>2. QED
    BY <1>0, <2>1
<1>3. ASSUME NEW o \in Ops, LockExecutes(o) \/ LockRefuses(o) \/ StrayExecutes(o) PROVE HeldInUse'
  BY <1>3 DEF LockExecutes, LockRefuses, StrayExecutes, HeldInUse
<1>4. ASSUME NEW o \in Ops, NEW how, Finish(o, how) PROVE HeldInUse'
  BY <1>t, <1>4 DEF Finish, HeldInUse
<1>5. ASSUME NEW o \in Ops, AnswerArrives(o) \/ SendFails(o) \/ Cancel(o) PROVE HeldInUse'
  BY <1>4, <1>5 DEF AnswerArrives, SendFails, Cancel, Deliver
<1>6. ASSUME NEW o \in Ops, UNCHANGED <<pinLock, on>>, pc' = [pc EXCEPT ![o] = "waking"] \/ pc' = [pc EXCEPT ![o] = "sending"]
      PROVE  HeldInUse'
  BY <1>t, <1>6 DEF HeldInUse
<1>7. ASSUME NEW o \in Ops, AnswerMissing(o) \/ Woken(o) PROVE HeldInUse'
  BY <1>4, <1>6, <1>7 DEF AnswerMissing, Woken
<1>8. ASSUME NEW s \in Slots, NEW n \in Names, SetSlotName(s, n) PROVE HeldInUse'
  BY <1>8 DEF SetSlotName, HeldInUse
<1>9. ASSUME NEW r \in ReservedChoices, SettingsStep(r) PROVE HeldInUse'
  BY <1>9 DEF SettingsStep, HeldInUse
<1>10. CASE RefreshCapabilities \/ Unload \/ Build \/ Publish
  BY <1>10 DEF RefreshCapabilities, Unload, Build, Publish, HeldInUse
<1>11. CASE Restart
  BY <1>11 DEF Restart, HeldInUse
<1>12. CASE UNCHANGED vars
  BY <1>12 DEF vars, HeldInUse
<1>13. QED
  BY <1>1, <1>2, <1>3, <1>5, <1>7, <1>8, <1>9, <1>10, <1>11, <1>12 DEF Next

(* No way a write can end (an answer, a failure, a cancelled service call, *)
(* a restart) leaves its coordinator's _pin_lock behind: a write that      *)
(* waits for it finds it free or waits for one that is with the lock.  It  *)
(* is the part of EveryWriteEnds that needs no fairness.                   *)
THEOREM LockNeverLeftBehind == Spec => []HeldInUse
<1>1. Init => HeldInUse
  BY DEF Init, HeldInUse
<1>2. QED
  BY <1>1, HeldInUseStep, SpecTInv, PTL DEF Spec

(* What is saved for a slot describes the last write the lock executed. *)
THEOREM SavedStaysNewest == Spec => SavedIsNewest
<1>1. ASSUME TInv, OrderInv, [Next]_vars, NEW o \in Ops, outcome'[o] = "delivered",
             outcome[o] # "delivered", OneCoordinator(request[o].slot)
      PROVE  executed[request[o].slot] = o
  <2>1. pc[o] = "sending" /\ radio[o] = "accepted"
    <3> USE DEF opVars
    <3>1. ASSUME NEW p \in Ops, NEW r \in Request, Ask(p, r) PROVE outcome'[o] # "delivered"
      BY <1>1, <3>1 DEF Ask, Begin, TInv, TypeOK
    <3>2. ASSUME NEW p \in Ops, Acquire(p) PROVE outcome'[o] # "delivered"
      BY <1>1, <3>2 DEF Acquire, Begin, TInv, TypeOK
    <3>3. ASSUME NEW p \in Ops, AnswerMissing(p) \/ SendFails(p) \/ Woken(p) \/ Cancel(p)
          PROVE  outcome'[o] # "delivered"
      BY <1>1, <3>3 DEF AnswerMissing, SendFails, Woken, Cancel, Finish, TInv, TypeOK
    <3>4. ASSUME NEW p \in Ops, AnswerArrives(p)
          PROVE  pc[o] = "sending" /\ radio[o] = "accepted"
      BY <1>1, <3>4 DEF AnswerArrives, Deliver, Finish, TInv, TypeOK
    <3>5. CASE Restart
      BY <1>1, <3>5 DEF Restart, TInv, TypeOK
    <3>6. CASE UNCHANGED opVars
      BY <1>1, <3>6
    <3>7. QED
      BY <1>1, <3>1, <3>2, <3>3, <3>4, <3>5, <3>6
         DEF Next, vars, LockExecutes, LockRefuses, StrayExecutes, SetSlotName, SettingsStep,
             RefreshCapabilities, Unload, Build, Publish
  <2>2. QED
    BY <1>1, <2>1 DEF OrderInv, AcceptedIsLast
<1>2. TInv /\ OrderInv /\ [Next]_vars
        => [\A o \in Ops :
              outcome'[o] = "delivered" /\ outcome[o] # "delivered"
                /\ OneCoordinator(request[o].slot)
                => executed[request[o].slot] = o]_vars
  BY <1>1
<1>3. QED
  BY <1>2, SpecTInv, SpecOrderInv, PTL DEF Spec, SavedIsNewest
-----------------------------------------------------------------------------
(***************************************************************************)
(* The stored slot and the lock.  The write the lock executed last decides *)
(* what the lock holds.  A step that makes the lock execute something for  *)
(* a slot leaves that write's caller still untold, and only the answer to  *)
(* that write changes whether the slot shows a PIN while its caller is     *)
(* told: so the two agree whenever the caller has been told.               *)
(***************************************************************************)
EndsOnce == \A o \in Ops : pc[o] # "done" => outcome[o] = "none"

Reported(o) == outcome[o] \in {"delivered", "unreadable"}

StrayUnreported == \A o \in stray : ~Reported(o)

CodesFollow ==
  \A s \in Slots :
    /\ executed[s] = NoOp => codes[s] = NoOp
    /\ executed[s] # NoOp => executed[s] \in Asked(s) /\ codes[s] = CodeOf(executed[s])

MatchInv == EndsOnce /\ StrayUnreported /\ CodesFollow /\ StoreMatchesLock

LEMMA EndsOnceStep == TInv /\ EndsOnce /\ [Next]_vars => EndsOnce'
<1> SUFFICES ASSUME TInv, EndsOnce, [Next]_vars PROVE EndsOnce'
  OBVIOUS
<1> USE DEF opVars, EndsOnce, TInv, TypeOK
<1>1. ASSUME NEW o \in Ops, NEW r \in Request, Ask(o, r) PROVE EndsOnce'
  BY <1>1 DEF Ask, Begin
<1>2. ASSUME NEW o \in Ops, Acquire(o) PROVE EndsOnce'
  BY <1>2 DEF Acquire, Begin
<1>3. ASSUME NEW o \in Ops, AnswerArrives(o) \/ AnswerMissing(o) \/ SendFails(o)
      PROVE  EndsOnce'
  BY <1>3 DEF AnswerArrives, AnswerMissing, SendFails, Deliver, Finish
<1>4. ASSUME NEW o \in Ops, Woken(o) \/ Cancel(o) PROVE EndsOnce'
  BY <1>4 DEF Woken, Cancel, Finish
<1>5. CASE Restart
  BY <1>5 DEF Restart
<1>6. CASE UNCHANGED opVars
  BY <1>6
<1>7. QED
  BY <1>1, <1>2, <1>3, <1>4, <1>5, <1>6
     DEF Next, vars, LockExecutes, LockRefuses, StrayExecutes, SetSlotName, SettingsStep,
         RefreshCapabilities, Unload, Build, Publish

(* A write that has ended keeps how it ended, and only a saved answer      *)
(* makes it one whose caller is told that the lock took it.                *)
LEMMA ReportedOnce ==
  ASSUME TInv, EndsOnce, [Next]_vars, NEW o \in Ops
  PROVE  /\ outcome[o] # "none" => outcome'[o] = outcome[o]
         /\ Reported(o)' /\ ~Reported(o)
              => /\ AnswerArrives(o)
                 /\ \/ radio[o] = "accepted" /\ Deliver(o, "delivered")
                    \/ Deliver(o, "unreadable") /\ outcome'[o] = "unreadable"
<1> USE DEF opVars, Reported, TInv, TypeOK
<1>a. outcome[o] # "none" => pc[o] = "done"
  BY DEF EndsOnce
<1>1. ASSUME NEW p \in Ops, \/ \E r \in Request : Ask(p, r)
                            \/ Acquire(p)
      PROVE  (outcome[o] # "none" => outcome'[o] = outcome[o]) /\ (Reported(o)' => Reported(o))
  BY <1>1, <1>a DEF Ask, Acquire, Begin
<1>2. ASSUME NEW p \in Ops, AnswerArrives(p), p # o
      PROVE  outcome'[o] = outcome[o]
  BY <1>2 DEF AnswerArrives, Deliver, Finish
<1>3. ASSUME AnswerArrives(o)
      PROVE  /\ outcome[o] = "none"
             /\ \/ radio[o] = "accepted" /\ Deliver(o, "delivered")
                \/ Deliver(o, "unreadable") /\ outcome'[o] = "unreadable"
                \/ ~Reported(o)'
  BY <1>3, <1>a DEF AnswerArrives, Deliver, Finish
<1>4. ASSUME NEW p \in Ops, AnswerMissing(p) \/ SendFails(p) \/ Woken(p) \/ Cancel(p)
      PROVE  (outcome[o] # "none" => outcome'[o] = outcome[o]) /\ (Reported(o)' => Reported(o))
  BY <1>4, <1>a DEF AnswerMissing, SendFails, Woken, Cancel, Finish, Live
<1>5. CASE Restart
  BY <1>5, <1>a DEF Restart, Live
<1>6. CASE UNCHANGED outcome
  BY <1>6
<1>7. QED
  BY <1>1, <1>2, <1>3, <1>4, <1>5, <1>6
     DEF Next, vars, LockExecutes, LockRefuses, StrayExecutes, SetSlotName, SettingsStep,
         RefreshCapabilities, Unload, Build, Publish

LEMMA StrayUnreportedStep ==
  ASSUME TInv, OrderInv, EndsOnce, StrayUnreported, [Next]_vars
  PROVE  StrayUnreported'
<1> SUFFICES ASSUME NEW o \in stray', Reported(o)' PROVE FALSE
  BY DEF StrayUnreported
<1>1. o \in Ops /\ (o \in stray \/ pc[o] \in Live)
  <2>1. ASSUME NEW os \in SUBSET Ops, GiveUp(os)
        PROVE  o \in Ops /\ (o \in stray \/ pc[o] \in Live)
    BY <2>1, GiveUpTInv DEF Live
  <2>2. CASE stray' \subseteq stray
    BY <2>2 DEF TInv, TypeOK
  <2>3. (\E os \in SUBSET Ops : GiveUp(os)) \/ stray' \subseteq stray
    BY DEF Next, vars, radioVars, Ask, Acquire, Begin, Transmit, LockExecutes, LockRefuses,
           StrayExecutes, AnswerArrives, AnswerMissing, SendFails, Woken, Cancel, SetSlotName,
           SettingsStep, RefreshCapabilities, Unload, Build, Publish, Restart
  <2>4. QED
    BY <2>1, <2>2, <2>3
<1>2. ~Reported(o)
  BY <1>1 DEF StrayUnreported, EndsOnce, Reported, Live
<1>3. AnswerArrives(o)
  BY <1>1, <1>2, ReportedOnce
<1>4. pc[o] = "sending" /\ stray' = stray
  BY <1>3 DEF AnswerArrives
<1>5. QED
  BY <1>1, <1>4 DEF OrderInv, StrayApart

(* What a step does to the lock's side of a slot: nothing, or it executes  *)
(* a write to the slot that is on its way.                                 *)
LEMMA LockStep ==
  ASSUME TInv, [Next]_vars, NEW s \in Slots
  PROVE  \/ codes'[s] = codes[s] /\ executed'[s] = executed[s]
         \/ \E o \in Asked(s) : /\ pc[o] = "sending" \/ o \in stray
                                /\ executed'[s] = o
                                /\ codes'[s] = CodeOf(o)
                                /\ UNCHANGED <<opVars, entryVars>>
<1>1. ASSUME NEW o \in Ops, Execute(o), pc[o] # "new"
      PROVE  \/ codes'[s] = codes[s] /\ executed'[s] = executed[s]
             \/ /\ o \in Asked(s) /\ executed'[s] = o /\ codes'[s] = CodeOf(o)
  BY <1>1 DEF Execute, CodeOf, Asked, TInv, TypeOK
<1>2. ASSUME NEW o \in Ops, LockExecutes(o)
      PROVE  Execute(o) /\ pc[o] = "sending" /\ UNCHANGED <<opVars, entryVars>>
  BY <1>2 DEF LockExecutes, TInv, CommandsKnown
<1>3. ASSUME NEW o \in Ops, StrayExecutes(o)
      PROVE  Execute(o) /\ pc[o] # "new" /\ o \in stray /\ UNCHANGED <<opVars, entryVars>>
  BY <1>3 DEF StrayExecutes, TInv, CommandsKnown
<1>4. CASE \E o \in Ops : LockExecutes(o) \/ StrayExecutes(o)
  BY <1>1, <1>2, <1>3, <1>4
<1>5. CASE UNCHANGED <<codes, executed>>
  BY <1>5
<1>6. QED
  BY <1>4, <1>5
     DEF Next, vars, radioVars, Ask, Acquire, LockRefuses, AnswerArrives, AnswerMissing,
         SendFails, Woken, Cancel, SetSlotName, SettingsStep, RefreshCapabilities, Unload,
         Build, Publish, Restart

LEMMA CodesFollowStep ==
  ASSUME TInv, CodesFollow, [Next]_vars
  PROVE  CodesFollow'
<1> SUFFICES ASSUME NEW s \in Slots
             PROVE  /\ executed'[s] = NoOp => codes'[s] = NoOp
                    /\ executed'[s] # NoOp
                         => executed'[s] \in Asked(s)' /\ codes'[s] = CodeOf(executed[s])'
  BY DEF CodesFollow
<1>1. \A o \in Asked(s) : o \in Asked(s)' /\ CodeOf(o)' = CodeOf(o) /\ o # NoOp
  BY AskedKept, OpsAssumption DEF Asked, CodeOf
<1>2. CASE codes'[s] = codes[s] /\ executed'[s] = executed[s]
  <2>1. executed[s] # NoOp => CodeOf(executed[s])' = CodeOf(executed[s])
    BY <1>1, <1>2 DEF CodesFollow, CodeOf
  <2>2. QED
    BY <1>1, <1>2, <2>1 DEF CodesFollow
<1>3. ASSUME NEW o \in Asked(s), executed'[s] = o, codes'[s] = CodeOf(o)
      PROVE  o # NoOp /\ o \in Asked(s)' /\ codes'[s] = CodeOf(executed[s])'
  BY <1>1, <1>3 DEF CodeOf
<1>4. QED
  BY <1>2, <1>3, LockStep

(* A slot has a PIN after a delivered write exactly when the write set one. *)
LEMMA WrittenHasPin ==
  ASSUME NEW r \in Request, NEW record \in SlotRecord \cup {Absent}
  PROVE  Written(r, record).hasPin = (r.kind = "set_pin")
<1>1. r.kind \in {"set_pin", "clear_pin", "clear_slot"}
  BY DEF Request
<1> DEFINE kept == IF record = Absent THEN DefaultSlot ELSE record
<1>2. kept \in SlotRecord
  BY NamesAssumption DEF SlotRecord, DefaultSlot
<1>3. CASE r.kind = "set_pin"
  BY <1>3 DEF Written
<1>4. CASE r.kind = "clear_pin"
  <2>1. Written(r, record) = [kept EXCEPT !.hasPin = FALSE]
    BY <1>4 DEF Written
  <2>2. Written(r, record).hasPin = FALSE
    BY <1>2, <2>1 DEF SlotRecord
  <2>3. QED
    BY <1>4, <2>2
<1>5. CASE r.kind = "clear_slot"
  <2>1. Written(r, record) = DefaultSlot
    BY <1>5 DEF Written
  <2>2. DefaultSlot.hasPin = FALSE
    BY DEF DefaultSlot
  <2>3. Written(r, record).hasPin = FALSE
    BY <2>1, <2>2
  <2>4. QED
    BY <1>5, <2>3
<1>6. QED
  BY <1>1, <1>3, <1>4, <1>5

(* Renaming a slot never changes whether it shows a PIN. *)
LEMMA RenameKeepsPin ==
  ASSUME TInv, NEW z \in Slots, NEW n \in Names, SetSlotName(z, n), NEW s \in Slots
  PROVE  Store!HasPin(stored'[s]) <=> Store!HasPin(stored[s])
<1> DEFINE kept  == IF stored[z] = Absent THEN DefaultSlot ELSE stored[z]
           named == [kept EXCEPT !.name = n]
<1>1. kept \in SlotRecord /\ (kept.hasPin <=> Store!HasPin(stored[z]))
  BY NamesAssumption DEF TInv, TypeOK, SlotMap, SlotRecord, DefaultSlot, Store!HasPin
<1>2. named \in SlotRecord /\ named.hasPin = kept.hasPin
  BY <1>1 DEF SlotRecord
<1>3. stored' = [stored EXCEPT ![z] = IF named = DefaultSlot THEN Absent ELSE named]
  BY DEF SetSlotName, LoadSlots, SaveSlots
<1> HIDE DEF kept, named
<1>4. CASE s = z /\ named = DefaultSlot
  BY <1>1, <1>2, <1>3, <1>4 DEF Store!HasPin, DefaultSlot, TInv, TypeOK, SlotMap
<1>5. CASE s = z /\ named # DefaultSlot
  BY <1>1, <1>2, <1>3, <1>5, AbsentAssumption DEF Store!HasPin, TInv, TypeOK, SlotMap
<1>6. CASE s # z
  BY <1>3, <1>6 DEF TInv, TypeOK, SlotMap
<1>7. QED
  BY <1>4, <1>5, <1>6

(* What a step does to a stored slot: it saves the answer to a write to    *)
(* the slot, or the slot shows a PIN as before.                            *)
LEMMA StoreStep ==
  ASSUME TInv, [Next]_vars, NEW s \in Slots
  PROVE  \/ Store!HasPin(stored'[s]) <=> Store!HasPin(stored[s])
         \/ \E o \in Asked(s) :
              /\ AnswerArrives(o)
              /\ \/ radio[o] = "accepted" /\ Deliver(o, "delivered")
                 \/ Deliver(o, "unreadable")
<1>1. ASSUME NEW o \in Ops, AnswerArrives(o), request[o].slot # s PROVE stored'[s] = stored[s]
  BY <1>1 DEF AnswerArrives, entryVars, Deliver, SaveSlots, LoadSlots, TInv, TypeOK, SlotMap
<1>2. ASSUME NEW o \in Ops, AnswerArrives(o), request[o].slot = s
      PROVE  /\ o \in Asked(s)
             /\ \/ stored' = stored
                \/ radio[o] = "accepted" /\ Deliver(o, "delivered")
                \/ Deliver(o, "unreadable")
  BY <1>2 DEF AnswerArrives, Asked, entryVars
<1>3. CASE \E o \in Ops : AnswerArrives(o)
  BY <1>1, <1>2, <1>3
<1>4. CASE \E z \in Slots, n \in Names : SetSlotName(z, n)
  BY <1>4, RenameKeepsPin
<1>5. CASE UNCHANGED stored
  BY <1>5
<1>6. QED
  BY <1>3, <1>4, <1>5
     DEF Next, vars, entryVars, Ask, Acquire, LockExecutes, LockRefuses, StrayExecutes,
         AnswerMissing, SendFails, Woken, Cancel, SettingsStep, RefreshCapabilities, Unload,
         Build, Publish, Restart

(* A saved write leaves the slot with a PIN exactly when it set one. *)
LEMMA DeliveredHasPin ==
  ASSUME TInv, NEW o \in Ops, pc[o] # "new", NEW how, Deliver(o, how)
  PROVE  Store!HasPin(stored'[request[o].slot]) <=> CodeOf(o) # NoOp
<1> DEFINE s == request[o].slot
<1>1. request[o] \in Request /\ s \in Slots
  BY DEF TInv, TypeOK, Request
<1>2. stored[s] \in SlotRecord \cup {Absent}
  BY <1>1 DEF TInv, TypeOK, SlotMap
<1>3. stored'[s] = Written(request[o], stored[s])
  BY <1>1 DEF Deliver, SaveSlots, LoadSlots, TInv, TypeOK, SlotMap
<1>4. Written(request[o], stored[s]) \in SlotRecord
  BY <1>1, <1>2, WrittenIsRecord
<1>5. Written(request[o], stored[s]).hasPin = (request[o].kind = "set_pin")
  BY <1>1, <1>2, WrittenHasPin
<1>6. QED
  BY <1>3, <1>4, <1>5, AbsentAssumption, OpsAssumption DEF Store!HasPin, CodeOf

(* An answer saved for a write whose caller is then told about the last    *)
(* executed write is the answer to that write.                             *)
LEMMA SavedWasLast ==
  ASSUME TInv, OrderInv, [Next]_vars, NEW s \in Slots, OneCoordinator(s), Told(s)',
         NEW o \in Asked(s), AnswerArrives(o),
         \/ radio[o] = "accepted" /\ Deliver(o, "delivered")
         \/ Deliver(o, "unreadable")
  PROVE  executed[s] = o
<1>1. o \in Ops /\ request[o].slot = s /\ pc[o] = "sending" /\ o \in Asked(s)'
  BY AskedKept DEF Asked, AnswerArrives
<1>2. CASE radio[o] = "accepted"
  BY <1>1, <1>2 DEF OrderInv, AcceptedIsLast
<1>3. CASE Deliver(o, "unreadable")
  <2>1. outcome'[o] = "unreadable" /\ executed' = executed
    BY <1>1, <1>3 DEF Deliver, Finish, AnswerArrives, TInv, TypeOK
  <2>2. QED
    BY <1>1, <2>1 DEF Told
<1>4. QED
  BY <1>2, <1>3

LEMMA StoreMatchesStep ==
  ASSUME TInv, OrderInv, MatchInv, [Next]_vars
  PROVE  StoreMatchesLock'
<1> SUFFICES ASSUME NEW s \in Slots, OneCoordinator(s)', Told(s)'
             PROVE  Store!HasPin(stored'[s]) <=> codes'[s] # NoOp
  BY DEF StoreMatchesLock, Store!HasPin
<1>a. EndsOnce /\ StrayUnreported /\ CodesFollow /\ StoreMatchesLock
  BY DEF MatchInv
<1>b. OneCoordinator(s)
  BY OneCoordinatorBefore
<1>c. \A o \in Asked(s) : o \in Ops /\ o # NoOp /\ request[o].slot = s /\ o \in Asked(s)'
  BY AskedKept, OpsAssumption DEF Asked
<1>1. codes'[s] = codes[s] /\ executed'[s] = executed[s]
  <2> SUFFICES ASSUME NEW o \in Asked(s), pc[o] = "sending" \/ o \in stray,
                      executed'[s] = o, UNCHANGED <<opVars, entryVars>>
               PROVE  FALSE
    BY LockStep
  <2>1. outcome'[o] \in {"delivered", "unreadable"}
    BY <1>c DEF Told
  <2>2. Reported(o)
    BY <2>1 DEF opVars, Reported
  <2>3. QED
    BY <1>a, <1>c, <2>2 DEF EndsOnce, StrayUnreported, Reported
<1>2. CASE \E o \in Asked(s) : /\ AnswerArrives(o)
                               /\ \/ radio[o] = "accepted" /\ Deliver(o, "delivered")
                                  \/ Deliver(o, "unreadable")
  <2> PICK o \in Asked(s) : /\ AnswerArrives(o)
                            /\ \/ radio[o] = "accepted" /\ Deliver(o, "delivered")
                               \/ Deliver(o, "unreadable")
    BY <1>2
  <2>1. executed[s] = o
    BY <1>b, SavedWasLast
  <2>2. codes[s] = CodeOf(o)
    BY <1>a, <1>c, <2>1 DEF CodesFollow
  <2>3. Store!HasPin(stored'[s]) <=> CodeOf(o) # NoOp
    BY <1>c, DeliveredHasPin DEF Asked
  <2>4. QED
    BY <1>1, <2>2, <2>3
<1>3. CASE ~\E o \in Asked(s) : /\ AnswerArrives(o)
                                /\ \/ radio[o] = "accepted" /\ Deliver(o, "delivered")
                                   \/ Deliver(o, "unreadable")
  <2>1. ASSUME NEW o \in Asked(s), Reported(o)' PROVE Reported(o)
    BY <1>a, <1>c, <1>3, <2>1, ReportedOnce
  <2>2. executed[s] # NoOp => Reported(executed[s])
    <3> SUFFICES ASSUME executed[s] # NoOp PROVE Reported(executed[s])
      OBVIOUS
    <3> DEFINE e == executed[s]
    <3>1. e \in Asked(s)
      BY <1>a DEF CodesFollow
    <3>2. outcome'[e] \in {"delivered", "unreadable"}
      BY <1>1, <3>1 DEF Told
    <3> HIDE DEF e
    <3>3. Reported(e)
      BY <2>1, <3>1, <3>2 DEF Reported
    <3>4. QED
      BY <3>3 DEF e
  <2>3. ASSUME NEW o \in Asked(s), outcome[o] = "unreadable" PROVE o = executed[s]
    <3>1. outcome'[o] = "unreadable"
      BY <1>a, <1>c, <2>3, ReportedOnce
    <3>2. QED
      BY <1>1, <1>c, <3>1 DEF Told
  <2>4. Told(s)
    BY <2>2, <2>3 DEF Told, Reported
  <2>5. Store!HasPin(stored'[s]) <=> Store!HasPin(stored[s])
    BY <1>3, StoreStep
  <2>6. QED
    BY <1>a, <1>b, <1>1, <2>4, <2>5 DEF StoreMatchesLock
<1>4. QED
  BY <1>2, <1>3

(* Whenever the caller of the write the lock executed last for a slot has  *)
(* been told that it went through, the slot shows a PIN exactly when the   *)
(* lock holds one, provided that one coordinator handled every write to    *)
(* the slot.                                                               *)
THEOREM StoreStaysTrue == Spec => []StoreMatchesLock
<1>1. Init => MatchInv
  <2> SUFFICES ASSUME Init PROVE MatchInv
    OBVIOUS
  <2>1. EndsOnce /\ StrayUnreported
    BY DEF Init, EndsOnce, StrayUnreported
  <2>2. CodesFollow /\ StoreMatchesLock
    BY DEF Init, CodesFollow, StoreMatchesLock, Store!HasPin
  <2>3. QED
    BY <2>1, <2>2 DEF MatchInv
<1>2. TInv /\ OrderInv /\ MatchInv /\ [Next]_vars => MatchInv'
  BY EndsOnceStep, StrayUnreportedStep, CodesFollowStep, StoreMatchesStep DEF MatchInv
<1>3. MatchInv => StoreMatchesLock
  BY DEF MatchInv
<1>4. QED
  BY <1>1, <1>2, <1>3, SpecTInv, SpecOrderInv, PTL DEF Spec
=============================================================================
