------------------------------- MODULE PinOps -------------------------------
(***************************************************************************)
(* The PIN operations of one lock: OnestiCoordinator (coordinator.py) and  *)
(* ZhaLockTransport.send (zha.py), the callers that reach them             *)
(* (services.py, the options flow) and the lock at the other end of the    *)
(* radio.                                                                  *)
(*                                                                         *)
(* A step is what the event loop runs between two suspensions.  A write    *)
(* suspends while it waits for the coordinator's _pin_lock, while its ZCL  *)
(* command is out, and while the lock is being woken for the retry.  The   *)
(* config entry outlives its coordinators: a reload drops one and builds   *)
(* the next, and a write keeps running on the coordinator it started on.   *)
(***************************************************************************)
EXTENDS SlotRules

CONSTANTS
  Ops,               \* the PIN writes callers ask for; each is asked for once
  DialogOps,         \* those asked for in the options flow, not by a service call
  NoOp,              \* no write
  Slots,             \* the slot numbers of the lock
  Absent,            \* no record is stored for a slot
  ReservedValues,    \* what reserved_slots can hold at startup, hand-edited values included
  ReservedChoices,   \* what the settings dialog lets the user choose
  MaxLoads,          \* bound: how many coordinators the entry gets
  StringsCached,     \* building a coordinator never waits for a translation file
  UnreadableAnswers  \* zigpy may hand back an answer without a readable status

ASSUME OpsAssumption      == NoOp \notin Ops /\ DialogOps \subseteq Ops
ASSUME SlotsAssumption    == Slots \subseteq Nat
ASSUME AbsentAssumption   == Absent \notin SlotRecord
ASSUME ReservedAssumption == /\ ReservedValues \subseteq Int \cup {NotANumber}
                             /\ ReservedChoices \subseteq ReservedValues
ASSUME LoadsAssumption    == MaxLoads \in Nat \ {0}
ASSUME FlagsAssumption    == StringsCached \in BOOLEAN /\ UnreadableAnswers \in BOOLEAN

VARIABLES
  \* The config entry's options, which outlive every coordinator.
  stored,    \* options["slots"]
  reserved,  \* options["reserved_slots"]
  caps,      \* whether options["capabilities"] is there
  \* The coordinators, numbered in the order they are built.
  loads,     \* how many have been built
  building,  \* the one being built but not yet in entry.runtime_data, or 0
  current,   \* the one in entry.runtime_data, or 0
  view,      \* its _slots, for every coordinator
  pinLock,   \* the write holding its _pin_lock, for every coordinator
  \* The writes.
  pc,        \* "new", "waiting", "sending", "waking" or "done"
  request,   \* what was asked
  on,        \* the coordinator it was asked on
  attempt,   \* which of the two sends it is in
  outcome,   \* how it ended
  \* The radio and the lock.
  radio,     \* the command of the send a write waits for
  stray,     \* writes that gave up on a command still on its way to the lock
  codes,     \* the write whose code the lock accepts for a slot, or NoOp
  executed   \* history: the write whose command the lock executed last for a slot

entryVars == <<stored, reserved, caps>>
coordVars == <<loads, building, current>>
opVars    == <<pc, request, on, attempt, outcome>>
radioVars == <<radio, stray, codes, executed>>
vars == <<entryVars, coordVars, view, pinLock, opVars, radioVars>>

Coordinators == 1..MaxLoads
SlotMap      == [Slots -> SlotRecord \cup {Absent}]

(* Only set_pin takes a name. *)
Request ==
  [kind : {"set_pin"}, slot : Slots, name : Names] \cup
  [kind : {"clear_pin", "clear_slot"}, slot : Slots, name : {NoName}]

Live     == {"waiting", "sending", "waking"}
Outcomes == {"none", "delivered", "unreadable", "rejected", "unreached", "cancelled", "lost"}

(* first_user_slot() reads the entry's options on every call. *)
Floor == FirstUserSlot(reserved)

Init ==
  /\ stored = [s \in Slots |-> Absent]
  /\ reserved \in ReservedValues
  /\ caps = FALSE
  /\ loads = 1 /\ building = 0 /\ current = 1
  /\ view = [g \in Coordinators |-> stored]
  /\ pinLock = [g \in Coordinators |-> NoOp]
  /\ pc = [o \in Ops |-> "new"]
  /\ request = [o \in Ops |-> NoOp]
  /\ on = [o \in Ops |-> 0]
  /\ attempt = [o \in Ops |-> 0]
  /\ outcome = [o \in Ops |-> "none"]
  /\ radio = [o \in Ops |-> "idle"]
  /\ stray = {}
  /\ codes = [s \in Slots |-> NoOp]
  /\ executed = [s \in Slots |-> NoOp]
-----------------------------------------------------------------------------
(***************************************************************************)
(* The slot store, as the coordinators keep it.                            *)
(***************************************************************************)

(* Variation: the coordinator trusts the slots it loaded earlier. *)
LoadSlots_cached(g) == view[g]

(* _load_slots: coordinator g takes the slots over from the options again, *)
(* right before it changes them.                                           *)
LoadSlots(g) == stored

(* Variation: only the saving coordinator sees the save. *)
SaveSlots_unadopted(g, slots) ==
  /\ stored' = slots
  /\ view' = [view EXCEPT ![g] = slots]
  /\ UNCHANGED <<reserved, caps>>

(* _save_slots: coordinator g's changed slots go into the options, and the *)
(* coordinator in runtime_data adopts them when that is another one.       *)
SaveSlots(g, slots) ==
  /\ stored' = slots
  /\ view' = [h \in Coordinators |-> IF h \in {g, current} THEN slots ELSE view[h]]
  /\ UNCHANGED <<reserved, caps>>

(* Variation: a first write to a slot stores only the flag it sets. *)
Written_flagOnly(r, record) ==
  CASE r.kind = "set_pin"    -> [name |-> r.name, hasPin |-> TRUE]
    [] r.kind = "clear_pin"  -> IF record = Absent THEN [hasPin |-> FALSE]
                                ELSE [record EXCEPT !.hasPin = FALSE]
    [] r.kind = "clear_slot" -> DefaultSlot

(* What a delivered write makes of the record of its slot. *)
Written(r, record) ==
  LET kept == IF record = Absent THEN DefaultSlot ELSE record
  IN  CASE r.kind = "set_pin"    -> [name |-> r.name, hasPin |-> TRUE]
        [] r.kind = "clear_pin"  -> [kept EXCEPT !.hasPin = FALSE]
        [] r.kind = "clear_slot" -> DefaultSlot
-----------------------------------------------------------------------------
(***************************************************************************)
(* The radio and the lock.                                                 *)
(***************************************************************************)

(* One cluster.command call.  Commands reach a lock in the order they were *)
(* sent, so one that was given up on is executed before this one or never. *)
Transmit(o) ==
  /\ radio' = [radio EXCEPT ![o] = "air"]
  /\ stray' = {}

(* The waiting side stops caring about the command of o. *)
GiveUp(os) ==
  /\ radio' = [o \in Ops |-> IF o \in os THEN "idle" ELSE radio[o]]
  /\ stray' = stray \cup {o \in os : radio[o] = "air"}

Execute(o) ==
  LET s == request[o].slot
  IN  /\ codes' = [codes EXCEPT ![s] = IF request[o].kind = "set_pin" THEN o ELSE NoOp]
      /\ executed' = [executed EXCEPT ![s] = o]

LockExecutes(o) ==
  /\ radio[o] = "air"
  /\ radio' = [radio EXCEPT ![o] = "accepted"]
  /\ Execute(o)
  /\ UNCHANGED <<entryVars, coordVars, view, pinLock, opVars, stray>>

LockRefuses(o) ==
  /\ radio[o] = "air"
  /\ radio' = [radio EXCEPT ![o] = "refused"]
  /\ UNCHANGED <<entryVars, coordVars, view, pinLock, opVars, stray, codes, executed>>

(* A command nobody waits for any more still gets through. *)
StrayExecutes(o) ==
  /\ o \in stray
  /\ stray' = stray \ {o}
  /\ Execute(o)
  /\ UNCHANGED <<entryVars, coordVars, view, pinLock, opVars, radio>>
-----------------------------------------------------------------------------
(***************************************************************************)
(* One PIN write.                                                          *)
(***************************************************************************)

(* The write gets its coordinator's _pin_lock and enters transport.send,   *)
(* which gives up at once when ZHA has no cluster for the lock.            *)
Begin(o, g) ==
  \/ /\ pinLock' = [pinLock EXCEPT ![g] = o]
     /\ pc' = [pc EXCEPT ![o] = "sending"]
     /\ attempt' = [attempt EXCEPT ![o] = 1]
     /\ outcome' = outcome
     /\ Transmit(o)
  \/ /\ pc' = [pc EXCEPT ![o] = "done"]
     /\ outcome' = [outcome EXCEPT ![o] = "unreached"]
     /\ UNCHANGED <<pinLock, attempt, radio, stray>>

Waiting(g) == {o \in Ops : pc[o] = "waiting" /\ on[o] = g}

(* set_pin, clear_pin and clear_slot: _check_writable, then the lock.      *)
(* asyncio.Lock is taken without suspending when it is free and nobody     *)
(* waits.  A slot below the floor raises ValueError and changes nothing.   *)
Ask(o, r) ==
  /\ pc[o] = "new"
  /\ current # 0
  /\ r.slot >= Floor
  /\ request' = [request EXCEPT ![o] = r]
  /\ on' = [on EXCEPT ![o] = current]
  /\ IF pinLock[current] = NoOp /\ Waiting(current) = {}
     THEN Begin(o, current)
     ELSE /\ pc' = [pc EXCEPT ![o] = "waiting"]
          /\ UNCHANGED <<pinLock, attempt, outcome, radio, stray>>
  /\ UNCHANGED <<entryVars, coordVars, view, codes, executed>>

(* Variation: the write does not wait for the one before it. *)
Acquire_unlocked(o) ==
  /\ pc[o] = "waiting"
  /\ Begin(o, on[o])
  /\ UNCHANGED <<entryVars, coordVars, view, request, on, codes, executed>>

Acquire(o) ==
  /\ pc[o] = "waiting"
  /\ pinLock[on[o]] = NoOp
  /\ Begin(o, on[o])
  /\ UNCHANGED <<entryVars, coordVars, view, request, on, codes, executed>>

(* Variation: an interrupted write keeps the _pin_lock. *)
Finish_cancelKeepsLock(o, how) ==
  /\ pc' = [pc EXCEPT ![o] = "done"]
  /\ outcome' = [outcome EXCEPT ![o] = how]
  /\ pinLock' = [g \in Coordinators |->
                   IF pinLock[g] = o /\ how # "cancelled" THEN NoOp ELSE pinLock[g]]
  /\ UNCHANGED <<request, on, attempt>>

(* The write ends and releases the _pin_lock if it holds it. *)
Finish(o, how) ==
  /\ pc' = [pc EXCEPT ![o] = "done"]
  /\ outcome' = [outcome EXCEPT ![o] = how]
  /\ pinLock' = [g \in Coordinators |-> IF pinLock[g] = o THEN NoOp ELSE pinLock[g]]
  /\ UNCHANGED <<request, on, attempt>>

(* Only a delivered write changes the stored slot: re-read, change, save   *)
(* and release are one step, since nothing in between suspends.            *)
Deliver(o, how) ==
  LET g == on[o]
      s == request[o].slot
      slots == LoadSlots(g)
  IN  /\ SaveSlots(g, [slots EXCEPT ![s] = Written(request[o], slots[s])])
      /\ Finish(o, how)

(* Variation: a refusal changes the stored slot too. *)
AnswerArrives_refusalSaved(o) ==
  /\ pc[o] = "sending"
  /\ \/ radio[o] = "accepted" /\ Deliver(o, "delivered")
     \/ radio[o] = "refused"  /\ Deliver(o, "rejected")
  /\ radio' = [radio EXCEPT ![o] = "idle"]
  /\ UNCHANGED <<coordVars, stray, codes, executed>>

(* The answer arrives.  One without a readable status (nothing to read, or *)
(* the IndexError quirk) counts as delivered without the status being      *)
(* checked.                                                                *)
AnswerArrives(o) ==
  /\ pc[o] = "sending"
  /\ \/ radio[o] = "accepted" /\ Deliver(o, "delivered")
     \/ radio[o] = "refused"  /\ Finish(o, "rejected") /\ UNCHANGED <<entryVars, view>>
     \/ /\ UnreadableAnswers
        /\ radio[o] \in {"accepted", "refused"}
        /\ Deliver(o, "unreadable")
  /\ radio' = [radio EXCEPT ![o] = "idle"]
  /\ UNCHANGED <<coordVars, stray, codes, executed>>

(* TimeoutError or DeliveryError: wake and retry once, then give up. *)
AnswerMissing(o) ==
  /\ pc[o] = "sending"
  /\ GiveUp({o})
  /\ \/ /\ attempt[o] = 1
        /\ pc' = [pc EXCEPT ![o] = "waking"]
        /\ UNCHANGED <<pinLock, request, on, attempt, outcome>>
     \/ attempt[o] = 2 /\ Finish(o, "unreached")
  /\ UNCHANGED <<entryVars, coordVars, view, codes, executed>>

(* Any other error, raised or handed back as the answer, ends it at once. *)
SendFails(o) ==
  /\ pc[o] = "sending"
  /\ GiveUp({o})
  /\ Finish(o, "unreached")
  /\ UNCHANGED <<entryVars, coordVars, view, codes, executed>>

(* wake() returns, whether it worked or not, and the command is sent again. *)
Woken(o) ==
  /\ pc[o] = "waking"
  /\ pc' = [pc EXCEPT ![o] = "sending"]
  /\ attempt' = [attempt EXCEPT ![o] = 2]
  /\ Transmit(o)
  /\ UNCHANGED <<entryVars, coordVars, view, pinLock, request, on, outcome, codes, executed>>

(* The script behind a service call is stopped while the call is suspended. *)
(* A dialog's write runs as a task of its own behind asyncio.shield.        *)
Cancel(o) ==
  /\ pc[o] \in Live
  /\ o \notin DialogOps
  /\ GiveUp({o})
  /\ Finish(o, "cancelled")
  /\ UNCHANGED <<entryVars, coordVars, view, codes, executed>>
-----------------------------------------------------------------------------
(***************************************************************************)
(* Everything else that writes the options, and the entry's life.          *)
(***************************************************************************)

(* set_slot_name: no command, no _pin_lock. *)
SetSlotName(s, n) ==
  LET slots == LoadSlots(current)
      kept  == IF slots[s] = Absent THEN DefaultSlot ELSE slots[s]
      named == [kept EXCEPT !.name = n]
  IN  /\ current # 0
      /\ n = NoName => slots[s] # Absent
      /\ SaveSlots(current, [slots EXCEPT ![s] = IF named = DefaultSlot THEN Absent ELSE named])
      /\ UNCHANGED <<coordVars, pinLock, opVars, radioVars>>

(* The settings dialog, which needs no coordinator to store its value. *)
SettingsStep(r) ==
  /\ reserved' = r
  /\ UNCHANGED <<stored, caps, coordVars, view, pinLock, opVars, radioVars>>

(* async_refresh_capabilities: the lock answers for the first time.  The   *)
(* read is cancelled with the entry's unload.                              *)
RefreshCapabilities ==
  /\ current # 0
  /\ ~caps
  /\ caps' = TRUE
  /\ UNCHANGED <<stored, reserved, coordVars, view, pinLock, opVars, radioVars>>

Unload ==
  /\ current # 0
  /\ current' = 0
  /\ UNCHANGED <<entryVars, loads, building, view, pinLock, opVars, radioVars>>

(* async_setup_entry: the coordinator is built on the slots in the options *)
(* and put in runtime_data, with a wait for the translation file between   *)
(* the two when the language is not cached.                                *)
Build ==
  /\ current = 0 /\ building = 0
  /\ loads < MaxLoads
  /\ loads' = loads + 1
  /\ view' = [view EXCEPT ![loads + 1] = stored]
  /\ IF StringsCached
     THEN current' = loads + 1 /\ building' = 0
     ELSE current' = 0 /\ building' = loads + 1
  /\ UNCHANGED <<entryVars, pinLock, opVars, radioVars>>

Publish ==
  /\ building # 0
  /\ current' = building
  /\ building' = 0
  /\ UNCHANGED <<entryVars, loads, view, pinLock, opVars, radioVars>>

(* Home Assistant stops, and every running write with it. *)
Restart ==
  /\ loads < MaxLoads
  /\ current' = 0 /\ building' = 0
  /\ pinLock' = [g \in Coordinators |-> NoOp]
  /\ pc' = [o \in Ops |-> IF pc[o] \in Live THEN "done" ELSE pc[o]]
  /\ outcome' = [o \in Ops |-> IF pc[o] \in Live THEN "lost" ELSE outcome[o]]
  /\ GiveUp(Ops)
  /\ UNCHANGED <<entryVars, loads, view, request, on, attempt, codes, executed>>

Next ==
  \/ \E o \in Ops :
       \/ \E r \in Request : Ask(o, r)
       \/ Acquire(o)
       \/ LockExecutes(o) \/ LockRefuses(o) \/ StrayExecutes(o)
       \/ AnswerArrives(o) \/ AnswerMissing(o) \/ SendFails(o)
       \/ Woken(o) \/ Cancel(o)
  \/ \E s \in Slots, n \in Names : SetSlotName(s, n)
  \/ \E r \in ReservedChoices : SettingsStep(r)
  \/ RefreshCapabilities
  \/ Unload \/ Build \/ Publish \/ Restart

(* zigpy answers every command or times out, the wake call returns, and a  *)
(* free asyncio.Lock is handed to a waiter.                                *)
Fairness ==
  \A o \in Ops :
    /\ WF_vars(AnswerArrives(o) \/ AnswerMissing(o) \/ SendFails(o))
    /\ WF_vars(Woken(o))
    /\ WF_vars(Acquire(o))

Spec     == Init /\ [][Next]_vars
FairSpec == Spec /\ Fairness
-----------------------------------------------------------------------------
(***************************************************************************)
(* Properties.                                                             *)
(***************************************************************************)

(* Every variable keeps its shape; a write past "new" knows what it was    *)
(* asked and on which coordinator.                                         *)
TypeOK ==
  /\ stored \in SlotMap /\ reserved \in ReservedValues /\ caps \in BOOLEAN
  /\ loads \in Coordinators
  /\ building \in 0..MaxLoads /\ current \in 0..MaxLoads
  /\ view \in [Coordinators -> SlotMap]
  /\ pinLock \in [Coordinators -> Ops \cup {NoOp}]
  /\ pc \in [Ops -> Live \cup {"new", "done"}]
  /\ request \in [Ops -> Request \cup {NoOp}]
  /\ on \in [Ops -> 0..MaxLoads]
  /\ \A o \in Ops : pc[o] # "new" => request[o] \in Request /\ on[o] \in Coordinators
  /\ attempt \in [Ops -> 0..2]
  /\ outcome \in [Ops -> Outcomes]
  /\ radio \in [Ops -> {"idle", "air", "accepted", "refused"}]
  /\ stray \subseteq Ops
  /\ codes \in [Slots -> Ops \cup {NoOp}]
  /\ executed \in [Slots -> Ops \cup {NoOp}]

Store == INSTANCE SlotStore WITH stored <- stored, reserved <- reserved, caps <- caps,
                               Slots <- Slots, Absent <- Absent,
                               ReservedValues <- ReservedValues, ReservedChoices <- ReservedChoices

(* The options behave as one store that every write changes atomically and *)
(* only where it means to, although each coordinator writes back a copy of *)
(* the slots it keeps, across reloads and restarts (_load_slots).          *)
OptionsAreOneStore == Store!Spec

(* The master code's slot 0 is never written from Home Assistant, whatever *)
(* reserved_slots holds (the docstrings of first_user_slot and             *)
(* _check_writable).                                                       *)
MasterUntouched == [][0 \in Slots => codes'[0] = codes[0] /\ executed'[0] = executed[0]]_vars

(* The coordinator the sensors read shows the slots as stored, also after  *)
(* a save by a coordinator a reload has replaced (_save_slots and          *)
(* adopt_stored_slots).  It needs StringsCached: a save that falls between *)
(* the construction of a coordinator and its place in runtime_data reaches *)
(* the options only.                                                       *)
ViewIsCurrent == current # 0 => view[current] = stored

Asked(s) == {o \in Ops : pc[o] # "new" /\ request[o].slot = s}

(* Every write to s was asked for on the same coordinator. *)
OneCoordinator(s) == \A o, p \in Asked(s) : on[o] = on[p]

(* The slot as saved describes the newest write the lock executed, never   *)
(* an older one (the comment on _pin_lock), when one coordinator handled   *)
(* the slot's writes and the lock said what it did.                        *)
SavedIsNewest ==
  [][\A o \in Ops :
       outcome'[o] = "delivered" /\ outcome[o] # "delivered" /\ OneCoordinator(request[o].slot)
         => executed[request[o].slot] = o]_vars

(* The caller of the write the lock executed last for s was told that it   *)
(* went through, and no other write to s ended in an answer whose status   *)
(* could not be read.                                                      *)
Told(s) ==
  /\ executed[s] # NoOp => outcome[executed[s]] \in {"delivered", "unreadable"}
  /\ \A o \in Asked(s) : outcome[o] = "unreadable" => o = executed[s]

(* A slot shows a PIN exactly when the lock holds one, at every moment at  *)
(* which the caller of the write the lock executed last has been told so,  *)
(* as long as one coordinator handled every write to the slot: whatever    *)
(* else was refused, failed, cancelled or lost before or since, a clear    *)
(* that never got through leaves the slot shown as taken, and the next     *)
(* delivered write repairs what an earlier one left wrong (_send and its   *)
(* callers change the slots only after the send returned).  With writes on *)
(* both sides of a reload it does not hold: StoreMatchesLockAcrossReloads. *)
StoreMatchesLock ==
  \A s \in Slots :
    OneCoordinator(s) /\ Told(s) => (Store!HasPin(stored[s]) <=> codes[s] # NoOp)

(* One coordinator has at most one write with the lock at a time. *)
OneWriteAtATime ==
  \A o, p \in Ops :
    /\ pc[o] \in {"sending", "waking"} /\ pc[p] \in {"sending", "waking"}
    /\ on[o] = on[p]
    => o = p

(* Every write a caller asked for ends: the lock held over the send, the   *)
(* wake and the retry is always released.                                  *)
EveryWriteEnds == \A o \in Ops : pc[o] \in Live ~> pc[o] = "done"

(* What the comments and the README say, and what a run refutes.           *)

(* Writes whose caller was told that the lock may not have taken them, or  *)
(* that the code counts as taken without knowing.  A refusal of the retry  *)
(* is one: the first send may have been executed and only its answer lost. *)
InDoubt(o) ==
  \/ outcome[o] \in {"unreached", "unreadable", "cancelled", "lost"}
  \/ outcome[o] = "rejected" /\ attempt[o] = 2

Settled(s) == \A o \in Asked(s) : pc[o] = "done" /\ ~InDoubt(o)

(* The comment on _pin_lock: "One PIN operation at a time per lock", or    *)
(* local state ends up "describing the older of two writes".  The lock is  *)
(* one per coordinator, so this fails for a write that outlived a reload.  *)
StoreMatchesLockAcrossReloads ==
  \A s \in Slots : Settled(s) => (Store!HasPin(stored[s]) <=> codes[s] # NoOp)
==============================================================================
