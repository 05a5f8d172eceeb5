------------------------------ MODULE LockFlows ------------------------------
(***************************************************************************)
(* The dialogs of the integration, config_flow.py, with the discovery      *)
(* that __init__.py starts.  Config flows decide which config entry stands *)
(* for which lock: the user's own step, reconfigure, the Discovered card   *)
(* and its Ignore button.  The options flow of a loaded entry carries a    *)
(* PIN write from its form through a spinner and back.                     *)
(*                                                                         *)
(* A step is one call of a flow step; none of them waits for anything      *)
(* before it has changed what it changes.  Home Assistant's flow manager   *)
(* is modelled as the source uses it: a flow with a unique id keeps a      *)
(* second one from it, and a new entry ends the other flows of its id.     *)
(* Addresses are compared exactly; a lock has one model.                   *)
(***************************************************************************)
EXTENDS Naturals, FiniteSets

CONSTANTS
  Locks,      \* the IEEE addresses of Onesti locks
  Entries,    \* the config entries there can be at a time, ignored ones included
  Flows,      \* the config flows there can be at a time
  None,
  MaxSubmits  \* bound: how often a form of a dialog is sent in

ASSUME IdsAssumption  == Entries \subseteq Nat /\ Flows \subseteq Nat /\ None \notin Nat /\ None \notin Locks
ASSUME MaxAssumption  == MaxSubmits \in Nat

Entry == [lock : Locks, ignored : BOOLEAN]
Flow  == [kind : {"user", "reconfigure", "card"}, unique : Locks \cup {None},
          offered : SUBSET Locks, entry : Entries \cup {None}]

ASSUME RecordAssumption == None \notin Entry /\ None \notin Flow

VARIABLES
  zha,       \* the locks ZHA knows
  zhaUp,     \* is_zha_loaded
  entries,   \* the config entries; an ignored one has a unique id and no data
  flows,     \* the config flows in progress
  watching,  \* the integration has been loaded: async_setup registered the watch
  asked,     \* discovery flows created but not yet run
  viaId,     \* HAS_VIA_DEVICE_ID: Home Assistant 2026.9 or newer
  loaded,    \* entries that are set up
  rows,      \* the zigbee connections on the device of an entry
  merged,    \* entries whose device an earlier install let Home Assistant fold into ZHA's
  \* An options dialog, one at a time.
  dialog,    \* "closed", "menu", or the form it is in
  step,      \* the step Home Assistant runs next, or "none"
  input,     \* what was sent in is attached to it
  task,      \* _set_pin_task or _clear_pin_task
  error,     \* _set_pin_error or _clear_pin_error
  \* History of the dialog that is open.
  submits,   \* valid forms sent in
  writes     \* PIN writes started

zhaVars    == <<zha, zhaUp>>
flowVars   == <<entries, flows, watching, asked>>
deviceVars == <<viaId, loaded, rows, merged>>
dialogVars == <<dialog, step, input, task, error, submits, writes>>
vars == <<zhaVars, flowVars, deviceVars, dialogVars>>

Idle == step = "none"

TypeOK ==
  /\ zha \in SUBSET Locks /\ zhaUp \in BOOLEAN
  /\ entries \in [Entries -> Entry \cup {None}]
  /\ flows \in [Flows -> Flow \cup {None}]
  /\ watching \in BOOLEAN
  /\ asked \in SUBSET Locks
  /\ viaId \in BOOLEAN
  /\ loaded \in SUBSET Entries
  /\ rows \in [Entries -> SUBSET Locks]
  /\ merged \in SUBSET Entries
  /\ dialog \in {"closed", "menu", "set_pin", "clear_pin"}
  /\ step \in {"none", "form", "progress", "done"} /\ input \in BOOLEAN
  /\ task \in {"none", "running", "failed", "ok"}
  /\ error \in BOOLEAN
  /\ submits \in Nat /\ writes \in Nat

(* Home Assistant starts, for the first time with this integration.        *)
NoEntries ==
  /\ entries = [e \in Entries |-> None]
  /\ watching = FALSE
  /\ rows = [e \in Entries |-> {}] /\ merged = {}

(* Or with the entry of a lock whose device an earlier install made, on    *)
(* this release of Home Assistant or an older one: with the lock's zigbee  *)
(* connection or without, and through 2026.8, where that connection is     *)
(* unique in the whole registry, perhaps folded into ZHA's device.         *)
EarlierEntry(e, a) ==
  /\ entries = [d \in Entries |-> IF d = e THEN [lock |-> a, ignored |-> FALSE] ELSE None]
  /\ watching = TRUE
  /\ rows \in {[d \in Entries |-> {}], [d \in Entries |-> IF d = e THEN {a} ELSE {}]}
  /\ merged \in SUBSET {e} /\ (merged # {} => ~viaId /\ rows[e] = {a})

Init ==
  /\ zha \in SUBSET Locks /\ zhaUp = FALSE
  /\ viaId \in BOOLEAN
  /\ NoEntries \/ \E e \in Entries, a \in Locks : EarlierEntry(e, a)
  /\ flows = [f \in Flows |-> None]
  /\ asked = {} /\ loaded = {}
  /\ dialog = "closed" /\ step = "none" /\ input = FALSE /\ task = "none" /\ error = FALSE
  /\ submits = 0 /\ writes = 0
-----------------------------------------------------------------------------
(***************************************************************************)
(* What the flows look at.                                                 *)
(***************************************************************************)

IsLock(e)  == entries[e] # None /\ ~entries[e].ignored
Ignored(e) == entries[e] # None /\ entries[e].ignored

(* iter_onesti_locks: without ZHA there are none. *)
InZha == IF zhaUp THEN zha ELSE {}

(* The addresses in entries or unique ids, but for one entry. *)
TakenBut(skip)   == {entries[e].lock : e \in {d \in Entries : IsLock(d) /\ d # skip}}
IgnoredLocks     == {entries[e].lock : e \in {d \in Entries : Ignored(d)}}

(* _locks_on_offer *)
OnOffer(skip, offerIgnored) ==
  InZha \ (TakenBut(skip) \cup IF offerIgnored THEN {} ELSE IgnoredLocks)

(* async_set_unique_id and _abort_if_unique_id_configured, as these flows use them. *)
InProgress(a, f) == \E g \in Flows : g # f /\ flows[g] # None /\ flows[g].unique = a
Configured(a)    == \E e \in Entries : entries[e] # None /\ entries[e].lock = a

(* New flows and entries get the lowest id that is free. *)
FreeFlow(f)  == flows[f] = None /\ \A g \in Flows : flows[g] = None => f <= g
FreeEntry(e) == entries[e] = None /\ \A d \in Entries : entries[d] = None => e <= d

Without(fs, gone) == [f \in Flows |-> IF f \in gone THEN None ELSE fs[f]]
OfLock(a)         == {f \in Flows : flows[f] # None /\ flows[f].unique = a}
-----------------------------------------------------------------------------
(***************************************************************************)
(* Config flows.                                                           *)
(***************************************************************************)

Opens(f, flow) ==
  /\ FreeFlow(f)
  /\ flows' = [flows EXCEPT ![f] = flow]
  /\ UNCHANGED <<zhaVars, entries, watching, asked, deviceVars, dialogVars>>

Ends(f) ==
  /\ flows' = Without(flows, {f})
  /\ UNCHANGED <<zhaVars, entries, watching, asked, deviceVars, dialogVars>>

(* device_gone: the form again, with the locks there are now. *)
AsksAgain(f, a, locks) ==
  /\ flows' = [flows EXCEPT ![f].unique = a, ![f].offered = locks]
  /\ UNCHANGED <<zhaVars, entries, watching, asked, deviceVars, dialogVars>>

(* A finished flow: an entry that has its unique id is replaced, the other *)
(* flows of that id are ended, and the integration is loaded.              *)
Creates(f, a, ignored) ==
  /\ \E e \in Entries :
       /\ FreeEntry(e)
       /\ entries' = [d \in Entries |->
            IF d = e THEN [lock |-> a, ignored |-> ignored]
            ELSE IF entries[d] # None /\ entries[d].lock = a THEN None ELSE entries[d]]
  /\ LET changed == {d \in Entries : entries'[d] # entries[d]} IN
     /\ rows' = [d \in Entries |-> IF d \in changed THEN {} ELSE rows[d]]
     /\ loaded' = loaded \ changed /\ merged' = merged \ changed
  /\ flows' = Without(flows, OfLock(a) \cup {f})
  /\ watching' = (watching \/ ~ignored)
  /\ UNCHANGED <<zhaVars, asked, viaId, dialogVars>>

(* async_step_user: the form, with the locks that are free. *)
UserStep(f) ==
  /\ OnOffer(None, FALSE) # {}
  /\ Opens(f, [kind |-> "user", unique |-> None, offered |-> OnOffer(None, FALSE), entry |-> None])

(* async_step_user with a choice. *)
UserSubmit(f, a) ==
  /\ flows[f] # None /\ flows[f].kind = "user" /\ a \in flows[f].offered
  /\ LET locks == OnOffer(None, FALSE) IN
     \/ /\ locks = {} \/ InProgress(a, f) \/ Configured(a)
        /\ Ends(f)
     \/ /\ locks # {} /\ ~InProgress(a, f) /\ ~Configured(a)
        /\ IF a \in locks THEN Creates(f, a, FALSE) ELSE AsksAgain(f, a, locks)

(* async_step_reconfigure: the entry's own lock is offered, ignored ones are. *)
ReconfigureStep(f, e) ==
  /\ IsLock(e) /\ OnOffer(e, TRUE) # {}
  /\ Opens(f, [kind |-> "reconfigure", unique |-> None, offered |-> OnOffer(e, TRUE), entry |-> e])

(* _drop_replaced_address: a row that is ZHA's too is left alone. *)
DropReplaced(e, a) ==
  rows' = IF e \in merged THEN rows ELSE [rows EXCEPT ![e] = @ \cap {a}]

HasTaken(e, a) ==
  [d \in Entries |-> IF Ignored(d) /\ entries[d].lock = a THEN None
                     ELSE IF d = e THEN [entries[e] EXCEPT !.lock = a] ELSE entries[d]]

(* Variation: an ignored entry of the address stays. *)
Takes_keepsIgnored(f, e, a) ==
  /\ entries' = [entries EXCEPT ![e].lock = a]
  /\ flows' = Without(flows, OfLock(a) \cup {f})
  /\ DropReplaced(e, a)

(* Variation: a Discovered card of the address stays. *)
Takes_keepsCard(f, e, a) ==
  /\ entries' = HasTaken(e, a)
  /\ flows' = Without(flows, {f})
  /\ DropReplaced(e, a)

(* Variation: the old address stays on the device. *)
Takes_keepsAddress(f, e, a) ==
  /\ entries' = HasTaken(e, a)
  /\ flows' = Without(flows, OfLock(a) \cup {f})
  /\ UNCHANGED rows

(* _clear_the_way_for, and the entry takes the address. *)
Takes(f, e, a) ==
  /\ entries' = HasTaken(e, a)
  /\ flows' = Without(flows, OfLock(a) \cup {f})
  /\ DropReplaced(e, a)

(* async_step_reconfigure with a choice; the entry is reloaded after it. *)
ReconfigureSubmit(f, a) ==
  /\ flows[f] # None /\ flows[f].kind = "reconfigure" /\ a \in flows[f].offered
  /\ LET e     == flows[f].entry
         locks == OnOffer(e, TRUE) IN
     \/ /\ locks = {} \/ a \in TakenBut(e)
        /\ Ends(f)
     \/ /\ locks # {} /\ a \notin TakenBut(e) /\ a \notin locks
        /\ flows' = [flows EXCEPT ![f].offered = locks]
        /\ UNCHANGED <<zhaVars, entries, watching, asked, deviceVars, dialogVars>>
     \/ /\ a \in locks
        /\ Takes(f, e, a)
        /\ loaded' = loaded \ {e}
        /\ UNCHANGED <<zhaVars, watching, asked, viaId, merged, dialogVars>>

(* async_step_integration_discovery: stopped by its unique id, or a card. *)
DiscoveryStep(a) ==
  /\ a \in asked
  /\ asked' = asked \ {a}
  /\ IF InProgress(a, None) \/ Configured(a)
     THEN UNCHANGED flows
     ELSE \E f \in Flows :
            /\ FreeFlow(f)
            /\ flows' = [flows EXCEPT ![f] = [kind |-> "card", unique |-> a, offered |-> {}, entry |-> None]]
  /\ UNCHANGED <<zhaVars, entries, watching, deviceVars, dialogVars>>

(* async_step_discovery_confirm, which looks at nothing, and Ignore. *)
CardPressed(f, ignored) ==
  /\ flows[f] # None /\ flows[f].kind = "card"
  /\ Creates(f, flows[f].unique, ignored)

(* A form is closed; a card can only be used or ignored. *)
CloseForm(f) ==
  /\ flows[f] # None /\ flows[f].kind # "card"
  /\ Ends(f)
-----------------------------------------------------------------------------
(***************************************************************************)
(* Entries and ZHA.                                                        *)
(***************************************************************************)

(* _async_discover_locks: a flow for every lock that no entry knows. *)
Looks(up, locks) ==
  asked' = asked \cup (IF watching /\ up THEN {a \in locks : ~Configured(a)} ELSE {})

(* A device of ZHA is new or has changed, or the devices change. *)
ZhaDevices(locks) ==
  /\ zhaUp
  /\ zha' = locks
  /\ Looks(TRUE, locks)
  /\ UNCHANGED <<zhaUp, entries, flows, watching, deviceVars, dialogVars>>

(* ZHA reaches LOADED, or leaves it. *)
ZhaState ==
  /\ zhaUp' = ~zhaUp
  /\ Looks(zhaUp', zha)
  /\ UNCHANGED <<zha, entries, flows, watching, deviceVars, dialogVars>>

(* The zigbee connections build_device_info sends: the lock's address from *)
(* 2026.9 on, and none on the releases where it would fold the device into *)
(* ZHA's.                                                                  *)
BuildDeviceInfo(e) == IF viaId THEN {entries[e].lock} ELSE {}

(* async_setup_entry, as far as the device goes: the registry adds the     *)
(* connections it is given to the row and takes none away.                 *)
SetUp(e) ==
  /\ IsLock(e) /\ e \notin loaded
  /\ zhaUp => entries[e].lock \in zha
  /\ loaded' = loaded \cup {e}
  /\ rows' = [rows EXCEPT ![e] = @ \cup BuildDeviceInfo(e)]
  /\ UNCHANGED <<zhaVars, flowVars, viaId, merged, dialogVars>>

(* The user deletes an entry, or stops ignoring a lock. *)
Remove(e) ==
  /\ entries[e] # None
  /\ entries' = [entries EXCEPT ![e] = None]
  /\ flows' = Without(flows, {f \in Flows : flows[f] # None /\ flows[f].entry = e})
  /\ loaded' = loaded \ {e} /\ rows' = [rows EXCEPT ![e] = {}] /\ merged' = merged \ {e}
  /\ UNCHANGED <<zhaVars, watching, asked, viaId, dialogVars>>

(* What a step returns is shown, and somebody has to act. *)
Shown == step' = "none" /\ input' = FALSE

(* No dialog is open: the next one starts from here. *)
Closed ==
  /\ dialog' = "closed" /\ Shown /\ task' = "none" /\ error' = FALSE
  /\ submits' = 0 /\ writes' = 0

(* Home Assistant starts again: dialogs are gone, and the integration is   *)
(* loaded if it has an entry that is not an ignored one.                   *)
Restart ==
  /\ flows' = [f \in Flows |-> None]
  /\ asked' = {} /\ loaded' = {} /\ zhaUp' = FALSE
  /\ watching' = \E e \in Entries : IsLock(e)
  /\ Closed
  /\ UNCHANGED <<zha, entries, viaId, rows, merged>>
-----------------------------------------------------------------------------
(***************************************************************************)
(* The options dialog of a loaded entry.                                   *)
(***************************************************************************)

Elsewhere == UNCHANGED <<zhaVars, flowVars, deviceVars>>

(* async_step_init *)
OpenDialog ==
  /\ dialog = "closed" /\ loaded # {}
  /\ dialog' = "menu" /\ submits' = 0 /\ writes' = 0
  /\ UNCHANGED <<step, input, task, error>> /\ Elsewhere

Choose(form) ==
  /\ dialog = "menu"
  /\ dialog' = form /\ step' = "form" /\ input' = FALSE
  /\ UNCHANGED <<task, error, submits, writes>> /\ Elsewhere

(* The form is sent in; a PIN that breaks the rules is asked for again. *)
Submit ==
  /\ dialog \in {"set_pin", "clear_pin"} /\ Idle /\ task = "none" /\ submits < MaxSubmits
  /\ step' = "form" /\ input' = TRUE
  /\ submits' = submits + 1
  /\ UNCHANGED <<dialog, task, error, writes>> /\ Elsewhere

(* no_active_slots: another writer has taken the last PIN away. *)
NothingToClear ==
  /\ step = "form" /\ dialog = "clear_pin"
  /\ Closed /\ Elsewhere

(* Variation: what was submitted is looked at before the pending error. *)
FormStep_inputFirst ==
  /\ step = "form"
  /\ IF input
     THEN step' = "progress" /\ UNCHANGED <<input, error>>
     ELSE Shown /\ error' = FALSE
  /\ UNCHANGED <<dialog, task, submits, writes>> /\ Elsewhere

(* What the forms share: a pending error is shown, whatever input comes    *)
(* with it.                                                                *)
FormStep ==
  /\ step = "form"
  /\ IF input /\ ~error
     THEN step' = "progress" /\ UNCHANGED <<input, error>>
     ELSE Shown /\ error' = FALSE
  /\ UNCHANGED <<dialog, task, submits, writes>> /\ Elsewhere

SetPinForm   == dialog = "set_pin" /\ FormStep
ClearPinForm == dialog = "clear_pin" /\ FormStep

(* The outcome is taken: back to the form, or on to the end. *)
Route(how) ==
  /\ task' = "none" /\ error' = (how = "failed")
  /\ step' = IF how = "failed" THEN "form" ELSE "done"
  /\ UNCHANGED input

(* What the spinners share; a write may end at once. *)
ProgressStep ==
  /\ step = "progress"
  /\ \/ /\ task = "none" /\ writes' = writes + 1
        /\ \/ task' = "running" /\ Shown /\ UNCHANGED error
           \/ \E how \in {"failed", "ok"} : Route(how)
     \/ /\ task = "running" /\ Shown
        /\ UNCHANGED <<task, error, writes>>
     \/ /\ task \in {"failed", "ok"} /\ Route(task)
        /\ UNCHANGED writes
  /\ UNCHANGED <<dialog, submits>> /\ Elsewhere

SetPinProgress   == dialog = "set_pin" /\ ProgressStep
ClearPinProgress == dialog = "clear_pin" /\ ProgressStep

(* Home Assistant runs the spinner's step again: the write is done, or     *)
(* somebody loads the page.                                                *)
Refresh ==
  /\ dialog # "closed" /\ Idle /\ task # "none"
  /\ step' = "progress" /\ input' = FALSE
  /\ UNCHANGED <<dialog, task, error, submits, writes>> /\ Elsewhere

WriteEnds(how) ==
  /\ task = "running"
  /\ task' = how
  /\ UNCHANGED <<dialog, step, input, error, submits, writes>> /\ Elsewhere

DoneStep ==
  /\ step = "done"
  /\ Closed /\ Elsewhere

SetPinDone   == dialog = "set_pin" /\ DoneStep
ClearPinDone == dialog = "clear_pin" /\ DoneStep

(* The dialog is closed; a write in flight goes on by itself. *)
CloseDialog ==
  /\ dialog # "closed" /\ Idle
  /\ Closed /\ Elsewhere

Next ==
  \/ \E f \in Flows :
       \/ UserStep(f) \/ CloseForm(f)
       \/ \E e \in Entries : ReconfigureStep(f, e)
       \/ \E a \in Locks : UserSubmit(f, a) \/ ReconfigureSubmit(f, a)
       \/ \E ignored \in BOOLEAN : CardPressed(f, ignored)
  \/ \E a \in Locks : DiscoveryStep(a)
  \/ \E locks \in SUBSET Locks : ZhaDevices(locks)
  \/ ZhaState \/ Restart
  \/ \E e \in Entries : SetUp(e) \/ Remove(e)
  \/ OpenDialog \/ \E form \in {"set_pin", "clear_pin"} : Choose(form)
  \/ Submit \/ SetPinForm \/ ClearPinForm \/ NothingToClear
  \/ SetPinProgress \/ ClearPinProgress \/ Refresh
  \/ \E how \in {"failed", "ok"} : WriteEnds(how)
  \/ SetPinDone \/ ClearPinDone \/ CloseDialog

Spec == Init /\ [][Next]_vars
-----------------------------------------------------------------------------
(***************************************************************************)
(* Properties.                                                             *)
(***************************************************************************)

(* A lock is held by one entry, an ignored one included, whichever way the *)
(* entries got to it: no two flows end up with the same address            *)
(* (async_step_user, async_step_reconfigure, async_step_discovery_confirm).*)
OneHolder ==
  \A d, e \in Entries :
    d # e /\ entries[d] # None /\ entries[e] # None => entries[d].lock # entries[e].lock

(* An entry outlives every flow, and with it the slots it stores: only the *)
(* user's own deletion takes it away (_clear_the_way_for, and              *)
(* _create_lock_entry, whose entry would replace the one of its lock).     *)
EntryKept == [][\A e \in Entries : IsLock(e) => IsLock(e)' \/ Remove(e)]_vars

(* The device of an entry never carries the address of another lock than   *)
(* the one the entry stands for now, and once it has been set up on Home   *)
(* Assistant 2026.9 or newer it carries that one (build_device_info only   *)
(* ever adds, so _drop_replaced_address has to take the old one off at     *)
(* each change of address).  A device that an earlier install let the      *)
(* registry fold into ZHA's is excepted: the row is ZHA's too, and the     *)
(* code leaves the address on it alone.                                    *)
AddressIsOwn ==
  \A e \in Entries \ merged :
    /\ IsLock(e) => rows[e] \subseteq {entries[e].lock}
    /\ e \in loaded /\ viaId => entries[e].lock \in rows[e]

(* Each form sent in starts one write, and nothing else starts one: not a  *)
(* failed write on its way back, and not a page that is loaded again       *)
(* (async_step_set_pin_progress, async_step_clear_pin).                    *)
OneWritePerForm ==
  /\ writes <= submits
  /\ dialog \in {"set_pin", "clear_pin"} /\ Idle => writes = submits
=============================================================================
