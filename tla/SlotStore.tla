------------------------------ MODULE SlotStore ------------------------------
(***************************************************************************)
(* What the config entry promises about its options: a store that every    *)
(* write changes in one step, and only in the part it is about.  A write   *)
(* to a slot leaves the other slots, the reserved-slots setting and the    *)
(* lock's capabilities as the newest earlier write left them, whichever    *)
(* coordinator made either of the two.  Capabilities, once stored, stay.   *)
(***************************************************************************)
EXTENDS SlotRules

CONSTANTS
  Slots,           \* the slot numbers of the lock
  Absent,          \* no record is stored for a slot
  ReservedValues,  \* what reserved_slots can hold, hand-edited values included
  ReservedChoices  \* what the settings dialog lets the user choose

VARIABLES
  stored,    \* options["slots"]
  reserved,  \* options["reserved_slots"]
  caps       \* whether options["capabilities"] is there

storeVars == <<stored, reserved, caps>>

SlotMap == [Slots -> SlotRecord \cup {Absent}]

Init ==
  /\ stored = [s \in Slots |-> Absent]
  /\ reserved \in ReservedValues
  /\ caps = FALSE

Put(s, record) ==
  /\ stored' = [stored EXCEPT ![s] = record]
  /\ UNCHANGED <<reserved, caps>>

(* The name a slot shows, "" when nothing is stored for it. *)
NameOf(record) == IF record = Absent THEN NoName ELSE record.name
HasPin(record) == record # Absent /\ record.hasPin

PinSet(s, n)   == Put(s, [name |-> n, hasPin |-> TRUE])
PinCleared(s)  == Put(s, [name |-> NameOf(stored[s]), hasPin |-> FALSE])
SlotCleared(s) == Put(s, DefaultSlot)

(* A slot with neither a name nor a PIN is not kept when its name goes. *)
Named(s, n) ==
  \/ /\ n # NoName
     /\ Put(s, [name |-> n, hasPin |-> HasPin(stored[s])])
  \/ /\ n = NoName
     /\ stored[s] # Absent
     /\ Put(s, IF stored[s].hasPin THEN [name |-> NoName, hasPin |-> TRUE] ELSE Absent)

ReservedSet(r) ==
  /\ reserved' = r
  /\ UNCHANGED <<stored, caps>>

CapabilitiesStored ==
  /\ caps' = TRUE
  /\ UNCHANGED <<stored, reserved>>

Next ==
  \/ \E s \in Slots :
       \/ \E n \in Names : PinSet(s, n) \/ Named(s, n)
       \/ PinCleared(s)
       \/ SlotCleared(s)
  \/ \E r \in ReservedChoices : ReservedSet(r)
  \/ CapabilitiesStored

Spec == Init /\ [][Next]_storeVars
==============================================================================
