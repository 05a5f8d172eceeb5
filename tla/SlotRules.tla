------------------------------ MODULE SlotRules ------------------------------
(***************************************************************************)
(* The rules of pin_rules.py that decide which slots a lock's owner may    *)
(* write, and the shape of a stored slot (DEFAULT_SLOT in const.py).       *)
(***************************************************************************)
EXTENDS Integers

CONSTANTS
  NotANumber,  \* a stored reserved_slots that is missing or not an integer
  NoName,      \* the empty name
  Names        \* the names a slot can carry, NoName among them

ASSUME NotANumberAssumption == NotANumber \notin Int
ASSUME NamesAssumption == NoName \in Names

RESERVED_SLOTS_MIN == 1
RESERVED_SLOTS_MAX == 3
SLOT_FIRST_USER    == 3

Smaller(a, b) == IF a < b THEN a ELSE b
Larger(a, b)  == IF a > b THEN a ELSE b

(* Variation: the stored value is used as it is. *)
FirstUserSlot_unclamped(value) == IF value = NotANumber THEN SLOT_FIRST_USER ELSE value

(* The lowest slot a PIN may be written to or cleared from, whatever the   *)
(* options hold: they can be edited by hand.                               *)
FirstUserSlot(value) ==
  IF value = NotANumber
  THEN SLOT_FIRST_USER
  ELSE Larger(RESERVED_SLOTS_MIN, Smaller(RESERVED_SLOTS_MAX, value))

SlotRecord  == [name : Names, hasPin : BOOLEAN]
DefaultSlot == [name |-> NoName, hasPin |-> FALSE]
==============================================================================
