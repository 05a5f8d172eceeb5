---------------------------- MODULE MCLockActivity ----------------------------
(***************************************************************************)
(* A small instance of LockActivity for TLC.                               *)
(***************************************************************************)
EXTENDS LockActivity, TLC

(* A person at the lock, the dashboard, the lock itself, and values that   *)
(* are on no list.  Slot 300 does not fit a byte.                          *)
MCFrames ==
  { [slot |-> 0,   action |-> ACTION_LOCK,   source |-> SOURCE_ZIGBEE],
    [slot |-> 0,   action |-> ACTION_UNLOCK, source |-> 2],
    [slot |-> 300, action |-> ACTION_LOCK,   source |-> 4],
    [slot |-> 0,   action |-> ACTION_UNLOCK, source |-> SOURCE_UNATTRIBUTED],
    [slot |-> 0,   action |-> ACTION_LOCK,   source |-> SOURCE_AUTO],
    [slot |-> 300, action |-> 9,             source |-> 7] }

WakeSymmetry == Permutations(Wakes)

(* What no action and no property reads any more is left out: the last     *)
(* event on the bus, the restore cache of a sensor that is there, and what *)
(* is remembered of a wake that is over.                                   *)
Seen ==
  << entryVars, shown, IF sensor THEN Nothing ELSE stored, wake, lastWake, windows, executed,
     [w \in Wakes |-> IF Waking(w) \/ w \in InWindow THEN on[w] ELSE 1],
     [w \in Wakes |-> IF wake[w] = "calling" THEN previous[w] ELSE NoWake] >>
=============================================================================
