----------------------------- MODULE LockActivity -----------------------------
(***************************************************************************)
(* What a lock's reports become: the operation event decoded               *)
(* (decode_operation_event), the lock nobody can be credited with          *)
(* (is_system_lock), the activity sensor and its stored state (sensor.py), *)
(* and the echo of the integration's own wakes (ZhaLockTransport.wake).    *)
(*                                                                         *)
(* A wake belongs to one write, in whose send() it runs.  A write goes on  *)
(* with the coordinator it began on, and with its transport, when the      *)
(* entry is loaded again meanwhile.  A window of WAKE_ECHO_WINDOW_S after  *)
(* a wake is a state that ends, not a clock; all last equally long.        *)
(***************************************************************************)
EXTENDS Integers, Sequences

CONSTANTS
  Wakes,      \* the wakes that may happen, each of one write
  NoWake,
  Frames,     \* the operation events the lock reports of its own
  NoUser,     \* user_slot None
  Nothing,    \* an activity sensor that shows nothing yet
  MaxLoads    \* bound: how many coordinators setups have built

Word  == 0..65535
Octet == 0..255
Frame == [slot : Word, action : Octet, source : Octet]

ASSUME FramesAssumption == Frames \subseteq Frame
ASSUME NamesAssumption  == NoWake \notin Wakes /\ NoUser \notin Int
ASSUME LoadsAssumption  == MaxLoads \in Nat \ {0}

VARIABLES
  loads,     \* the coordinators built so far; the last one is the entry's
  phase,     \* the entry, from "setting_up" to "loaded" to "unloaded"
  sensor,    \* the coordinator's _activity_sensor is set
  shown,     \* the sensor's _activity, and what it is about
  stored,    \* what the restore cache keeps of it
  fired,     \* the last onesti_lock_activity on the bus
  wake,      \* where each wake is
  on,        \* the coordinator whose transport it runs in
  previous,  \* its previous_wake
  lastWake,  \* _last_wake of each coordinator's transport
  windows,   \* the wakes whose window is not over, in the order of their stamps
  executed   \* the wakes whose lock command the lock has executed

entryVars == <<loads, phase, sensor>>
eventVars == <<shown, stored, fired>>
wakeVars  == <<wake, on, previous, lastWake, windows>>
vars      == <<entryVars, eventVars, wakeVars, executed>>

Loads    == 1..MaxLoads
InWindow == {windows[i] : i \in 1..Len(windows)}
-----------------------------------------------------------------------------
(***************************************************************************)
(* The operation event: a bitmap32 on attribute 0x0100.                    *)
(***************************************************************************)
ACTION_LOCK   == 1
ACTION_UNLOCK == 2

SOURCE_ZIGBEE       == 0
CREDENTIAL_SOURCES  == {2, 3, 4}   \* keypad, fingerprint, rfid
SOURCE_UNATTRIBUTED == 5
SOURCE_AUTO         == 10
KnownSources        == {SOURCE_ZIGBEE, SOURCE_UNATTRIBUTED, SOURCE_AUTO} \cup CREDENTIAL_SOURCES
KnownActions        == {ACTION_LOCK, ACTION_UNLOCK}
Unknown             == 256

(* The lock's side: the value it reports. *)
Bitmap(f) == f.slot + 65536 * f.action + 16777216 * f.source

Byte(val, n) == (val \div (IF n = 2 THEN 65536 ELSE 16777216)) % 256

(* Variations: the slot is read from its low byte alone, or not cut out. *)
Slot_lowByte(val)  == val % 256
Slot_unmasked(val) == val

Slot(val) == val % 65536

(* decode_operation_event. *)
Decode(val) ==
  LET source == Byte(val, 3)
      action == Byte(val, 2)
      noUser == Slot(val) = 0 /\ source \notin CREDENTIAL_SOURCES
  IN [user   |-> IF noUser THEN NoUser ELSE Slot(val),
      action |-> IF action \in KnownActions THEN action ELSE Unknown,
      source |-> IF source \in KnownSources THEN source ELSE Unknown]

Events ==
  [user : Word \cup {NoUser}, action : KnownActions \cup {Unknown}, source : KnownSources \cup {Unknown}]

AnonymousLock(d) == d.action = ACTION_LOCK /\ d.user = NoUser

(* Variation: an unattributed unlock is nobody's either. *)
IsSystemLock_anyUnattributed(d, echoPending) ==
  \/ d.source \in {SOURCE_AUTO, SOURCE_UNATTRIBUTED}
  \/ d.source = SOURCE_ZIGBEE /\ AnonymousLock(d) /\ echoPending

(* is_system_lock: a lock no person can be credited with. *)
IsSystemLock(d, echoPending) ==
  \/ d.source = SOURCE_AUTO
  \/ d.source = SOURCE_UNATTRIBUTED /\ AnonymousLock(d)
  \/ d.source = SOURCE_ZIGBEE /\ AnonymousLock(d) /\ echoPending

(* What the lock reports for a wake: a lock without a user, as from the    *)
(* dashboard, or unattributed on the models that cannot tell.              *)
EchoFrames == [slot : {0}, action : {ACTION_LOCK}, source : {SOURCE_ZIGBEE, SOURCE_UNATTRIBUTED}]
-----------------------------------------------------------------------------
Init ==
  /\ loads = 1 /\ phase = "setting_up" /\ sensor = FALSE
  /\ shown = Nothing /\ stored = Nothing /\ fired = Nothing
  /\ wake = [w \in Wakes |-> "unasked"]
  /\ on = [w \in Wakes |-> 1]
  /\ previous = [w \in Wakes |-> NoWake]
  /\ lastWake = [g \in Loads |-> NoWake]
  /\ windows = <<>>
  /\ executed = {}

(***************************************************************************)
(* Reports.                                                                *)
(***************************************************************************)
Listening == phase \in {"loaded", "unloading"}

(* wake_echo_pending of the coordinator whose listener it is. *)
WakeEchoPending == lastWake[loads] \in InWindow

(* _handle_report for an operation event; author is the wake it is the     *)
(* echo of.  Without a listener a report reaches nobody.                   *)
HandleReport(f, author) ==
  LET d == Decode(Bitmap(f)) IN
  /\ Listening
  /\ shown' = IF sensor /\ ~IsSystemLock(d, WakeEchoPending)
              THEN [event |-> d, author |-> author] ELSE shown
  /\ fired' = d
  /\ UNCHANGED <<entryVars, stored, wakeVars, executed>>

Report(f)  == HandleReport(f, NoWake)

(* The lock may report a wake more than once. *)
Echo(w, f) == w \in executed /\ HandleReport(f, w)
-----------------------------------------------------------------------------
(***************************************************************************)
(* ZhaLockTransport.wake.  _pin_lock lets one write of a coordinator send  *)
(* at a time.                                                              *)
(***************************************************************************)
Waking(w) == wake[w] \in {"calling", "settling"}

MayWake(w, g) == wake[w] = "unasked" /\ \A v \in Wakes : Waking(v) => on[v] # g

NoLockEntity(w) ==
  /\ wake[w] = "unasked"
  /\ wake' = [wake EXCEPT ![w] = "skipped"]
  /\ UNCHANGED <<entryVars, eventVars, on, previous, lastWake, windows, executed>>

(* Variation: the wake is stamped when the service call has returned. *)
BeginWake_unstamped(w, g) ==
  /\ MayWake(w, g)
  /\ wake' = [wake EXCEPT ![w] = "calling"]
  /\ on' = [on EXCEPT ![w] = g]
  /\ previous' = [previous EXCEPT ![w] = lastWake[g]]
  /\ windows' = Append(windows, w)
  /\ UNCHANGED <<entryVars, eventVars, lastWake, executed>>

(* The stamp, and the lock.lock service call. *)
BeginWake(w, g) ==
  /\ MayWake(w, g)
  /\ wake' = [wake EXCEPT ![w] = "calling"]
  /\ on' = [on EXCEPT ![w] = g]
  /\ previous' = [previous EXCEPT ![w] = lastWake[g]]
  /\ lastWake' = [lastWake EXCEPT ![g] = w]
  /\ windows' = Append(windows, w)
  /\ UNCHANGED <<entryVars, eventVars, executed>>

(* A write of the loaded coordinator, or one that began before a reload. *)
Wake(w) ==
  \E g \in 1..loads : (g = loads => phase # "setting_up") /\ BeginWake(w, g)

WakeGoesOn(w, from, to) ==
  /\ wake[w] = from
  /\ wake' = [wake EXCEPT ![w] = to]
  /\ UNCHANGED <<entryVars, eventVars, on, previous, lastWake, windows, executed>>

CallReturns(w) == WakeGoesOn(w, "calling", "settling")
Settled(w)     == WakeGoesOn(w, "settling", "done")

(* The write is cancelled with the script that asked for it; that is not   *)
(* an Exception, so the stamp stays.                                       *)
CancelWake(w) == WakeGoesOn(w, "calling", "done") \/ WakeGoesOn(w, "settling", "done")

(* Variation: a failed call leaves no stamp, not even an earlier one. *)
WakeFails_clears(w) ==
  /\ wake[w] = "calling"
  /\ wake' = [wake EXCEPT ![w] = "failed"]
  /\ lastWake' = [lastWake EXCEPT ![on[w]] = NoWake]
  /\ UNCHANGED <<entryVars, eventVars, on, previous, windows, executed>>

(* Variation: a failed call keeps its stamp. *)
WakeFails_keeps(w) ==
  /\ wake[w] = "calling"
  /\ wake' = [wake EXCEPT ![w] = "failed"]
  /\ UNCHANGED <<entryVars, eventVars, on, previous, lastWake, windows, executed>>

WakeFails(w) ==
  /\ wake[w] = "calling"
  /\ wake' = [wake EXCEPT ![w] = "failed"]
  /\ lastWake' = [lastWake EXCEPT ![on[w]] = previous[w]]
  /\ UNCHANGED <<entryVars, eventVars, on, previous, windows, executed>>

WindowOver ==
  /\ windows # <<>>
  /\ windows' = Tail(windows)
  /\ UNCHANGED <<entryVars, eventVars, wake, on, previous, lastWake, executed>>

(* The lock executes the lock command, before or after the call returns,   *)
(* and even when the call fails.                                           *)
LockLocks(w) ==
  /\ wake[w] \notin {"unasked", "skipped"} /\ w \notin executed
  /\ executed' = executed \cup {w}
  /\ UNCHANGED <<entryVars, eventVars, wakeVars>>
-----------------------------------------------------------------------------
(***************************************************************************)
(* The entry: its entities and its listener.                               *)
(***************************************************************************)

(* Variation: the coordinator keeps the sensor that is removed. *)
RemoveSensor_kept ==
  /\ phase = "loaded" /\ loads < MaxLoads
  /\ phase' = "unloading"
  /\ stored' = shown /\ shown' = Nothing
  /\ UNCHANGED <<loads, sensor, fired, wakeVars, executed>>

(* Unloading the platform: async_will_remove_from_hass, and the restore    *)
(* cache takes extra_restore_state_data.  Only a load that MaxLoads allows *)
(* is prepared.                                                            *)
RemoveSensor ==
  /\ phase = "loaded" /\ loads < MaxLoads
  /\ phase' = "unloading" /\ sensor' = FALSE
  /\ stored' = shown /\ shown' = Nothing
  /\ UNCHANGED <<loads, fired, wakeVars, executed>>

(* The callback of async_on_unload. *)
StopListening ==
  /\ phase = "unloading"
  /\ phase' = "unloaded"
  /\ UNCHANGED <<loads, sensor, eventVars, wakeVars, executed>>

(* A coordinator with a transport of its own, which knows of no wake. *)
Load ==
  /\ phase = "unloaded"
  /\ loads' = loads + 1 /\ phase' = "setting_up"
  /\ UNCHANGED <<sensor, eventVars, wakeVars, executed>>

(* Variation: the sensor starts with nothing. *)
AddSensor_fresh ==
  /\ phase = "setting_up" /\ ~sensor
  /\ sensor' = TRUE
  /\ UNCHANGED <<loads, phase, eventVars, wakeVars, executed>>

(* OnestiActivitySensor.async_added_to_hass. *)
AddSensor ==
  /\ phase = "setting_up" /\ ~sensor
  /\ sensor' = TRUE
  /\ shown' = stored
  /\ UNCHANGED <<loads, phase, stored, fired, wakeVars, executed>>

(* register_event_listener, once the platforms are set up. *)
StartListening ==
  /\ phase = "setting_up" /\ sensor
  /\ phase' = "loaded"
  /\ UNCHANGED <<loads, sensor, eventVars, wakeVars, executed>>

Next ==
  \/ \E f \in Frames : Report(f)
  \/ \E w \in Wakes, f \in EchoFrames : Echo(w, f)
  \/ \E w \in Wakes : NoLockEntity(w) \/ Wake(w) \/ CallReturns(w) \/ Settled(w)
                      \/ CancelWake(w) \/ WakeFails(w) \/ LockLocks(w)
  \/ WindowOver
  \/ RemoveSensor \/ StopListening \/ Load \/ AddSensor \/ StartListening

Spec == Init /\ [][Next]_vars
-----------------------------------------------------------------------------
(***************************************************************************)
(* Properties.                                                             *)
(***************************************************************************)
Activities == [event : Events, author : Wakes \cup {NoWake}]

TypeOK ==
  /\ loads \in Loads /\ phase \in {"setting_up", "loaded", "unloading", "unloaded"}
  /\ sensor \in BOOLEAN
  /\ shown \in Activities \cup {Nothing} /\ stored \in Activities \cup {Nothing}
  /\ fired \in Events \cup {Nothing}
  /\ wake \in [Wakes -> {"unasked", "skipped", "calling", "settling", "done", "failed"}]
  /\ on \in [Wakes -> Loads]
  /\ previous \in [Wakes -> Wakes \cup {NoWake}]
  /\ lastWake \in [Loads -> Wakes \cup {NoWake}]
  /\ windows \in Seq(Wakes)
  /\ executed \subseteq Wakes

ShowsEchoOf(w) == shown # Nothing /\ shown.author = w

(* The echo of a wake is not shown as somebody's activity within the       *)
(* wake's window, whatever other wakes of the same lock fail, end or are   *)
(* cancelled meanwhile (wake, wake_echo_pending).  Two echoes are: that of *)
(* a wake whose call failed, and that of a wake by a coordinator of before *)
(* a reload.                                                               *)
EchoHidden ==
  [][\A w \in Wakes :
       w \in InWindow /\ wake[w] # "failed" /\ on[w] = loads /\ ShowsEchoOf(w)' => ShowsEchoOf(w)]_vars

DashboardLock == [slot |-> 0, action |-> ACTION_LOCK, source |-> SOURCE_ZIGBEE]

(* A lock from a dashboard is shown unless the window of a wake whose call *)
(* did not fail is open: a failed wake hides nothing (wake).               *)
RealLockShown ==
  [][ /\ Report(DashboardLock)
      /\ sensor
      /\ \A w \in InWindow : on[w] = loads => wake[w] = "failed"
      => shown' = [event |-> fired', author |-> NoWake] ]_vars

(* Whoever presents a credential, has a slot or unlocks is shown, on every *)
(* model and in every window, unless the lock did it by itself             *)
(* (is_system_lock).                                                       *)
PeopleShown ==
  [][ \A f \in Frames :
        /\ Report(f)
        /\ sensor
        /\ f.source # SOURCE_AUTO
        /\ f.source \in CREDENTIAL_SOURCES \/ f.slot # 0 \/ f.action # ACTION_LOCK
        => shown' = [event |-> fired', author |-> NoWake] ]_vars

(* What the sensor shows, or will show when it is back. *)
Activity == IF phase = "loaded" \/ (phase = "setting_up" /\ sensor) THEN shown ELSE stored

(* The last activity outlives every reload: loading and unloading change   *)
(* nothing of it, and an event that arrives when the entity is gone and    *)
(* the listener still there brings no state back (sensor.py).              *)
ActivitySurvives == [][UNCHANGED entryVars \/ Activity' = Activity]_vars

NothingOnceRemoved == phase \in {"unloading", "unloaded"} => shown = Nothing

(* The event on the bus says who and what the frame says: slot 0 is the    *)
(* master where a credential was presented, and no user otherwise          *)
(* (decode_operation_event).                                               *)
FiredIsTrue ==
  [][ \A f \in Frames : Report(f) =>
        /\ fired'.user = IF f.slot # 0 \/ f.source \in CREDENTIAL_SOURCES THEN f.slot ELSE NoUser
        /\ fired'.action = IF f.action \in KnownActions THEN f.action ELSE Unknown
        /\ fired'.source = IF f.source \in KnownSources THEN f.source ELSE Unknown ]_vars
=============================================================================
