------------------------------ MODULE EntryLife ------------------------------
(***************************************************************************)
(* The life of one config entry next to ZHA: async_setup_entry,            *)
(* async_unload_entry, _start_event_listener, _watch_zha_entries and       *)
(* _async_options_updated (__init__.py), and what the coordinator says     *)
(* about availability (coordinator.py).                                    *)
(*                                                                         *)
(* Setting up and unloading suspend while Home Assistant adds or removes   *)
(* the entities; ZHA and the user go on meanwhile.  Reloads are tasks that *)
(* wait for the entry's setup lock, and run one after the other.           *)
(***************************************************************************)
EXTENDS SlotRules

CONSTANTS
  Clusters,           \* Door Lock cluster objects ZHA can hold for the lock
  NoGateway,          \* ZHA has no gateway to ask
  NoLock,             \* the gateway does not list the lock
  NoCluster,          \* it lists the lock, without a cluster that can be listened to
  ReservedValues,     \* what reserved_slots can hold
  ReservedChoices,    \* what the settings dialog lets the user choose
  MaxDue              \* bound: reloads that wait; one more would change nothing

ASSUME ObjectsAssumption ==
  /\ NoGateway \notin Clusters /\ NoLock \notin Clusters /\ NoCluster \notin Clusters
  /\ NoGateway # NoLock /\ NoGateway # NoCluster /\ NoLock # NoCluster
ASSUME ReservedAssumption ==
  ReservedChoices \subseteq ReservedValues /\ ReservedValues \subseteq Int \cup {NotANumber}
ASSUME DueAssumption      == MaxDue \in Nat \ {0}

VARIABLES
  zha,        \* the state of ZHA's config entry, "absent" when it is removed
  objects,    \* what ZHA's gateway holds for the lock
  rePaired,   \* history: ... and that changed since ZHA's entry changed or this one was set up
  entry,      \* the state of the lock's config entry
  due,        \* reloads scheduled and not yet begun
  watch,      \* the state of ZHA's entry is watched
  available,  \* the coordinator's _available
  listened,   \* its listened_cluster, or NoCluster
  handlers,   \* report handlers subscribed to each cluster
  lossLogged, \* the entry is in _LOSS_LOGGED
  lastLine,   \* history: the last line about it in the log, "none" before the first
  issue,      \* the repair issue is raised
  reserved,   \* options["reserved_slots"]
  setupFloor, \* the coordinator's setup_first_user_slot
  unheard     \* history: the floor changed with no options listener there to hear it

zhaVars   == <<zha, objects, rePaired>>
logVars   == <<lossLogged, lastLine>>
heardVars == <<available, listened, handlers, logVars, issue>>
floorVars == <<reserved, setupFloor, unheard>>
vars      == <<zhaVars, entry, due, watch, heardVars, floorVars>>

Layouts == Clusters \cup {NoLock, NoCluster}

Init ==
  /\ zha \in {"absent", "down"} /\ objects = NoGateway /\ rePaired = FALSE
  /\ entry = "new" /\ due = 0 /\ watch = FALSE
  /\ available = FALSE /\ listened = NoCluster /\ lossLogged = FALSE /\ lastLine = "none" /\ issue = FALSE
  /\ handlers = [c \in Clusters |-> 0]
  /\ reserved \in ReservedValues /\ setupFloor = FirstUserSlot(reserved)
  /\ unheard = FALSE
-----------------------------------------------------------------------------
(***************************************************************************)
(* Availability, the watch and the reloads it schedules.                   *)
(***************************************************************************)

(* set_available, and the line _log_availability writes once. *)
SetAvailable(a) ==
  /\ available' = a
  /\ lossLogged' = ~a
  /\ lastLine' = IF a /\ lossLogged THEN "arriving"
                 ELSE IF ~a /\ ~lossLogged THEN "stopped"
                 ELSE lastLine

(* quiet: the caller has said more in the log than this could. *)
SetAvailableQuietly(a) == available' = a /\ UNCHANGED logVars

(* async_schedule_reload. *)
ScheduleReload == due' = IF due < MaxDue THEN due + 1 ELSE due

(* Variation: a cluster that is listened to is taken for the right one. *)
Watched_anyCluster(state) ==
  IF ~watch \/ entry # "loaded" THEN UNCHANGED <<available, logVars, due>>
  ELSE IF state # "loaded" THEN SetAvailable(FALSE) /\ UNCHANGED due
  ELSE IF listened # NoCluster THEN SetAvailable(TRUE) /\ UNCHANGED due
  ELSE ScheduleReload /\ UNCHANGED <<available, logVars>>

(* Variation: the watch does not tell the entities that ZHA went down. *)
Watched_upOnly(state) ==
  IF ~watch \/ entry # "loaded" \/ state # "loaded"
  THEN UNCHANGED <<available, logVars, due>>
  ELSE IF listened # NoCluster /\ objects = listened
  THEN SetAvailable(TRUE) /\ UNCHANGED due
  ELSE ScheduleReload /\ UNCHANGED <<available, logVars>>

(* _on_zha_state_change, called with ZHA's entry in the given state. *)
Watched(state) ==
  \/ /\ ~watch \/ entry # "loaded"
     /\ UNCHANGED <<available, logVars, due>>
  \/ /\ watch /\ entry = "loaded" /\ state # "loaded"
     /\ SetAvailable(FALSE)
     /\ UNCHANGED due
  \/ /\ watch /\ entry = "loaded" /\ state = "loaded"
     /\ IF listened # NoCluster /\ objects = listened
        THEN SetAvailable(TRUE) /\ UNCHANGED due
        ELSE ScheduleReload /\ UNCHANGED <<available, logVars>>
-----------------------------------------------------------------------------
(***************************************************************************)
(* ZHA.  It drops its gateway before its entry settles as not loaded.      *)
(***************************************************************************)
ZhaChanges(from, to) ==
  /\ zha = from
  /\ zha' = to
  /\ rePaired' = FALSE
  /\ Watched(to)
  /\ UNCHANGED <<entry, watch, listened, handlers, issue, floorVars>>

ZhaStarts == ZhaChanges("down", "starting") /\ UNCHANGED objects

(* The objects may be new ones, or the ones the listener sits on. *)
GatewayUp ==
  /\ zha = "starting" /\ objects = NoGateway
  /\ objects' \in Layouts
  /\ UNCHANGED <<zha, rePaired, entry, due, watch, heardVars, floorVars>>

(* Without a gateway if ZHA's internals are not where they used to be. *)
ZhaUp     == ZhaChanges("starting", "loaded") /\ UNCHANGED objects
ZhaFails  == ZhaChanges("starting", "down") /\ objects' = NoGateway
ZhaLeaves == ZhaChanges("loaded", "leaving") /\ UNCHANGED objects
ZhaStays  == ZhaChanges("leaving", "loaded") /\ UNCHANGED objects

GatewayDown ==
  /\ zha = "leaving" /\ objects # NoGateway
  /\ objects' = NoGateway
  /\ UNCHANGED <<zha, rePaired, entry, due, watch, heardVars, floorVars>>

ZhaDown == objects = NoGateway /\ ZhaChanges("leaving", "down") /\ UNCHANGED objects

ZhaRemoved ==
  /\ zha = "down"
  /\ zha' = "absent"
  /\ watch' = FALSE
  /\ UNCHANGED <<objects, rePaired, entry, due, heardVars, floorVars>>

(* Variation: only the ZHA entries that exist at setup are followed. *)
ZhaAdded_unwatched ==
  /\ zha = "absent"
  /\ zha' = "down"
  /\ UNCHANGED <<objects, rePaired, entry, due, watch, heardVars, floorVars>>

(* _on_config_entry_changed, while this entry is loaded. *)
ZhaAdded ==
  /\ zha = "absent"
  /\ zha' = "down"
  /\ watch' = (entry \in {"loaded", "unloading"})
  /\ UNCHANGED <<objects, rePaired, entry, due, heardVars, floorVars>>

(* The lock is removed from a running ZHA, or comes back to it as a new    *)
(* device.  No state of ZHA's entry changes.                               *)
RePair ==
  /\ zha = "loaded" /\ objects # NoGateway
  /\ objects' \in Layouts \ {objects}
  /\ rePaired' = TRUE
  /\ UNCHANGED <<zha, entry, due, watch, heardVars, floorVars>>
-----------------------------------------------------------------------------
(***************************************************************************)
(* The entry.                                                              *)
(***************************************************************************)

(* Variation: the loss is remembered on the coordinator that logged it. *)
Construct_ownLossFlag ==
  /\ entry' = "setting_up"
  /\ available' = (objects # NoGateway)
  /\ listened' = NoCluster
  /\ setupFloor' = FirstUserSlot(reserved) /\ unheard' = FALSE
  /\ lossLogged' = FALSE
  /\ UNCHANGED lastLine

(* OnestiCoordinator.__init__, from where the platforms are forwarded. *)
Construct ==
  /\ entry' = "setting_up"
  /\ available' = (objects # NoGateway)
  /\ listened' = NoCluster
  /\ setupFloor' = FirstUserSlot(reserved) /\ unheard' = FALSE
  /\ UNCHANGED logVars

(* async_setup_entry, up to its suspension: ConfigEntryNotReady when ZHA   *)
(* runs without the lock.                                                  *)
BeginSetup ==
  /\ \/ objects = NoLock /\ entry' = "retry"
        /\ UNCHANGED <<available, listened, logVars, setupFloor, unheard>>
     \/ objects # NoLock /\ Construct
  /\ UNCHANGED <<zhaVars, watch, handlers, issue, reserved>>

Setup      == entry = "new" /\ BeginSetup /\ UNCHANGED due
RetryTimer == entry = "retry" /\ due = 0 /\ BeginSetup /\ UNCHANGED due

(* register_event_listener and _start_event_listener. *)
Listen ==
  \/ /\ objects \in Clusters
     /\ listened' = objects
     /\ handlers' = [handlers EXCEPT ![objects] = @ + 1]
     /\ SetAvailable(TRUE)
     /\ issue' = FALSE
  \/ /\ objects \notin Clusters
     /\ issue' = TRUE
     /\ SetAvailableQuietly(FALSE)
     /\ UNCHANGED <<listened, handlers>>

(* Variation: setup takes the coordinator's first guess for the truth. *)
FinishSetup_uncorrected ==
  /\ entry = "setting_up"
  /\ entry' = "loaded"
  /\ watch' = (zha # "absent")
  /\ \/ objects = NoGateway /\ zha # "loaded"
        /\ UNCHANGED heardVars
     \/ (objects # NoGateway \/ zha = "loaded") /\ Listen
  /\ rePaired' = FALSE
  /\ UNCHANGED <<zha, objects, due, floorVars>>

(* async_setup_entry goes on: the watch, the options listener, and the     *)
(* event listener unless ZHA is still starting.                            *)
FinishSetup ==
  /\ entry = "setting_up"
  /\ entry' = "loaded"
  /\ watch' = (zha # "absent")
  /\ \/ objects = NoGateway /\ zha # "loaded"
        /\ SetAvailable(FALSE)
        /\ UNCHANGED <<listened, handlers, issue>>
     \/ (objects # NoGateway \/ zha = "loaded") /\ Listen
  /\ rePaired' = FALSE
  /\ UNCHANGED <<zha, objects, due, floorVars>>

(* async_reload takes the setup lock; a loaded entry unloads first. *)
Reload ==
  /\ due > 0
  /\ due' = due - 1
  /\ \/ /\ entry = "loaded"
        /\ entry' = "unloading"
        /\ UNCHANGED <<zhaVars, watch, heardVars, floorVars>>
     \/ entry = "retry" /\ BeginSetup

(* Variation: the listener is not tied to the entry. *)
Unsubscribed_never == handlers

Unsubscribed ==
  IF listened = NoCluster THEN handlers ELSE [handlers EXCEPT ![listened] = @ - 1]

(* The entities are gone and the callbacks of async_on_unload run; the     *)
(* entry is set up again.                                                  *)
FinishUnload ==
  /\ entry = "unloading"
  /\ entry' = "new"
  /\ watch' = FALSE
  /\ issue' = FALSE
  /\ handlers' = Unsubscribed
  /\ UNCHANGED <<zhaVars, due, available, listened, logVars, floorVars>>

(* The user reloads the entry, or reconfigures it. *)
UserReload ==
  /\ entry \in {"loaded", "retry"}
  /\ due = 0
  /\ ScheduleReload
  /\ UNCHANGED <<zhaVars, entry, watch, heardVars, floorVars>>

(* Variation: no write of the options is worth a reload. *)
OptionsUpdated_ignored(floor) == UNCHANGED <<due, unheard>>

(* _async_options_updated, called after every write of the options while   *)
(* it is registered.                                                       *)
OptionsUpdated(floor) ==
  \/ /\ entry \in {"loaded", "unloading"}
     /\ IF floor # setupFloor THEN ScheduleReload ELSE UNCHANGED due
     /\ unheard' = FALSE
  \/ /\ entry \notin {"loaded", "unloading"}
     /\ unheard' = (unheard \/ floor # FirstUserSlot(reserved))
     /\ UNCHANGED due

SettingsStep(r) ==
  /\ reserved' = r
  /\ OptionsUpdated(FirstUserSlot(r))
  /\ UNCHANGED <<zhaVars, entry, watch, heardVars, setupFloor>>

(* A slot or the capabilities are saved. *)
OtherSave ==
  /\ OptionsUpdated(FirstUserSlot(reserved))
  /\ UNCHANGED <<zhaVars, entry, watch, heardVars, reserved, setupFloor>>

Next ==
  \/ ZhaStarts \/ GatewayUp \/ ZhaUp \/ ZhaFails \/ ZhaLeaves \/ ZhaStays
  \/ GatewayDown \/ ZhaDown \/ ZhaRemoved \/ ZhaAdded \/ RePair
  \/ Setup \/ RetryTimer \/ FinishSetup \/ Reload \/ FinishUnload \/ UserReload
  \/ \E r \in ReservedChoices : SettingsStep(r)
  \/ OtherSave

(* Home Assistant runs the tasks it has scheduled, and its retry timer.    *)
Fairness ==
  /\ WF_vars(Setup) /\ WF_vars(FinishSetup) /\ WF_vars(FinishUnload)
  /\ WF_vars(Reload) /\ WF_vars(RetryTimer)

Spec     == Init /\ [][Next]_vars
FairSpec == Spec /\ Fairness
-----------------------------------------------------------------------------
(***************************************************************************)
(* Properties.                                                             *)
(***************************************************************************)
TypeOK ==
  /\ zha \in {"absent", "down", "starting", "loaded", "leaving"}
  /\ objects \in Layouts \cup {NoGateway} /\ rePaired \in BOOLEAN
  /\ entry \in {"new", "setting_up", "loaded", "retry", "unloading"}
  /\ due \in 0..MaxDue
  /\ watch \in BOOLEAN /\ available \in BOOLEAN
  /\ lossLogged \in BOOLEAN /\ lastLine \in {"none", "stopped", "arriving"} /\ issue \in BOOLEAN
  /\ listened \in Clusters \cup {NoCluster}
  /\ handlers \in [Clusters -> 0..1]
  /\ reserved \in ReservedValues /\ setupFloor \in 1..3 /\ unheard \in BOOLEAN

Stopped == zha \in {"absent", "down"}

(* The activity sensor never claims that events can arrive while ZHA is    *)
(* down or nothing is listened to, whenever and in whatever order ZHA and  *)
(* the entry came up (OnestiCoordinator.available).                        *)
AvailableIsHeard == entry = "loaded" /\ available => listened # NoCluster /\ ~Stopped

(* With ZHA running and no reload on its way, the listener sits on the     *)
(* cluster ZHA holds, or the repair issue says that it cannot; it is never *)
(* left on an old cluster without a word (_watch_zha_entries), unless the  *)
(* lock was paired again under a running ZHA.                              *)
HeardOrSaid == (available /\ objects = listened) \/ (issue /\ ~available)

NeverSilent ==
  entry = "loaded" /\ zha = "loaded" /\ due = 0 /\ ~rePaired => HeardOrSaid

(* The log's last line agrees with what is: "stopped" while ZHA is down,   *)
(* and no longer once events arrive, though the coordinator that logged    *)
(* the loss may be gone (_LOSS_LOGGED).                                    *)
LogTellsLoss ==
  entry = "loaded" =>
    /\ Stopped => lastLine = "stopped"
    /\ available => lastLine # "stopped"

(* A report is handled once, by the listener of the entry as it is loaded: *)
(* no reload leaves a handler on a cluster nobody listens to any more      *)
(* (async_on_unload).                                                      *)
HandledOnce ==
  \A c \in Clusters :
    handlers[c] = IF entry \in {"loaded", "unloading"} /\ c = listened THEN 1 ELSE 0

(* The sensor rows follow the reserved-slots setting: a loaded entry was   *)
(* set up for the floor that is stored, or reloads, unless the dialog was  *)
(* submitted in the middle of a setup, before the options listener is      *)
(* registered; then the next write of any option puts it right.            *)
RowsFollowFloor ==
  entry = "loaded" /\ due = 0 /\ ~unheard => setupFloor = FirstUserSlot(reserved)

(* When ZHA stays up with a cluster for the lock, lock events arrive       *)
(* again, whatever state ZHA's coming and going left the entry in.         *)
EventsComeBack ==
  <>[](zha = "loaded" /\ objects \in Clusters /\ ~rePaired)
    => []<>(entry = "loaded" /\ available /\ listened = objects)
=============================================================================
