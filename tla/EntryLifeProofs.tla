--------------------------- MODULE EntryLifeProofs ---------------------------
(***************************************************************************)
(* Proofs about the entry's life in EntryLife: what is said about lock     *)
(* events is true, and the listener follows ZHA.                           *)
(***************************************************************************)
EXTENDS EntryLife, TLAPS

(* A coordinator that is set up has no listener yet; a loaded entry has as *)
(* its only handler the one on the cluster it listens to.                  *)
Handled ==
  /\ entry = "setting_up" => listened = NoCluster
  /\ HandledOnce

(* ZHA drops its gateway before it settles, and is watched while the entry *)
(* is loaded.                                                              *)
ZhaWatched ==
  /\ Stopped => objects = NoGateway
  /\ entry \in {"loaded", "unloading"} => watch = (zha # "absent")

(* The flag in _LOSS_LOGGED is what the log says. *)
FlagIsLine == lossLogged <=> lastLine = "stopped"

LifeInv ==
  TypeOK /\ Handled /\ ZhaWatched /\ FlagIsLine /\ AvailableIsHeard /\ LogTellsLoss

LEMMA FloorInRange ==
  ASSUME NEW v \in Int \cup {NotANumber}
  PROVE  FirstUserSlot(v) \in 1..3
BY NotANumberAssumption
   DEF FirstUserSlot, Larger, Smaller, RESERVED_SLOTS_MIN, RESERVED_SLOTS_MAX, SLOT_FIRST_USER

LEMMA ReservedFloor == \A r \in ReservedValues : FirstUserSlot(r) \in 1..3
BY FloorInRange, ReservedAssumption

LEMMA InitLife == Init => LifeInv
<1> SUFFICES ASSUME Init PROVE LifeInv
  OBVIOUS
<1>1. TypeOK
  <2>1. due \in 0..MaxDue /\ setupFloor \in 1..3
    BY ReservedFloor, DueAssumption DEF Init
  <2>2. handlers \in [Clusters -> 0..1]
    BY DEF Init
  <2>3. QED
    BY <2>1, <2>2 DEF Init, TypeOK
<1>2. Handled
  BY ObjectsAssumption DEF Init, Handled, HandledOnce
<1>3. ZhaWatched /\ FlagIsLine /\ AvailableIsHeard /\ LogTellsLoss
  BY DEF Init, ZhaWatched, FlagIsLine, AvailableIsHeard, LogTellsLoss
<1>4. QED
  BY <1>1, <1>2, <1>3 DEF LifeInv

(* What set_available leaves behind. *)
LEMMA SetAvailableLife ==
  ASSUME TypeOK, FlagIsLine, NEW a \in BOOLEAN, SetAvailable(a)
  PROVE  /\ available' = a
         /\ lossLogged' \in BOOLEAN /\ lastLine' \in {"none", "stopped", "arriving"}
         /\ FlagIsLine'
         /\ lastLine' = "stopped" <=> ~a
<1>1. CASE a = TRUE
  BY <1>1 DEF TypeOK, FlagIsLine, SetAvailable
<1>2. CASE a = FALSE
  BY <1>2 DEF TypeOK, FlagIsLine, SetAvailable
<1>3. QED
  BY <1>1, <1>2

LEMMA ScheduleReloadLife ==
  ASSUME due \in 0..MaxDue, ScheduleReload
  PROVE  due' \in 1..MaxDue
BY DueAssumption DEF ScheduleReload

LEMMA OptionsUpdatedLife ==
  ASSUME due \in 0..MaxDue, NEW floor, OptionsUpdated(floor)
  PROVE  due' \in 0..MaxDue /\ unheard' \in BOOLEAN
<1>1. CASE entry \in {"loaded", "unloading"}
  <2>1. unheard' = FALSE /\ (ScheduleReload \/ due' = due)
    BY <1>1 DEF OptionsUpdated
  <2>2. due' \in 0..MaxDue
    BY <2>1, ScheduleReloadLife, DueAssumption
  <2>3. QED
    BY <2>1, <2>2
<1>2. CASE entry \notin {"loaded", "unloading"}
  <2>1. due' = due /\ unheard' = (unheard \/ floor # FirstUserSlot(reserved))
    BY <1>2 DEF OptionsUpdated
  <2>2. QED
    BY <2>1
<1>3. QED
  BY <1>1, <1>2

(* A change of ZHA's state, with what the watch makes of it. *)
LEMMA ZhaChangesLife ==
  ASSUME LifeInv,
         NEW from \in {"down", "starting", "loaded", "leaving"},
         NEW to \in {"down", "starting", "loaded", "leaving"},
         ZhaChanges(from, to),
         objects' \in Layouts \cup {NoGateway},
         to = "down" => objects' = NoGateway
  PROVE  LifeInv'
<1> USE DEF LifeInv
<1>1. /\ UNCHANGED <<entry, watch, listened, handlers, issue, reserved, setupFloor, unheard>>
      /\ rePaired' = FALSE /\ zha = from /\ zha' = to
  BY DEF ZhaChanges, floorVars
<1>2. /\ available' \in BOOLEAN /\ lossLogged' \in BOOLEAN
      /\ lastLine' \in {"none", "stopped", "arriving"}
      /\ due' \in 0..MaxDue
      /\ FlagIsLine'
      /\ available' => available \/ (listened # NoCluster /\ to = "loaded")
      /\ entry = "loaded" /\ to # "loaded" => ~available' /\ lastLine' = "stopped"
      /\ available' /\ lastLine' = "stopped" => available /\ lastLine = "stopped"
  <2>1. CASE ~watch \/ entry # "loaded"
    <3>1. UNCHANGED <<available, lossLogged, lastLine, due>>
      BY <2>1 DEF ZhaChanges, Watched, logVars
    <3>2. entry = "loaded" => watch
      BY DEF ZhaWatched, TypeOK, ZhaChanges
    <3>3. QED
      BY <2>1, <3>1, <3>2 DEF TypeOK, FlagIsLine
  <2>2. CASE watch /\ entry = "loaded" /\ to # "loaded"
    <3>1. SetAvailable(FALSE) /\ due' = due
      BY <2>2 DEF ZhaChanges, Watched
    <3>2. QED
      BY <2>2, <3>1, SetAvailableLife DEF TypeOK
  <2>3. CASE watch /\ entry = "loaded" /\ to = "loaded"
    <3>1. CASE listened # NoCluster /\ objects = listened
      <4>1. SetAvailable(TRUE) /\ due' = due
        BY <2>3, <3>1 DEF ZhaChanges, Watched
      <4>2. QED
        BY <2>3, <3>1, <4>1, SetAvailableLife DEF TypeOK
    <3>2. CASE ~(listened # NoCluster /\ objects = listened)
      <4>1. ScheduleReload /\ UNCHANGED <<available, lossLogged, lastLine>>
        BY <2>3, <3>2 DEF ZhaChanges, Watched, logVars
      <4>2. due' \in 0..MaxDue
        BY <4>1, ScheduleReloadLife, DueAssumption DEF TypeOK
      <4>3. QED
        BY <2>3, <4>1, <4>2 DEF TypeOK, FlagIsLine
    <3>3. QED
      BY <3>1, <3>2
  <2>4. QED
    BY <2>1, <2>2, <2>3 DEF TypeOK
<1>3. TypeOK'
  BY <1>1, <1>2 DEF TypeOK, Layouts
<1>4. Handled' /\ ZhaWatched'
  BY <1>1 DEF Handled, HandledOnce, ZhaWatched, Stopped
<1>5. AvailableIsHeard' /\ LogTellsLoss'
  BY <1>1, <1>2 DEF AvailableIsHeard, LogTellsLoss, ZhaWatched, Stopped
<1>6. QED
  BY <1>2, <1>3, <1>4, <1>5

(* The cluster's handler is the only one a listener leaves behind. *)
LEMMA ListenLife ==
  ASSUME LifeInv, entry = "setting_up", entry' = "loaded", Listen, ~Stopped,
         watch' = (zha # "absent"), rePaired' = FALSE,
         UNCHANGED <<zha, objects, due, floorVars>>
  PROVE  LifeInv'
<1> USE ObjectsAssumption DEF LifeInv
<1>1. UNCHANGED <<zha, objects, due, reserved, setupFloor, unheard>>
  BY DEF floorVars
<1>2. listened = NoCluster /\ handlers = [c \in Clusters |-> 0]
  BY DEF TypeOK, Handled, HandledOnce
<1>3. /\ handlers' = [c \in Clusters |-> IF c = listened' THEN 1 ELSE 0]
      /\ listened' \in Clusters \cup {NoCluster}
      /\ issue' \in BOOLEAN /\ available' \in BOOLEAN /\ lossLogged' \in BOOLEAN
      /\ lastLine' \in {"none", "stopped", "arriving"}
      /\ FlagIsLine'
      /\ available' => listened' # NoCluster /\ lastLine' # "stopped"
  <2>1. CASE objects \in Clusters
    <3>1. /\ listened' = objects /\ issue' = FALSE
          /\ handlers' = [handlers EXCEPT ![objects] = @ + 1]
          /\ SetAvailable(TRUE)
      BY <2>1 DEF Listen
    <3>2. handlers' = [c \in Clusters |-> IF c = listened' THEN 1 ELSE 0]
      BY <1>2, <2>1, <3>1
    <3>3. QED
      BY <2>1, <3>1, <3>2, SetAvailableLife
  <2>2. CASE objects \notin Clusters
    <3>1. /\ UNCHANGED <<listened, handlers, lossLogged, lastLine>>
          /\ issue' = TRUE /\ available' = FALSE
      BY <2>2 DEF Listen, SetAvailableQuietly, logVars
    <3>2. handlers' = [c \in Clusters |-> IF c = listened' THEN 1 ELSE 0]
      BY <1>2, <3>1
    <3>3. QED
      BY <1>2, <3>1, <3>2 DEF TypeOK, FlagIsLine
  <2>3. QED
    BY <2>1, <2>2
<1>4. TypeOK' /\ Handled'
  <2>1. handlers' \in [Clusters -> 0..1]
    BY <1>3
  <2>2. Handled'
    BY <1>3 DEF Handled, HandledOnce
  <2>3. QED
    BY <1>1, <1>3, <2>1, <2>2 DEF TypeOK, Layouts
<1>5. ZhaWatched' /\ AvailableIsHeard' /\ LogTellsLoss'
  BY <1>1, <1>3 DEF ZhaWatched, AvailableIsHeard, LogTellsLoss, Stopped
<1>6. QED
  BY <1>3, <1>4, <1>5

LEMMA BeginSetupLife ==
  ASSUME LifeInv, entry \in {"new", "retry"}, BeginSetup, due' \in 0..MaxDue
  PROVE  LifeInv'
<1> USE DEF LifeInv, BeginSetup, Construct, zhaVars, logVars
<1>1. TypeOK'
  BY ReservedFloor DEF TypeOK
<1>2. Handled' /\ ZhaWatched'
  BY DEF TypeOK, Handled, HandledOnce, ZhaWatched, Stopped
<1>3. FlagIsLine' /\ AvailableIsHeard' /\ LogTellsLoss'
  BY DEF FlagIsLine, AvailableIsHeard, LogTellsLoss
<1>4. QED
  BY <1>1, <1>2, <1>3

LEMMA FinishUnloadLife ==
  ASSUME LifeInv, FinishUnload
  PROVE  LifeInv'
<1> USE ObjectsAssumption DEF LifeInv
<1>1. /\ entry = "unloading" /\ entry' = "new" /\ watch' = FALSE /\ issue' = FALSE
      /\ UNCHANGED <<zha, objects, due, available, listened, lossLogged, lastLine>>
      /\ UNCHANGED <<rePaired, reserved, setupFloor, unheard>>
  BY DEF FinishUnload, zhaVars, logVars, floorVars
<1>2. handlers' = [c \in Clusters |-> 0]
  <2>1. /\ handlers = [c \in Clusters |-> IF c = listened THEN 1 ELSE 0]
        /\ handlers' = Unsubscribed
    BY <1>1 DEF TypeOK, Handled, HandledOnce, FinishUnload
  <2>2. CASE listened = NoCluster
    BY <2>1, <2>2 DEF Unsubscribed
  <2>3. CASE listened # NoCluster
    BY <2>1, <2>3 DEF Unsubscribed, TypeOK
  <2>4. QED
    BY <2>2, <2>3
<1>3. TypeOK' /\ Handled'
  <2>1. handlers' \in [Clusters -> 0..1]
    BY <1>2
  <2>2. TypeOK'
    BY <1>1, <2>1 DEF TypeOK, Layouts
  <2>3. Handled'
    BY <1>1, <1>2 DEF Handled, HandledOnce
  <2>4. QED
    BY <2>2, <2>3
<1>4. ZhaWatched' /\ FlagIsLine' /\ AvailableIsHeard' /\ LogTellsLoss'
  BY <1>1 DEF ZhaWatched, FlagIsLine, AvailableIsHeard, LogTellsLoss, Stopped
<1>5. QED
  BY <1>3, <1>4

LEMMA NextLife == LifeInv /\ [Next]_vars => LifeInv'
<1> SUFFICES ASSUME LifeInv, [Next]_vars PROVE LifeInv'
  OBVIOUS
<1> USE DueAssumption, ObjectsAssumption
(* Where the step leaves what is heard and the entry's state alone. *)
<1>a. ASSUME UNCHANGED <<entry, heardVars, setupFloor>>, UNCHANGED zha, UNCHANGED watch,
             objects' \in Layouts \cup {NoGateway}, Stopped => objects' = objects,
             due' \in 0..MaxDue, reserved' \in ReservedValues,
             rePaired' \in BOOLEAN, unheard' \in BOOLEAN
      PROVE  LifeInv'
  BY <1>a DEF LifeInv, TypeOK, Handled, HandledOnce, ZhaWatched, FlagIsLine, AvailableIsHeard,
              LogTellsLoss, Stopped, heardVars, logVars
<1>1. CASE ZhaStarts
  BY <1>1, ZhaChangesLife DEF ZhaStarts, LifeInv, TypeOK
<1>2. CASE GatewayUp
  BY <1>2, <1>a DEF GatewayUp, LifeInv, TypeOK, Stopped, floorVars
<1>3. CASE ZhaUp
  BY <1>3, ZhaChangesLife DEF ZhaUp, LifeInv, TypeOK
<1>4. CASE ZhaFails
  BY <1>4, ZhaChangesLife DEF ZhaFails
<1>5. CASE ZhaLeaves
  BY <1>5, ZhaChangesLife DEF ZhaLeaves, LifeInv, TypeOK
<1>6. CASE ZhaStays
  BY <1>6, ZhaChangesLife DEF ZhaStays, LifeInv, TypeOK
<1>7. CASE GatewayDown
  BY <1>7, <1>a DEF GatewayDown, LifeInv, TypeOK, Stopped, floorVars
<1>8. CASE ZhaDown
  BY <1>8, ZhaChangesLife DEF ZhaDown, LifeInv, TypeOK
<1>9. CASE ZhaRemoved \/ ZhaAdded
  <2>1. /\ UNCHANGED <<objects, rePaired, entry, due, reserved, setupFloor, unheard>>
        /\ UNCHANGED <<available, listened, handlers, lossLogged, lastLine, issue>>
        /\ Stopped /\ Stopped'
        /\ zha' \in {"absent", "down"} /\ watch' \in BOOLEAN
        /\ entry \in {"loaded", "unloading"} => watch' = (zha' # "absent")
    <3>1. CASE ZhaRemoved
      BY <3>1 DEF ZhaRemoved, Stopped, heardVars, logVars, floorVars
    <3>2. CASE ZhaAdded
      <4>1. CASE entry \in {"loaded", "unloading"}
        <5>1. watch' = TRUE
          BY <3>2, <4>1 DEF ZhaAdded
        <5>2. QED
          BY <3>2, <4>1, <5>1 DEF ZhaAdded, Stopped, heardVars, logVars, floorVars
      <4>2. CASE entry \notin {"loaded", "unloading"}
        <5>1. watch' = FALSE
          <6>1. (entry \in {"loaded", "unloading"}) = FALSE
            BY <4>2
          <6>2. QED
            BY <3>2, <6>1, Zenon DEF ZhaAdded
        <5>2. QED
          BY <3>2, <4>2, <5>1 DEF ZhaAdded, Stopped, heardVars, logVars, floorVars
      <4>3. QED
        BY <4>1, <4>2
    <3>3. QED
      BY <1>9, <3>1, <3>2
  <2>2. TypeOK' /\ Handled'
    BY <2>1 DEF LifeInv, TypeOK, Handled, HandledOnce, Layouts
  <2>3. ZhaWatched' /\ FlagIsLine' /\ AvailableIsHeard' /\ LogTellsLoss'
    BY <2>1 DEF LifeInv, ZhaWatched, FlagIsLine, AvailableIsHeard, LogTellsLoss
  <2>4. QED
    BY <2>2, <2>3 DEF LifeInv
<1>10. CASE RePair
  BY <1>10, <1>a DEF RePair, LifeInv, TypeOK, Stopped, floorVars
<1>11. CASE Setup \/ RetryTimer
  BY <1>11, BeginSetupLife DEF Setup, RetryTimer, LifeInv, TypeOK
<1>12. CASE FinishSetup
  <2>1. CASE Listen /\ ~Stopped
    BY <1>12, <2>1, ListenLife DEF FinishSetup
  <2>2. CASE ~(Listen /\ ~Stopped)
    <3>1. objects = NoGateway /\ SetAvailable(FALSE) /\ UNCHANGED <<listened, handlers, issue>>
      BY <1>12, <2>2 DEF FinishSetup, LifeInv, ZhaWatched, Stopped
    <3>2. TypeOK' /\ Handled'
      BY <1>12, <3>1 DEF FinishSetup, LifeInv, TypeOK, Handled, HandledOnce, SetAvailable, zhaVars, floorVars
    <3>3. ZhaWatched' /\ FlagIsLine' /\ AvailableIsHeard' /\ LogTellsLoss'
      BY <1>12, <3>1 DEF FinishSetup, LifeInv, TypeOK, ZhaWatched, FlagIsLine, AvailableIsHeard,
                         LogTellsLoss, Stopped, SetAvailable, zhaVars
    <3>4. QED
      BY <3>2, <3>3 DEF LifeInv
  <2>3. QED
    BY <2>1, <2>2
<1>13. CASE Reload
  <2>1. due' \in 0..MaxDue
    BY <1>13 DEF Reload, LifeInv, TypeOK
  <2>2. CASE BeginSetup /\ entry = "retry"
    BY <2>1, <2>2, BeginSetupLife
  <2>3. CASE ~(BeginSetup /\ entry = "retry")
    BY <1>13, <2>1, <2>3 DEF Reload, LifeInv, TypeOK, Handled, HandledOnce, ZhaWatched, FlagIsLine,
       AvailableIsHeard, LogTellsLoss, Stopped, zhaVars, heardVars, logVars, floorVars
  <2>4. QED
    BY <2>2, <2>3
<1>14. CASE FinishUnload
  BY <1>14, FinishUnloadLife
<1>15. CASE UserReload
  BY <1>15, <1>a DEF UserReload, ScheduleReload, LifeInv, TypeOK, zhaVars, floorVars
<1>16. ASSUME NEW r \in ReservedValues, OptionsUpdated(FirstUserSlot(r)), reserved' = r,
              UNCHANGED <<zhaVars, entry, watch, heardVars, setupFloor>>
       PROVE  LifeInv'
  <2>1. due' \in 0..MaxDue /\ unheard' \in BOOLEAN
    BY <1>16, OptionsUpdatedLife DEF LifeInv, TypeOK
  <2>2. QED
    BY <1>16, <2>1, <1>a DEF LifeInv, TypeOK, zhaVars
<1>17. CASE OtherSave \/ \E r \in ReservedChoices : SettingsStep(r)
  <2>1. CASE OtherSave
    BY <2>1, <1>16 DEF OtherSave, LifeInv, TypeOK
  <2>2. CASE \E r \in ReservedChoices : SettingsStep(r)
    BY <2>2, <1>16, ReservedAssumption DEF SettingsStep
  <2>3. QED
    BY <1>17, <2>1, <2>2
<1>18. CASE UNCHANGED vars
  BY <1>18, <1>a DEF vars, zhaVars, floorVars, LifeInv, TypeOK
<1>19. QED
  BY <1>1, <1>2, <1>3, <1>4, <1>5, <1>6, <1>7, <1>8, <1>9, <1>10, <1>11, <1>12, <1>13, <1>14,
     <1>15, <1>17, <1>18 DEF Next
-----------------------------------------------------------------------------
(***************************************************************************)
(* The listener and the rows.                                              *)
(***************************************************************************)

(* Whatever ZHA puts its objects through between two states is followed. *)
LEMMA NextSilent ==
  ASSUME LifeInv, NeverSilent, [Next]_vars
  PROVE  NeverSilent'
<1> USE DueAssumption
<1>1. SUFFICES ASSUME entry' = "loaded", zha' = "loaded", due' = 0, ~rePaired'
               PROVE  \/ available' /\ objects' = listened'
                      \/ issue' /\ ~available'
  BY DEF NeverSilent, HeardOrSaid
<1>2. ASSUME NEW from \in {"starting", "leaving"}, ZhaChanges(from, "loaded"), UNCHANGED objects
      PROVE  available' /\ objects' = listened'
  <2>1. entry = "loaded" /\ listened' = listened /\ watch
    BY <1>1, <1>2 DEF ZhaChanges, LifeInv, TypeOK, ZhaWatched
  <2>2. CASE listened # NoCluster /\ objects = listened
    <3>1. SetAvailable(TRUE)
      BY <2>1, <2>2, <1>2 DEF ZhaChanges, Watched
    <3>2. QED
      BY <2>1, <2>2, <3>1, <1>2 DEF SetAvailable
  <2>3. CASE ~(listened # NoCluster /\ objects = listened)
    <3>1. ScheduleReload
      BY <2>1, <2>3, <1>2 DEF ZhaChanges, Watched
    <3>2. QED
      BY <1>1, <3>1, ScheduleReloadLife DEF LifeInv, TypeOK
  <2>4. QED
    BY <2>2, <2>3
<1>3. CASE ZhaUp \/ ZhaStays
  BY <1>2, <1>3 DEF ZhaUp, ZhaStays
<1>4. CASE FinishSetup
  <2>1. Listen /\ UNCHANGED objects
    BY <1>1, <1>4 DEF FinishSetup
  <2>2. CASE objects \in Clusters
    BY <2>1, <2>2 DEF Listen, SetAvailable
  <2>3. CASE objects \notin Clusters
    BY <2>1, <2>3 DEF Listen, SetAvailableQuietly
  <2>4. QED
    BY <2>2, <2>3
(* Nothing else brings the entry or ZHA up, or drops a reload that is due. *)
<1>5. ASSUME entry = "loaded", zha = "loaded", due = 0, ~rePaired,
             UNCHANGED <<objects, available, listened, issue>>
      PROVE  \/ available' /\ objects' = listened'
             \/ issue' /\ ~available'
  BY <1>5 DEF NeverSilent, HeardOrSaid
<1>6. CASE UserReload
  BY <1>1, <1>6, ScheduleReloadLife DEF UserReload, LifeInv, TypeOK
<1>7. ASSUME NEW floor, OptionsUpdated(floor), UNCHANGED <<zhaVars, entry, heardVars>>
      PROVE  \/ available' /\ objects' = listened'
             \/ issue' /\ ~available'
  <2>1. due = 0
    BY <1>1, <1>7, ScheduleReloadLife DEF OptionsUpdated, LifeInv, TypeOK
  <2>2. QED
    BY <1>1, <1>5, <1>7, <2>1 DEF zhaVars, heardVars
<1>8. CASE OtherSave \/ \E r \in ReservedChoices : SettingsStep(r)
  BY <1>7, <1>8 DEF OtherSave, SettingsStep
<1>9. CASE UNCHANGED vars
  BY <1>1, <1>5, <1>9 DEF vars, zhaVars, heardVars
<1>10. CASE Setup \/ RetryTimer \/ Reload \/ FinishUnload
  BY <1>1, <1>10 DEF Setup, RetryTimer, Reload, FinishUnload, BeginSetup, Construct
<1>11. CASE ZhaStarts \/ GatewayUp \/ ZhaFails \/ ZhaLeaves \/ GatewayDown \/ ZhaDown
            \/ ZhaRemoved \/ ZhaAdded
  BY <1>1, <1>11 DEF ZhaStarts, GatewayUp, ZhaFails, ZhaLeaves, GatewayDown, ZhaDown,
                     ZhaRemoved, ZhaAdded, ZhaChanges
<1>12. CASE RePair
  BY <1>1, <1>12 DEF RePair
<1>13. QED
  BY <1>3, <1>4, <1>6, <1>8, <1>9, <1>10, <1>11, <1>12 DEF Next

(* A setup under way was begun with the floor that is stored, but for a    *)
(* change nobody heard.                                                    *)
FloorInv ==
  /\ entry = "setting_up" /\ ~unheard => setupFloor = FirstUserSlot(reserved)
  /\ RowsFollowFloor

LEMMA NextFloor ==
  ASSUME LifeInv, FloorInv, [Next]_vars
  PROVE  FloorInv'
<1> USE DueAssumption DEF FloorInv, RowsFollowFloor
<1>1. CASE Setup \/ RetryTimer \/ (Reload /\ entry # "loaded")
  <2>1. BeginSetup
    BY <1>1 DEF Setup, RetryTimer, Reload
  <2>2. QED
    BY <2>1 DEF BeginSetup, Construct
<1>2. CASE (Reload /\ entry = "loaded") \/ FinishUnload
  BY <1>2 DEF Reload, FinishUnload, BeginSetup
<1>3. CASE FinishSetup
  BY <1>3 DEF FinishSetup, floorVars
<1>4. ASSUME NEW from, NEW to, ZhaChanges(from, to)
      PROVE  FloorInv'
  <2>1. ScheduleReload \/ UNCHANGED due
    BY <1>4 DEF ZhaChanges, Watched
  <2>2. due' = 0 => due = 0
    BY <2>1, ScheduleReloadLife DEF LifeInv, TypeOK
  <2>3. QED
    BY <1>4, <2>2 DEF ZhaChanges, floorVars
<1>5. CASE ZhaStarts \/ ZhaUp \/ ZhaFails \/ ZhaLeaves \/ ZhaStays \/ ZhaDown
  BY <1>4, <1>5 DEF ZhaStarts, ZhaUp, ZhaFails, ZhaLeaves, ZhaStays, ZhaDown
<1>6. CASE GatewayUp \/ GatewayDown \/ ZhaRemoved \/ ZhaAdded \/ RePair \/ UNCHANGED vars
  BY <1>6 DEF GatewayUp, GatewayDown, ZhaRemoved, ZhaAdded, RePair, vars, floorVars
<1>7. CASE UserReload
  BY <1>7, ScheduleReloadLife DEF UserReload, floorVars, LifeInv, TypeOK
<1>8. ASSUME NEW r, reserved' = r, OptionsUpdated(FirstUserSlot(r)),
             UNCHANGED <<entry, setupFloor>>
      PROVE  FloorInv'
  <2>1. CASE entry \in {"loaded", "unloading"}
    BY <1>8, <2>1, ScheduleReloadLife DEF OptionsUpdated, LifeInv, TypeOK
  <2>2. CASE entry \notin {"loaded", "unloading"}
    <3>1. unheard' = (unheard \/ FirstUserSlot(r) # FirstUserSlot(reserved))
      BY <1>8, <2>2 DEF OptionsUpdated
    <3>2. ~unheard' => ~unheard /\ FirstUserSlot(r) = FirstUserSlot(reserved)
      BY <3>1
    <3>3. QED
      BY <1>8, <2>2, <3>2
  <2>3. QED
    BY <2>1, <2>2
<1>9. CASE \E r \in ReservedChoices : SettingsStep(r)
  BY <1>8, <1>9 DEF SettingsStep
<1>10. CASE OtherSave
  BY <1>8, <1>10 DEF OtherSave
<1>11. QED
  BY <1>1, <1>2, <1>3, <1>5, <1>6, <1>7, <1>9, <1>10 DEF Next
-----------------------------------------------------------------------------
(***************************************************************************)
(* The results.                                                            *)
(***************************************************************************)

(* The invariant the results rest on. *)
LEMMA LifeHolds == Spec => []LifeInv
BY InitLife, NextLife, PTL DEF Spec

(* Every variable of the entry's life keeps its type, a handler count of   *)
(* at most one among them (async_setup_entry, async_unload_entry).         *)
THEOREM TypeCorrect == Spec => []TypeOK
<1>1. LifeInv => TypeOK
  BY DEF LifeInv
<1>2. QED
  BY <1>1, LifeHolds, PTL

(* The activity sensor never claims that events can arrive while ZHA is    *)
(* down or nothing is listened to (OnestiCoordinator.available).           *)
THEOREM AvailableStaysHeard == Spec => []AvailableIsHeard
<1>1. LifeInv => AvailableIsHeard
  BY DEF LifeInv
<1>2. QED
  BY <1>1, LifeHolds, PTL

(* The log's last line stays true, across every reload (_LOSS_LOGGED). *)
THEOREM LogStaysTrue == Spec => []LogTellsLoss
<1>1. LifeInv => LogTellsLoss
  BY DEF LifeInv
<1>2. QED
  BY <1>1, LifeHolds, PTL

(* No reload leaves a report handler behind (register_event_listener). *)
THEOREM ReportsHandledOnce == Spec => []HandledOnce
<1>1. LifeInv => HandledOnce
  BY DEF LifeInv, Handled
<1>2. QED
  BY <1>1, LifeHolds, PTL

(* The listener is never left on an old cluster without a word, but for a  *)
(* lock paired again under a running ZHA (_watch_zha_entries).             *)
THEOREM StaysHeardOrSaysSo == Spec => []NeverSilent
<1>1. Init => NeverSilent
  BY DEF Init, NeverSilent
<1>2. LifeInv /\ NeverSilent /\ [Next]_vars => NeverSilent'
  BY NextSilent
<1>3. QED
  BY <1>1, <1>2, LifeHolds, PTL DEF Spec

(* The sensor rows follow the reserved-slots setting, but for a dialog     *)
(* submitted under a setup (_async_options_updated).                       *)
THEOREM RowsStayRight == Spec => []RowsFollowFloor
<1>1. Init => FloorInv
  BY DEF Init, FloorInv, RowsFollowFloor
<1>2. LifeInv /\ FloorInv /\ [Next]_vars => FloorInv'
  BY NextFloor
<1>3. FloorInv => RowsFollowFloor
  BY DEF FloorInv
<1>4. QED
  BY <1>1, <1>2, <1>3, LifeHolds, PTL DEF Spec
=============================================================================
