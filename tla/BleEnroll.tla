------------------------------ MODULE BleEnroll ------------------------------
(***************************************************************************)
(* Taking over a factory-reset lock: enroll() and resume_enrollment()      *)
(* (ble/client/enrollment.py), the logins they make (auth.py) and the tool *)
(* that runs them and keeps the key (scripts/ble_cli.py), next to the lock *)
(* and to the person who moves it, resets it and starts the tool again.    *)
(*                                                                         *)
(* Several runs of the tool can be under way, in as many terminals; the    *)
(* lock takes one connection at a time.  A step is what one run does       *)
(* between two suspensions, or what the lock does.  A run can end at any   *)
(* suspension: Ctrl-C, a crash and a power cut leave the same files, since *)
(* a state file is replaced in one step.                                   *)
(***************************************************************************)
EXTENDS Naturals

CONSTANTS
  Runs,        \* the terminals the tool is started in, again and again
  Enrollers,   \* those in which enroll is run
  Keys,        \* enrollments: one owner key and one device id each, made by enroll
  Factory,     \* the factory credential, and whose lock a reset one is
  NoRun,       \* nobody is connected
  Addresses,   \* addresses the lock may be seen at
  FirstAddress,  \* the one it has at first
  Absent,      \* no state file, or no enrollment in memory yet
  FailedLoginLimit,  \* FAILED_LOGIN_LIMIT
  ForceLogin,  \* the person passes --force-login once the budget is spent
  MaxMoves     \* bound: how often the lock's address changes

Steps == {"owner_key", "device_id", "clock", "server_key", "name"}
Rank  == [owner_key |-> 1, device_id |-> 2, clock |-> 3, server_key |-> 4, name |-> 5]

(* Enrollment.completed always has the owner key step. *)
Progress   == {done \in SUBSET Steps : "owner_key" \in done}
Enrollment == [done : Progress, at : Addresses]

ASSUME RunsAssumption    == NoRun \notin Runs /\ Enrollers \subseteq Runs
ASSUME KeysAssumption    == Factory \notin Keys
ASSUME AddressAssumption == FirstAddress \in Addresses
ASSUME AbsentAssumption  == Absent \notin Enrollment \cup Addresses
ASSUME BoundsAssumption  == /\ FailedLoginLimit \in Nat /\ MaxMoves \in Nat
                            /\ ForceLogin \in BOOLEAN

VARIABLES
  \* The lock.
  owner,     \* whose key opens it
  applied,   \* the steps it has carried out for that owner
  strict,    \* whether it checks the device id a login names
  at,        \* the address it advertises under
  moves,     \* how often that has changed
  link,      \* the run it is connected to
  \* The disk.
  file,      \* the state file of every enrollment
  recorded,  \* lines of the last day in failed-logins.jsonl, as far as they count
  \* The runs of the tool.
  pc,        \* where a run is
  cmd,       \* "enroll", "resume", "use" (login, read and the writes) or "scan"
  key,       \* the enrollment it makes, finishes or logs in with
  mem,       \* that enrollment as the run knows it
  target,    \* the address on its command line
  out,       \* the step whose command is out
  taken,     \* whether the lock has carried that command out
  lost       \* history: keys the lock took and no run could save

lockVars == <<owner, applied, strict, at, moves>>
diskVars == <<file, recorded>>
runVars  == <<pc, cmd, key, mem, target, out, taken>>
vars == <<lockVars, link, diskVars, runVars, lost>>

Places == {"idle", "listening", "opening", "login", "second login", "sending", "using", "scanning"}
OnLink == {"login", "second login", "sending", "using"}

TypeOK ==
  /\ owner \in Keys \cup {Factory}
  /\ applied \in SUBSET Steps
  /\ strict \in BOOLEAN
  /\ at \in Addresses
  /\ moves \in Nat
  /\ link \in Runs \cup {NoRun}
  /\ file \in [Keys -> Enrollment \cup {Absent}]
  /\ recorded \in [Addresses -> 0..FailedLoginLimit]
  /\ pc \in [Runs -> Places]
  /\ cmd \in [Runs -> {"none", "enroll", "resume", "use", "scan"}]
  /\ key \in [Runs -> Keys \cup {Factory}]
  /\ mem \in [Runs -> Enrollment \cup {Absent}]
  /\ target \in [Runs -> Addresses \cup {Absent}]
  /\ out \in [Runs -> Steps]
  /\ taken \in [Runs -> BOOLEAN]
  /\ lost \in SUBSET Keys

Init ==
  /\ owner = Factory /\ applied = {}
  /\ strict \in BOOLEAN
  /\ at = FirstAddress /\ moves = 0
  /\ link = NoRun
  /\ file = [k \in Keys |-> Absent]
  /\ recorded = [a \in Addresses |-> 0]
  /\ pc = [r \in Runs |-> "idle"]
  /\ cmd = [r \in Runs |-> "none"]
  /\ key = [r \in Runs |-> Factory]
  /\ mem = [r \in Runs |-> Absent]
  /\ target = [r \in Runs |-> Absent]
  /\ out = [r \in Runs |-> "owner_key"]
  /\ taken = [r \in Runs |-> FALSE]
  /\ lost = {}
-----------------------------------------------------------------------------
(***************************************************************************)
(* The state directory.                                                    *)
(***************************************************************************)

(* StateStore.by_address: the enrollments last seen at an address. *)
ByAddress(a) == {k \in Keys : file[k] # Absent /\ file[k].at = a}

(* check_login_budget *)
Budget(a) == recorded[a] < FailedLoginLimit \/ ForceLogin

(* StateStore.save: the file of one enrollment is replaced.  That it may   *)
(* fail (a full disk) is in the actions that call it.                      *)
Save(k, done, a) == file' = [file EXCEPT ![k] = [done |-> done, at |-> a]]

(* record_login_failures: n lines.  More than the limit make no difference. *)
Record(a, n) ==
  recorded' = [recorded EXCEPT ![a] = IF @ + n < FailedLoginLimit THEN @ + n ELSE FailedLoginLimit]

(* A key no run, no file and no lock has: new_device_id and the key pairs. *)
Fresh(k) ==
  /\ file[k] = Absent /\ owner # k /\ k \notin lost
  /\ \A r \in Runs : pc[r] # "idle" => key[r] # k
-----------------------------------------------------------------------------
(***************************************************************************)
(* A run, up to its login.                                                 *)
(***************************************************************************)

Begin(r, c, k, e, a, place) ==
  /\ pc[r] = "idle"
  /\ pc' = [pc EXCEPT ![r] = place]
  /\ cmd' = [cmd EXCEPT ![r] = c]
  /\ key' = [key EXCEPT ![r] = k]
  /\ mem' = [mem EXCEPT ![r] = e]
  /\ target' = [target EXCEPT ![r] = a]
  /\ UNCHANGED <<lockVars, link, diskVars, out, taken, lost>>

(* cmd_enroll: no file may name the address; then it listens. *)
AskEnroll(r, k, a) ==
  /\ r \in Enrollers /\ Fresh(k)
  /\ ByAddress(a) = {}
  /\ Begin(r, "enroll", k, Absent, a, "listening")

(* What the lock advertises: the seed of an enrolled one is not 0000.  When *)
(* it changes is not known; it does once the lock has a device id of ours. *)
AdvertisesEnrolled == {owner # Factory, "device_id" \in applied}

(* The advertisement is there and says factory state; the budget is read. *)
HearFactoryState(r) ==
  /\ pc[r] = "listening"
  /\ at = target[r] /\ FALSE \in AdvertisesEnrolled
  /\ Budget(target[r])
  /\ pc' = [pc EXCEPT ![r] = "opening"]
  /\ UNCHANGED <<lockVars, link, diskVars, cmd, key, mem, target, out, taken, lost>>

(* _resume: of the one enrollment seen at that address, or of the one that *)
(* --state names, if there is anything left to do.                         *)
AskResume(r, k, a) ==
  /\ r \in Enrollers
  /\ file[k] # Absent /\ file[k].done # Steps
  /\ Budget(a)
  /\ Begin(r, "resume", k, file[k], a, "opening")

(* resolve_login: the factory credential, or the enrollment last seen at   *)
(* the address, or the one that --state names.                             *)
Resolves(k) == k # Factory => file[k] # Absent

(* cmd_login, cmd_read and run_write: resolve_login, then the budget.      *)
AskUse(r, k, a) ==
  /\ Resolves(k) /\ Budget(a)
  /\ Begin(r, "use", k, IF k = Factory THEN Absent ELSE file[k], a, "opening")

(* cmd_scan reads every state file, then listens.  What it does about one  *)
(* of them does not depend on the others.                                  *)
AskScan(r, k) ==
  /\ file[k] # Absent
  /\ Begin(r, "scan", k, file[k], at, "scanning")

(* open_session: connected, keys exchanged, and UserAuthBegin is out. *)
Open(r) ==
  /\ pc[r] = "opening"
  /\ link = NoRun /\ at = target[r]
  /\ link' = r
  /\ pc' = [pc EXCEPT ![r] = "login"]
  /\ UNCHANGED <<lockVars, diskVars, cmd, key, mem, target, out, taken, lost>>
-----------------------------------------------------------------------------
(***************************************************************************)
(* How a run ends, and how an enrollment goes on.                          *)
(***************************************************************************)

(* open_session closes the session whatever happened, and the process ends. *)
Ended(r) ==
  /\ link' = IF link = r THEN NoRun ELSE link
  /\ pc' = [pc EXCEPT ![r] = "idle"]
  /\ cmd' = [cmd EXCEPT ![r] = "none"]
  /\ key' = [key EXCEPT ![r] = Factory]
  /\ mem' = [mem EXCEPT ![r] = Absent]
  /\ target' = [target EXCEPT ![r] = Absent]
  /\ out' = [out EXCEPT ![r] = "owner_key"]
  /\ taken' = [taken EXCEPT ![r] = FALSE]

(* The key of an unanswered UserAuthUpdate that the lock took: nobody has it. *)
Orphaned(r) ==
  IF pc[r] = "sending" /\ out[r] = "owner_key" /\ taken[r] THEN {key[r]} ELSE {}

(* Enrollment.remaining is in the order of EnrollmentStep. *)
IsNext(s, done) == s \notin done /\ \A t \in Steps : Rank[t] < Rank[s] => t \in done

Sends(r, s) ==
  /\ pc' = [pc EXCEPT ![r] = "sending"]
  /\ out' = [out EXCEPT ![r] = s]
  /\ taken' = [taken EXCEPT ![r] = FALSE]
  /\ UNCHANGED <<cmd, key, target, link>>

(* _run_remaining with what is done so far: the next command, or the end. *)
GoOn(r, done) ==
  \/ /\ done = Steps
     /\ Ended(r)
  \/ \E s \in Steps :
       /\ IsNext(s, done)
       /\ Sends(r, s)
       /\ mem' = [mem EXCEPT ![r] = [done |-> done, at |-> target[r]]]

(* Variation: the next command goes out before the step is saved. *)
Confirmed_sendsFirst(r, done) ==
  \/ GoOn(r, done) /\ UNCHANGED <<file, lost>>
  \/ Save(key[r], done, target[r]) /\ Ended(r) /\ UNCHANGED lost

(* _save of a confirmed step, before the next command goes out.  If it     *)
(* fails, nothing more is sent, and _enrollment_not_saved tries once more. *)
Confirmed(r, done) ==
  \/ Save(key[r], done, target[r]) /\ GoOn(r, done) /\ UNCHANGED lost
  \/ Save(key[r], done, target[r]) /\ Ended(r) /\ UNCHANGED lost
  \/ /\ Ended(r)
     /\ lost' = lost \cup ({key[r]} \ {k \in Keys : file[k] # Absent})
     /\ UNCHANGED file
-----------------------------------------------------------------------------
(***************************************************************************)
(* The login (authenticate_owner) and what follows it.                     *)
(***************************************************************************)

(* The lock takes a login with its owner's key, if the device id is the    *)
(* one it has or it does not look; ours is what a login names.             *)
Accepts(k, ours) ==
  /\ owner = k
  /\ k # Factory /\ strict => (ours <=> "device_id" \in applied)

(* Enrollment.owner_credential: our device id once that step is confirmed. *)
NamesOurs(r) == mem[r] # Absent /\ "device_id" \in mem[r].done

Credential(r) == IF cmd[r] = "enroll" THEN Factory ELSE key[r]

(* The lock takes the login: enroll sends UserAuthUpdate, resume the first *)
(* step that is left, and any other command notes the address it used.     *)
LoginTaken(r) ==
  /\ pc[r] = "login" /\ Accepts(Credential(r), NamesOurs(r))
  /\ \/ /\ cmd[r] = "enroll"
        /\ Sends(r, "owner_key")
        /\ UNCHANGED <<mem, file>>
     \/ /\ cmd[r] = "resume"
        /\ GoOn(r, mem[r].done)
        /\ UNCHANGED file
     \/ /\ cmd[r] = "use"
        /\ pc' = [pc EXCEPT ![r] = "using"]
        /\ IF mem[r] # Absent /\ mem[r].at # target[r]
           THEN Save(key[r], mem[r].done, target[r])
           ELSE UNCHANGED file
        /\ UNCHANGED <<cmd, key, mem, target, out, taken, link>>
  /\ UNCHANGED <<lockVars, recorded, lost>>

(* Variation: a resume whose login is refused gives up. *)
TriesOurs_never(r) == FALSE

(* _log_in_to_resume: a refused factory device id is followed by ours. *)
TriesOurs(r) == cmd[r] = "resume" /\ ~NamesOurs(r)

(* The lock refuses the credential (BleSecurityError). *)
LoginRefused(r) ==
  /\ pc[r] = "login" /\ ~Accepts(Credential(r), NamesOurs(r))
  /\ \/ /\ TriesOurs(r)
        /\ pc' = [pc EXCEPT ![r] = "second login"]
        /\ UNCHANGED <<link, cmd, key, mem, target, out, taken, recorded>>
     \/ /\ ~TriesOurs(r)
        /\ Record(target[r], 1)
        /\ Ended(r)
  /\ UNCHANGED <<lockVars, file, lost>>

(* Any other status than success: no second attempt. *)
LoginFails(r) ==
  /\ pc[r] = "login"
  /\ Record(target[r], 1)
  /\ Ended(r)
  /\ UNCHANGED <<lockVars, file, lost>>

(* Variation: that DeviceIdSet had gone through is not noted. *)
SecondLoginTaken_notNoted(r) ==
  /\ pc[r] = "second login" /\ Accepts(key[r], TRUE)
  /\ Confirmed(r, mem[r].done)
  /\ UNCHANGED <<lockVars, recorded>>

(* The lock takes our device id, so DeviceIdSet had gone through: the step *)
(* is confirmed, saved, and not sent again.                                *)
SecondLoginTaken(r) ==
  /\ pc[r] = "second login" /\ Accepts(key[r], TRUE)
  /\ Confirmed(r, mem[r].done \cup {"device_id"})
  /\ UNCHANGED <<lockVars, recorded>>

(* Refused again, for whatever reason: two attempts, so two lines, since   *)
(* the first error is the context of the second.                           *)
SecondLoginRefused(r) ==
  /\ pc[r] = "second login"
  /\ Record(target[r], 2)
  /\ Ended(r)
  /\ UNCHANGED <<lockVars, file, lost>>

(* No answer, or the link is gone.  log_in counts that as an attempt; the  *)
(* handlers of enroll and resume are for BleOperationError only.           *)
LoginUnanswered(r) ==
  /\ pc[r] \in {"login", "second login"}
  /\ Record(target[r], IF cmd[r] = "use" THEN 1 ELSE 0)
  /\ Ended(r)
  /\ UNCHANGED <<lockVars, file, lost>>
-----------------------------------------------------------------------------
(***************************************************************************)
(* The steps of an enrollment.                                             *)
(***************************************************************************)

(* The lock carries the command out: UserAuthUpdate makes the key its      *)
(* owner's, the others are done for that owner.                            *)
LockApplies(r) ==
  /\ pc[r] = "sending" /\ ~taken[r]
  /\ taken' = [taken EXCEPT ![r] = TRUE]
  /\ IF out[r] = "owner_key"
     THEN owner' = key[r] /\ applied' = {"owner_key"}
     ELSE applied' = applied \cup {out[r]} /\ UNCHANGED owner
  /\ UNCHANGED <<strict, at, moves, link, diskVars, pc, cmd, key, mem, target, out, lost>>

(* What is completed once the step that is out is. *)
Completed(r) == IF mem[r] = Absent THEN {out[r]} ELSE mem[r].done \cup {out[r]}

(* Its answer arrives. *)
StepAnswered(r) ==
  /\ pc[r] = "sending" /\ taken[r]
  /\ Confirmed(r, Completed(r))
  /\ UNCHANGED <<lockVars, recorded>>

(* Variation: the step that failed is saved with the others. *)
StepFails_savesIt(r) ==
  /\ pc[r] = "sending"
  /\ IF out[r] = "owner_key" THEN UNCHANGED file ELSE Save(key[r], Completed(r), target[r])
  /\ lost' = lost \cup Orphaned(r)
  /\ Ended(r)
  /\ UNCHANGED <<lockVars, recorded>>

(* The lock refuses the step, or its answer does not come, carried out or  *)
(* not.  _enrollment_stopped saves what was completed before, and that     *)
(* save may fail as well.                                                  *)
StepFails(r) ==
  /\ pc[r] = "sending"
  /\ \/ out[r] # "owner_key" /\ Save(key[r], mem[r].done, target[r])
     \/ UNCHANGED file
  /\ lost' = lost \cup Orphaned(r)
  /\ Ended(r)
  /\ UNCHANGED <<lockVars, recorded>>

(* Ctrl-C, a crash, a refusal before anything is sent, or the command's    *)
(* own end: nothing is written.                                            *)
Stops(r) ==
  /\ pc[r] # "idle"
  /\ lost' = lost \cup Orphaned(r)
  /\ Ended(r)
  /\ UNCHANGED <<lockVars, diskVars>>

(* _describe_advertisement: the enrolled lock is known by its device id,   *)
(* and set_address saves the enrollment the scan read when it began.       *)
ScanFinds(r) ==
  /\ pc[r] = "scanning"
  /\ owner = key[r] /\ "device_id" \in applied /\ at # mem[r].at
  /\ Save(key[r], mem[r].done, at)
  /\ Ended(r)
  /\ UNCHANGED <<lockVars, recorded, lost>>
-----------------------------------------------------------------------------
(***************************************************************************)
(* The person at the lock, and time.                                       *)
(***************************************************************************)

ResetModule ==
  /\ owner # Factory /\ link = NoRun
  /\ owner' = Factory /\ applied' = {}
  /\ UNCHANGED <<strict, at, moves, link, diskVars, runVars, lost>>

AddressChanges ==
  /\ link = NoRun /\ moves < MaxMoves
  /\ at' \in Addresses \ {at}
  /\ moves' = moves + 1
  /\ UNCHANGED <<owner, applied, strict, link, diskVars, runVars, lost>>

(* FAILED_LOGIN_WINDOW has passed. *)
DayPasses(a) ==
  /\ recorded[a] # 0
  /\ recorded' = [recorded EXCEPT ![a] = 0]
  /\ UNCHANGED <<lockVars, link, file, runVars, lost>>

Next ==
  \/ \E r \in Runs :
       \/ \E k \in Keys, a \in Addresses : AskEnroll(r, k, a) \/ AskResume(r, k, a)
       \/ \E k \in Keys \cup {Factory}, a \in Addresses : AskUse(r, k, a)
       \/ \E k \in Keys : AskScan(r, k)
       \/ HearFactoryState(r) \/ Open(r)
       \/ LoginTaken(r) \/ LoginRefused(r) \/ LoginFails(r) \/ LoginUnanswered(r)
       \/ SecondLoginTaken(r) \/ SecondLoginRefused(r)
       \/ LockApplies(r) \/ StepAnswered(r) \/ StepFails(r)
       \/ Stops(r) \/ ScanFinds(r)
  \/ ResetModule \/ AddressChanges
  \/ \E a \in Addresses : DayPasses(a)

(***************************************************************************)
(* Every command of the tool ends (its exchanges time out).  Again and     *)
(* again nothing runs in a terminal, the lock is not in use and the failed *)
(* logins allow a try; the person then resumes the enrollment of the       *)
(* lock's owner again and again, and what that needs of the lock, the link *)
(* and the disk does not fail every time.                                  *)
(***************************************************************************)
Ready(r)        == pc[r] = "idle" /\ link = NoRun /\ Budget(at)
ResumesOwner(r) == link = NoRun /\ \E k \in Keys : owner = k /\ AskResume(r, k, at)
Resuming(r)     == cmd[r] = "resume"

Fairness ==
  /\ \A r \in Runs : WF_vars(Stops(r))
  /\ \A r \in Enrollers :
       /\ []<>Ready(r)
       /\ SF_vars(ResumesOwner(r))
       /\ SF_vars(Resuming(r) /\ Open(r))
       /\ SF_vars(Resuming(r) /\ (LoginTaken(r) \/ LoginRefused(r)))
       /\ SF_vars(LockApplies(r))
       /\ SF_vars((SecondLoginTaken(r) \/ StepAnswered(r)) /\ file' # file)

Spec     == Init /\ [][Next]_vars
FairSpec == Spec /\ Fairness
-----------------------------------------------------------------------------
(***************************************************************************)
(* Properties.                                                             *)
(***************************************************************************)

(* A lock that has a key of ours can be opened again: the key is in its    *)
(* state file.  It is not while UserAuthUpdate is unanswered, nor if no    *)
(* run got the answer or none could save it, which is what enroll() says   *)
(* of itself ("the one exception is while UserAuthUpdate is answered").    *)
KeyKept ==
  \A k \in Keys :
    owner = k =>
      \/ file[k] # Absent
      \/ k \in lost
      \/ \E r \in Runs : k \in Orphaned(r)

(* A state file claims no step that the lock has not carried out, whoever  *)
(* saved it last and however old what it knew was.                         *)
FileIsTrue == \A k \in Keys : owner = k /\ file[k] # Absent => file[k].done \subseteq applied

(* A lock that checks device ids is given one once: a resume that cannot   *)
(* know whether DeviceIdSet went through finds out before it sends it.     *)
IdSetOnce ==
  [][\A r \in Runs :
       strict /\ out[r] = "device_id" /\ ~taken[r] /\ taken'[r] => "device_id" \notin applied]_vars

(* An enrollment stopped anywhere after its key was saved gets finished by *)
(* resuming it, unless the module is reset.                                *)
Unfinished(k) == owner = k /\ file[k] # Absent /\ file[k].done # Steps

EnrollmentFinishes == \A k \in Keys : []<>~Unfinished(k)
==============================================================================
