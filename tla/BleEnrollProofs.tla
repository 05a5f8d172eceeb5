--------------------------- MODULE BleEnrollProofs ---------------------------
(***************************************************************************)
(* Proofs about BleEnroll, for any number of runs, all of which may        *)
(* enroll, any enrollments and any addresses.                              *)
(*                                                                         *)
(* The inductive invariant says what a run may rely on while it has the    *)
(* lock: nobody else has (Linked); the key it is about to set is in no     *)
(* file and in no other run (OwnKey); and what it knows about the          *)
(* enrollment is true of the lock (Informed), even if it read it long ago. *)
(***************************************************************************)
EXTENDS BleEnroll, TLAPS

(* A run that has a login or a command out is the one connected. *)
Linked == \A r \in Runs : pc[r] \in OnLink => link = r

(* Which run has what in memory. *)
Shape ==
  \A r \in Runs :
    /\ mem[r] # Absent \/ cmd[r] \in {"enroll", "resume"} => key[r] \in Keys
    /\ cmd[r] \in {"resume", "scan"} => mem[r] # Absent
    /\ key[r] \in Keys /\ mem[r] = Absent => cmd[r] = "enroll"
    /\ pc[r] # "idle" => target[r] \in Addresses /\ cmd[r] # "none"
    /\ pc[r] = "idle" => key[r] = Factory
    /\ pc[r] = "scanning" => cmd[r] = "scan"
    /\ pc[r] = "sending" => cmd[r] \in {"enroll", "resume"}
    /\ pc[r] = "second login" => cmd[r] = "resume"
    /\ cmd[r] = "enroll" /\ pc[r] # "sending" => mem[r] = Absent

(* A key not yet set is known to its run alone. *)
OwnKey ==
  \A r \in Runs :
    key[r] \in Keys /\ mem[r] = Absent =>
      /\ file[key[r]] = Absent
      /\ \A s \in Runs \ {r} : key[s] # key[r]

(* What a run knows of the lock it is connected to. *)
Informed ==
  \A r \in Runs :
    /\ mem[r] # Absent /\ owner = key[r] => mem[r].done \subseteq applied
    /\ pc[r] = "second login" /\ owner = key[r] => strict /\ "device_id" \in applied
    /\ pc[r] = "sending" /\ out[r] = "owner_key" =>
         /\ mem[r] = Absent
         /\ taken[r] => owner = key[r] /\ applied = {"owner_key"}
    /\ pc[r] = "sending" /\ out[r] # "owner_key" =>
         /\ mem[r] # Absent /\ owner = key[r]
         /\ IsNext(out[r], mem[r].done)
         /\ taken[r] => out[r] \in applied
    /\ pc[r] = "sending" /\ out[r] = "device_id" /\ ~taken[r] /\ strict => "device_id" \notin applied

EnrollInv == TypeOK /\ Linked /\ Shape /\ OwnKey /\ Informed /\ FileIsTrue

USE RunsAssumption, KeysAssumption, AddressAssumption, AbsentAssumption, BoundsAssumption

(* Initially nothing runs and the lock is nobody's. *)
LEMMA InitEnrollInv == Init => EnrollInv
  BY DEF Init, EnrollInv, TypeOK, Linked, Shape, OwnKey, Informed, FileIsTrue, OnLink, Places,
         Steps, Enrollment, Progress

(* Starting a command of the tool disturbs nothing: what it reads from a file is true of the lock. *)
LEMMA BeginKeeps ==
  ASSUME EnrollInv, NEW r \in Runs, NEW c \in {"enroll", "resume", "use", "scan"},
         NEW k \in Keys \cup {Factory}, NEW e \in Enrollment \cup {Absent}, NEW a \in Addresses,
         NEW p \in {"listening", "opening", "scanning"},
         Begin(r, c, k, e, a, p),
         e # Absent => k \in Keys /\ e = file[k],
         c = "enroll" <=> k \in Keys /\ e = Absent,
         c = "enroll" => Fresh(k),
         c \in {"resume", "scan"} => e # Absent,
         p = "scanning" <=> c = "scan"
  PROVE  EnrollInv'
<1>1. TypeOK'
  BY DEF EnrollInv, TypeOK, Begin, Places, lockVars, diskVars
<1>2. Linked'
  BY DEF EnrollInv, TypeOK, Linked, Begin, OnLink, lockVars, diskVars
<1>3. Shape'
  BY DEF EnrollInv, TypeOK, Shape, Begin, lockVars, diskVars
<1>4. OwnKey'
  BY DEF EnrollInv, TypeOK, Shape, OwnKey, Begin, Fresh, lockVars, diskVars
<1>5. Informed'
  BY DEF EnrollInv, TypeOK, Informed, FileIsTrue, Begin, lockVars, diskVars
<1>6. FileIsTrue'
  BY DEF EnrollInv, FileIsTrue, Begin, lockVars, diskVars
<1> QED BY <1>1, <1>2, <1>3, <1>4, <1>5, <1>6 DEF EnrollInv

(* A saved enrollment is in its file, and no other file changes. *)
LEMMA SaveDoes ==
  ASSUME EnrollInv, NEW k \in Keys, NEW done \in Progress, NEW a \in Addresses, Save(k, done, a)
  PROVE  /\ file' \in [Keys -> Enrollment \cup {Absent}]
         /\ file'[k] # Absent /\ file'[k].done = done
         /\ \A j \in Keys \ {k} : file'[j] = file[j]
<1> DEFINE e == [done |-> done, at |-> a]
<1>1. e \in Enrollment /\ e.done = done
  BY DEF Enrollment
<1>2. file' = [file EXCEPT ![k] = e] /\ file \in [Keys -> Enrollment \cup {Absent}]
  BY DEF EnrollInv, TypeOK, Save
<1> HIDE DEF e
<1> QED BY <1>1, <1>2

(* A run that ends takes nothing with it but the link; it may have saved   *)
(* what it knows of its own enrollment.                                    *)
LEMMA EndKeeps ==
  ASSUME EnrollInv, NEW r \in Runs, Ended(r), UNCHANGED lockVars,
         recorded' \in [Addresses -> 0..FailedLoginLimit], lost' \in SUBSET Keys,
         \/ file' = file
         \/ \E done \in Progress, a \in Addresses :
              /\ key[r] \in Keys /\ Save(key[r], done, a)
              /\ owner = key[r] => done \subseteq applied
  PROVE  EnrollInv'
<1>1. /\ owner' = owner /\ applied' = applied /\ strict' = strict /\ at' = at /\ moves' = moves
      /\ pc' = [pc EXCEPT ![r] = "idle"] /\ cmd' = [cmd EXCEPT ![r] = "none"]
      /\ key' = [key EXCEPT ![r] = Factory] /\ mem' = [mem EXCEPT ![r] = Absent]
      /\ target' = [target EXCEPT ![r] = Absent] /\ out' = [out EXCEPT ![r] = "owner_key"]
      /\ taken' = [taken EXCEPT ![r] = FALSE]
      /\ link' = IF link = r THEN NoRun ELSE link
  BY DEF Ended, lockVars
<1>2. TypeOK'
  <2>1. file' \in [Keys -> Enrollment \cup {Absent}]
    BY SaveDoes DEF EnrollInv, TypeOK
  <2> QED BY <1>1, <2>1 DEF EnrollInv, TypeOK, Places, Steps
<1>3. Linked'
  BY <1>1 DEF EnrollInv, TypeOK, Linked, OnLink
<1>4. Shape'
  BY <1>1 DEF EnrollInv, TypeOK, Shape
<1>5. OwnKey'
  <2>1. \A k \in Keys : file'[k] = file[k] \/ k = key[r]
    BY SaveDoes DEF EnrollInv
  <2> QED BY <1>1, <2>1 DEF EnrollInv, TypeOK, Shape, OwnKey
<1>6. Informed'
  BY <1>1 DEF EnrollInv, TypeOK, Informed, IsNext
<1>7. FileIsTrue'
  BY <1>1, SaveDoes DEF EnrollInv, FileIsTrue
<1> QED BY <1>2, <1>3, <1>4, <1>5, <1>6, <1>7 DEF EnrollInv

(* A run that goes on with what the lock has done sends a step the lock    *)
(* has not done for it, or ends.                                           *)
LEMMA GoOnKeeps ==
  ASSUME EnrollInv, NEW r \in Runs, NEW done \in Progress, GoOn(r, done),
         UNCHANGED <<lockVars, recorded, lost>>,
         pc[r] \in OnLink, cmd[r] \in {"enroll", "resume"},
         file' = file \/ Save(key[r], done, target[r]),
         owner = key[r], done \subseteq applied,
         strict /\ "device_id" \in applied => "device_id" \in done
  PROVE  EnrollInv'
<1>1. key[r] \in Keys /\ target[r] \in Addresses /\ link = r
  BY DEF EnrollInv, Shape, OnLink, Linked
<1>2. CASE Ended(r)
  <2>1. recorded' \in [Addresses -> 0..FailedLoginLimit] /\ lost' \in SUBSET Keys /\ UNCHANGED lockVars
    BY DEF EnrollInv, TypeOK
  <2> QED BY <1>1, <1>2, <2>1, EndKeeps
<1>3. ASSUME NEW n \in Steps, IsNext(n, done), Sends(r, n),
             mem' = [mem EXCEPT ![r] = [done |-> done, at |-> target[r]]]
      PROVE  EnrollInv'
  <2>1. /\ owner' = owner /\ applied' = applied /\ strict' = strict /\ at' = at /\ moves' = moves
        /\ pc' = [pc EXCEPT ![r] = "sending"] /\ cmd' = cmd /\ key' = key /\ target' = target
        /\ out' = [out EXCEPT ![r] = n] /\ taken' = [taken EXCEPT ![r] = FALSE] /\ link' = link
        /\ recorded' = recorded /\ lost' = lost
    BY <1>3 DEF Sends, lockVars
  <2>2. [done |-> done, at |-> target[r]] \in Enrollment
    BY <1>1 DEF Enrollment
  <2>3. n # "owner_key"
    BY <1>3 DEF IsNext, Progress
  <2>4. TypeOK'
    <3>1. file' \in [Keys -> Enrollment \cup {Absent}]
      BY <1>1, SaveDoes DEF EnrollInv, TypeOK
    <3> QED BY <1>1, <1>3, <2>1, <2>2, <3>1 DEF EnrollInv, TypeOK, Places
  <2>5. Linked'
    BY <1>1, <2>1 DEF EnrollInv, TypeOK, Linked, OnLink
  <2>6. Shape'
    BY <1>1, <1>3, <2>1, <2>2 DEF EnrollInv, TypeOK, Shape
  <2>7. OwnKey'
    <3>1. \A k \in Keys : file'[k] = file[k] \/ k = key[r]
      BY <1>1, SaveDoes DEF EnrollInv
    <3>2. mem'[r] # Absent /\ \A s \in Runs \ {r} : mem'[s] = mem[s]
      BY <1>3, <2>2 DEF EnrollInv, TypeOK
    <3> QED BY <2>1, <3>1, <3>2 DEF EnrollInv, OwnKey
  <2>8. Informed'
    <3>1. mem'[r] = [done |-> done, at |-> target[r]] /\ out'[r] = n /\ taken'[r] = FALSE /\ pc'[r] = "sending"
      BY <1>3, <2>1 DEF EnrollInv, TypeOK
    <3>2. \A s \in Runs \ {r} : /\ mem'[s] = mem[s] /\ out'[s] = out[s]
                                 /\ taken'[s] = taken[s] /\ pc'[s] = pc[s]
      BY <1>3, <2>1 DEF EnrollInv, TypeOK
    <3>3. n = "device_id" => "device_id" \notin done
      BY <1>3 DEF IsNext
    <3>4. mem'[r] # Absent /\ mem'[r].done = done
      BY <2>2, <3>1
    <3>5. IsNext(n, mem'[r].done)
      BY <1>3, <3>4
    <3> SUFFICES ASSUME NEW s \in Runs PROVE Informed!(s)'
      BY DEF Informed
    <3>6. CASE s = r
      BY <2>1, <2>3, <3>1, <3>3, <3>4, <3>5, <3>6
    <3>7. CASE s # r
      <4>1. mem'[s] = mem[s] /\ pc'[s] \notin {"sending", "second login"}
        BY <1>1, <3>2, <3>7 DEF EnrollInv, Linked, OnLink
      <4>2. mem[s] # Absent /\ owner = key[s] => mem[s].done \subseteq applied
        BY DEF EnrollInv, Informed
      <4> QED BY <2>1, <4>1, <4>2
    <3> QED BY <3>6, <3>7
  <2>9. FileIsTrue'
    BY <1>1, <2>1, SaveDoes DEF EnrollInv, FileIsTrue
  <2> QED BY <2>4, <2>5, <2>6, <2>7, <2>8, <2>9 DEF EnrollInv
<1> QED BY <1>2, <1>3 DEF GoOn

(* A confirmed step is saved, and the run goes on or ends. *)
LEMMA ConfirmedKeeps ==
  ASSUME EnrollInv, NEW r \in Runs, NEW done \in Progress, Confirmed(r, done),
         UNCHANGED <<lockVars, recorded>>,
         pc[r] \in OnLink, cmd[r] \in {"enroll", "resume"},
         owner = key[r], done \subseteq applied,
         strict /\ "device_id" \in applied => "device_id" \in done
  PROVE  EnrollInv'
<1>1. key[r] \in Keys /\ target[r] \in Addresses
  BY DEF EnrollInv, Shape, OnLink
<1>2. recorded' \in [Addresses -> 0..FailedLoginLimit] /\ UNCHANGED lockVars
  BY DEF EnrollInv, TypeOK
<1>3. CASE Save(key[r], done, target[r]) /\ GoOn(r, done) /\ UNCHANGED lost
  BY <1>3, GoOnKeeps
<1>4. CASE Save(key[r], done, target[r]) /\ Ended(r) /\ UNCHANGED lost
  <2>1. lost' \in SUBSET Keys
    BY <1>4 DEF EnrollInv, TypeOK
  <2> QED BY <1>1, <1>2, <1>4, <2>1, EndKeeps
<1>5. CASE Ended(r) /\ file' = file /\ lost' = lost \cup ({key[r]} \ {k \in Keys : file[k] # Absent})
  <2>1. lost' \in SUBSET Keys
    BY <1>1, <1>5 DEF EnrollInv, TypeOK
  <2> QED BY <1>2, <1>5, <2>1, EndKeeps
<1> QED BY <1>3, <1>4, <1>5 DEF Confirmed
-----------------------------------------------------------------------------
(***************************************************************************)
(* One lemma per action, or per group of actions that end a run.           *)
(***************************************************************************)

(* What can be recorded. *)
LEMMA RecordType ==
  ASSUME EnrollInv, NEW a \in Addresses, NEW n \in Nat, Record(a, n)
  PROVE  recorded' \in [Addresses -> 0..FailedLoginLimit]
<1> DEFINE m == IF recorded[a] + n < FailedLoginLimit THEN recorded[a] + n ELSE FailedLoginLimit
<1>1. recorded \in [Addresses -> 0..FailedLoginLimit] /\ recorded' = [recorded EXCEPT ![a] = m]
  BY DEF EnrollInv, TypeOK, Record
<1>2. m \in 0..FailedLoginLimit
  BY <1>1
<1> HIDE DEF m
<1> QED BY <1>1, <1>2

(* The keys a run loses are keys. *)
LEMMA OrphanedType ==
  ASSUME EnrollInv, NEW r \in Runs
  PROVE  Orphaned(r) \in SUBSET Keys
  BY DEF EnrollInv, Shape, Orphaned

(* A login that is taken: the first command goes out, or the address is noted. *)
LEMMA LoginTakenKeeps == ASSUME EnrollInv, NEW r \in Runs, LoginTaken(r) PROVE EnrollInv'
<1>1. /\ pc[r] = "login" /\ pc[r] \in OnLink /\ link = r /\ target[r] \in Addresses
      /\ Accepts(Credential(r), NamesOurs(r)) /\ UNCHANGED <<lockVars, recorded, lost>>
  BY DEF LoginTaken, OnLink, EnrollInv, Linked, Shape
<1>2. CASE cmd[r] = "enroll" /\ Sends(r, "owner_key") /\ UNCHANGED <<mem, file>>
  <2>1. /\ pc' = [pc EXCEPT ![r] = "sending"] /\ out' = [out EXCEPT ![r] = "owner_key"]
        /\ taken' = [taken EXCEPT ![r] = FALSE]
        /\ UNCHANGED <<owner, applied, strict, at, moves, cmd, key, target, link, mem, file, recorded, lost>>
    BY <1>1, <1>2 DEF Sends, lockVars
  <2>2. mem[r] = Absent
    BY <1>1, <1>2 DEF EnrollInv, Shape
  <2>3. TypeOK'
    BY <2>1 DEF EnrollInv, TypeOK, Places, Steps
  <2>4. Linked'
    BY <1>1, <2>1 DEF EnrollInv, TypeOK, Linked, OnLink
  <2>5. Shape'
    BY <1>1, <1>2, <2>1 DEF EnrollInv, TypeOK, Shape
  <2>6. OwnKey' /\ FileIsTrue'
    BY <2>1 DEF EnrollInv, OwnKey, FileIsTrue
  <2>7. Informed'
    BY <2>1, <2>2 DEF EnrollInv, TypeOK, Informed, IsNext
  <2> QED BY <2>3, <2>4, <2>5, <2>6, <2>7 DEF EnrollInv
<1>3. CASE cmd[r] = "resume" /\ GoOn(r, mem[r].done) /\ UNCHANGED file
  <2>1. key[r] \in Keys /\ mem[r] \in Enrollment
    BY <1>3 DEF EnrollInv, Shape, TypeOK
  <2>2. mem[r].done \in Progress /\ mem[r] # Absent
    BY <2>1 DEF Enrollment
  <2>3. owner = key[r] /\ (strict => ("device_id" \in mem[r].done <=> "device_id" \in applied))
    BY <1>1, <1>3, <2>1, <2>2 DEF Accepts, Credential, NamesOurs
  <2>4. mem[r].done \subseteq applied
    BY <2>2, <2>3 DEF EnrollInv, Informed
  <2> QED BY <1>1, <1>3, <2>2, <2>3, <2>4, GoOnKeeps
<1>4. CASE /\ cmd[r] = "use" /\ pc' = [pc EXCEPT ![r] = "using"]
           /\ IF mem[r] # Absent /\ mem[r].at # target[r]
              THEN Save(key[r], mem[r].done, target[r])
              ELSE UNCHANGED file
           /\ UNCHANGED <<cmd, key, mem, target, out, taken, link>>
  <2>1. UNCHANGED <<owner, applied, strict, at, moves, cmd, key, target, link, mem, out, taken, recorded, lost>>
    BY <1>1, <1>4 DEF lockVars
  <2>2. mem[r] # Absent => key[r] \in Keys /\ mem[r] \in Enrollment
                           /\ (owner = key[r] => mem[r].done \subseteq applied)
    BY DEF EnrollInv, Shape, TypeOK, Informed
  <2>3. TypeOK'
    <3>1. mem[r] # Absent => mem[r].done \in Progress
      BY <2>2 DEF Enrollment
    <3>2. file' \in [Keys -> Enrollment \cup {Absent}]
      BY <1>1, <1>4, <2>2, <3>1, SaveDoes DEF EnrollInv, TypeOK
    <3> QED BY <1>4, <2>1, <3>2 DEF EnrollInv, TypeOK, Places
  <2>4. Linked' /\ Shape'
    BY <1>1, <1>4, <2>1 DEF EnrollInv, TypeOK, Linked, OnLink, Shape
  <2>5. OwnKey'
    BY <1>4, <2>1, <2>2 DEF EnrollInv, TypeOK, OwnKey, Save
  <2>6. Informed'
    BY <1>4, <2>1 DEF EnrollInv, TypeOK, Informed
  <2>7. FileIsTrue'
    BY <1>4, <2>1, <2>2 DEF EnrollInv, TypeOK, FileIsTrue, Save
  <2> QED BY <2>3, <2>4, <2>5, <2>6, <2>7 DEF EnrollInv
<1> QED BY <1>2, <1>3, <1>4 DEF LoginTaken

(* A refused login ends the run, or our device id is tried. *)
LEMMA LoginRefusedKeeps == ASSUME EnrollInv, NEW r \in Runs, LoginRefused(r) PROVE EnrollInv'
<1>1. /\ pc[r] = "login" /\ ~Accepts(Credential(r), NamesOurs(r)) /\ UNCHANGED lockVars
      /\ UNCHANGED <<file, lost>> /\ lost' \in SUBSET Keys
  BY DEF LoginRefused, EnrollInv, TypeOK
<1>2. CASE TriesOurs(r) /\ pc' = [pc EXCEPT ![r] = "second login"]
           /\ UNCHANGED <<link, cmd, key, mem, target, out, taken, recorded>>
  <2>1. UNCHANGED <<owner, applied, strict, at, moves>>
    BY <1>1 DEF lockVars
  <2>2. cmd[r] = "resume" /\ key[r] \in Keys /\ ~NamesOurs(r)
    BY <1>2 DEF TriesOurs, EnrollInv, Shape
  <2>3. owner = key[r] => strict /\ "device_id" \in applied
    BY <1>1, <2>2 DEF Accepts, Credential, EnrollInv, TypeOK
  <2>4. TypeOK' /\ OwnKey' /\ FileIsTrue'
    BY <1>1, <1>2, <2>1 DEF EnrollInv, TypeOK, Places, OwnKey, FileIsTrue
  <2>5. Linked' /\ Shape'
    BY <1>1, <1>2, <2>1, <2>2 DEF EnrollInv, TypeOK, Linked, OnLink, Shape
  <2>6. Informed'
    BY <1>2, <2>1, <2>3 DEF EnrollInv, TypeOK, Informed
  <2> QED BY <2>4, <2>5, <2>6 DEF EnrollInv
<1>3. CASE Record(target[r], 1) /\ Ended(r)
  <2>1. target[r] \in Addresses
    BY <1>1 DEF EnrollInv, Shape
  <2> QED BY <1>1, <1>3, <2>1, RecordType, EndKeeps
<1> QED BY <1>2, <1>3 DEF LoginRefused

(* The other ways a login ends a run. *)
LEMMA LoginEndsKeep ==
  ASSUME EnrollInv, NEW r \in Runs, LoginFails(r) \/ SecondLoginRefused(r) \/ LoginUnanswered(r)
  PROVE  EnrollInv'
<1>1. Ended(r) /\ UNCHANGED lockVars /\ file' = file /\ lost' \in SUBSET Keys
  BY DEF LoginFails, SecondLoginRefused, LoginUnanswered, EnrollInv, TypeOK
<1>2. PICK n \in Nat : Record(target[r], n) /\ target[r] \in Addresses
  BY DEF LoginFails, SecondLoginRefused, LoginUnanswered, EnrollInv, Shape
<1> QED BY <1>1, <1>2, RecordType, EndKeeps

(* Our device id is taken: the step is noted, saved, and not sent again. *)
LEMMA SecondLoginTakenKeeps == ASSUME EnrollInv, NEW r \in Runs, SecondLoginTaken(r) PROVE EnrollInv'
<1>1. /\ pc[r] \in OnLink /\ cmd[r] = "resume" /\ key[r] \in Keys /\ owner = key[r]
      /\ mem[r] \in Enrollment /\ mem[r] # Absent
  BY DEF SecondLoginTaken, OnLink, EnrollInv, Shape, TypeOK, Accepts
<1>2. mem[r].done \subseteq applied /\ "device_id" \in applied
  BY <1>1 DEF EnrollInv, Informed, SecondLoginTaken
<1>3. mem[r].done \cup {"device_id"} \in Progress
  BY <1>1 DEF Enrollment, Progress, Steps
<1> QED BY <1>1, <1>2, <1>3, ConfirmedKeeps DEF SecondLoginTaken

(* An answered step is done. *)
LEMMA StepAnsweredKeeps == ASSUME EnrollInv, NEW r \in Runs, StepAnswered(r) PROVE EnrollInv'
<1>1. /\ pc[r] = "sending" /\ pc[r] \in OnLink /\ cmd[r] \in {"enroll", "resume"} /\ taken[r]
      /\ out[r] \in Steps
  BY DEF StepAnswered, OnLink, EnrollInv, Shape, TypeOK
<1>2. CASE out[r] = "owner_key"
  <2>1. Completed(r) = {"owner_key"} /\ owner = key[r] /\ applied = {"owner_key"}
    BY <1>1, <1>2 DEF EnrollInv, Informed, Completed
  <2>2. Completed(r) \in Progress
    BY <2>1 DEF Progress, Steps
  <2> QED BY <1>1, <2>1, <2>2, ConfirmedKeeps DEF StepAnswered
<1>3. CASE out[r] # "owner_key"
  <2>1. mem[r] # Absent /\ mem[r] \in Enrollment /\ owner = key[r] /\ mem[r].done \subseteq applied
        /\ IsNext(out[r], mem[r].done) /\ out[r] \in applied
    BY <1>1, <1>3 DEF EnrollInv, Informed, TypeOK
  <2>2. Completed(r) = mem[r].done \cup {out[r]}
    BY <2>1 DEF Completed
  <2>3. Completed(r) \in Progress
    BY <1>1, <2>1, <2>2 DEF Progress, Enrollment
  <2>4. "device_id" \in Completed(r)
    BY <1>1, <1>3, <2>1, <2>2 DEF IsNext, Rank, Steps
  <2> QED BY <1>1, <2>1, <2>2, <2>3, <2>4, ConfirmedKeeps DEF StepAnswered
<1> QED BY <1>2, <1>3

(* A step that fails changes no file, or saves what was known before it. *)
LEMMA StepFailsKeeps == ASSUME EnrollInv, NEW r \in Runs, StepFails(r) PROVE EnrollInv'
<1>1. /\ pc[r] = "sending" /\ Ended(r) /\ UNCHANGED lockVars /\ lost' \in SUBSET Keys
      /\ recorded' \in [Addresses -> 0..FailedLoginLimit]
  BY OrphanedType DEF StepFails, EnrollInv, TypeOK
<1>2. CASE out[r] # "owner_key" /\ Save(key[r], mem[r].done, target[r])
  <2>1. /\ mem[r] # Absent /\ mem[r] \in Enrollment /\ key[r] \in Keys /\ target[r] \in Addresses
        /\ owner = key[r] => mem[r].done \subseteq applied
    BY <1>1, <1>2 DEF EnrollInv, Informed, Shape, TypeOK
  <2>2. mem[r].done \in Progress
    BY <2>1 DEF Enrollment
  <2> QED BY <1>1, <1>2, <2>1, <2>2, EndKeeps
<1>3. CASE file' = file
  BY <1>1, <1>3, EndKeeps
<1> QED BY <1>2, <1>3 DEF StepFails

(* So does a scan that finds the lock elsewhere. *)
LEMMA ScanFindsKeeps == ASSUME EnrollInv, NEW r \in Runs, ScanFinds(r) PROVE EnrollInv'
<1>1. /\ pc[r] = "scanning" /\ Ended(r) /\ UNCHANGED lockVars /\ lost' \in SUBSET Keys
      /\ recorded' \in [Addresses -> 0..FailedLoginLimit] /\ Save(key[r], mem[r].done, at)
  BY DEF ScanFinds, EnrollInv, TypeOK
<1>2. mem[r] # Absent /\ mem[r] \in Enrollment /\ key[r] \in Keys /\ at \in Addresses
      /\ (owner = key[r] => mem[r].done \subseteq applied)
  BY <1>1 DEF EnrollInv, Shape, TypeOK, Informed
<1>3. mem[r].done \in Progress
  BY <1>2 DEF Enrollment
<1> QED BY <1>1, <1>2, <1>3, EndKeeps

(* A run that is stopped writes nothing. *)
LEMMA StopsKeeps == ASSUME EnrollInv, NEW r \in Runs, Stops(r) PROVE EnrollInv'
<1>1. /\ Ended(r) /\ UNCHANGED lockVars /\ file' = file /\ lost' \in SUBSET Keys
      /\ recorded' \in [Addresses -> 0..FailedLoginLimit]
  BY OrphanedType DEF Stops, EnrollInv, TypeOK, diskVars
<1> QED BY <1>1, EndKeeps

(* The lock carries out what the one connected run has sent. *)
LEMMA LockAppliesKeeps == ASSUME EnrollInv, NEW r \in Runs, LockApplies(r) PROVE EnrollInv'
<1>1. /\ pc[r] = "sending" /\ link = r /\ taken[r] = FALSE /\ taken' = [taken EXCEPT ![r] = TRUE]
      /\ UNCHANGED <<strict, at, moves, link, file, recorded, pc, cmd, key, mem, target, out, lost>>
  BY DEF LockApplies, EnrollInv, Linked, OnLink, TypeOK, diskVars
<1>2. \A s \in Runs \ {r} : pc[s] \notin OnLink /\ taken'[s] = taken[s]
  BY <1>1 DEF EnrollInv, Linked, TypeOK
<1>3. /\ key[r] \in Keys /\ out[r] \in Steps
  BY <1>1 DEF EnrollInv, Shape, TypeOK
<1>4. Linked' /\ Shape' /\ OwnKey'
  BY <1>1 DEF EnrollInv, Linked, Shape, OwnKey
<1>5. CASE out[r] = "owner_key"
  <2>1. owner' = key[r] /\ applied' = {"owner_key"} /\ mem[r] = Absent
    BY <1>1, <1>5 DEF LockApplies, EnrollInv, Informed
  <2>2. file[key[r]] = Absent /\ \A s \in Runs \ {r} : key[s] # key[r]
    BY <1>3, <2>1 DEF EnrollInv, OwnKey
  <2>3. TypeOK'
    BY <1>1, <1>3, <2>1 DEF EnrollInv, TypeOK, Steps
  <2>4. Informed'
    <3>1. taken'[r] = TRUE
      BY <1>1 DEF EnrollInv, TypeOK
    <3> QED BY <1>1, <1>2, <1>5, <2>1, <2>2, <3>1 DEF EnrollInv, Informed, OnLink, IsNext
  <2>5. FileIsTrue'
    BY <1>1, <2>1, <2>2 DEF FileIsTrue
  <2> QED BY <1>4, <2>3, <2>4, <2>5 DEF EnrollInv
<1>6. CASE out[r] # "owner_key"
  <2>1. owner' = owner /\ applied' = applied \cup {out[r]}
    BY <1>6 DEF LockApplies
  <2>2. TypeOK' /\ FileIsTrue'
    BY <1>1, <1>3, <2>1 DEF EnrollInv, TypeOK, FileIsTrue
  <2>3. Informed'
    <3>1. taken'[r] = TRUE
      BY <1>1 DEF EnrollInv, TypeOK
    <3> QED BY <1>1, <1>2, <1>6, <2>1, <3>1 DEF EnrollInv, Informed, OnLink, IsNext
  <2> QED BY <1>4, <2>2, <2>3 DEF EnrollInv
<1> QED BY <1>5, <1>6

(* What only the world does: nobody is connected when the module is reset. *)
LEMMA WorldKeeps ==
  ASSUME EnrollInv, ResetModule \/ AddressChanges \/ \E a \in Addresses : DayPasses(a)
  PROVE  EnrollInv'
<1>1. CASE ResetModule
  <2>1. /\ owner' = Factory /\ applied' = {}
        /\ UNCHANGED <<strict, at, moves, link, file, recorded, pc, cmd, key, mem, target, out, taken, lost>>
    BY <1>1 DEF ResetModule, diskVars, runVars
  <2>2. \A r \in Runs : pc[r] \notin OnLink
    BY <1>1 DEF ResetModule, EnrollInv, Linked
  <2>3. \A r \in Runs : mem[r] # Absent => key[r] # Factory
    BY DEF EnrollInv, Shape
  <2>4. TypeOK' /\ Linked' /\ Shape' /\ OwnKey' /\ FileIsTrue'
    BY <2>1 DEF EnrollInv, TypeOK, Linked, Shape, OwnKey, FileIsTrue
  <2>5. Informed'
    BY <2>1, <2>2, <2>3 DEF EnrollInv, Informed, OnLink
  <2> QED BY <2>4, <2>5 DEF EnrollInv
<1>2. CASE AddressChanges
  <2>1. /\ at' \in Addresses /\ moves' = moves + 1
        /\ UNCHANGED <<owner, applied, strict, link, file, recorded, pc, cmd, key, mem, target, out, taken, lost>>
    BY <1>2 DEF AddressChanges, diskVars, runVars
  <2>2. TypeOK'
    BY <2>1 DEF EnrollInv, TypeOK
  <2>3. Linked' /\ Shape' /\ OwnKey' /\ Informed' /\ FileIsTrue'
    BY <2>1 DEF EnrollInv, Linked, Shape, OwnKey, Informed, FileIsTrue
  <2> QED BY <2>2, <2>3 DEF EnrollInv
<1>3. ASSUME NEW a \in Addresses, DayPasses(a) PROVE EnrollInv'
  <2>1. /\ recorded' = [recorded EXCEPT ![a] = 0]
        /\ UNCHANGED <<owner, applied, strict, at, moves, link, file, pc, cmd, key, mem, target, out, taken, lost>>
    BY <1>3 DEF DayPasses, lockVars, runVars
  <2>2. TypeOK'
    BY <2>1 DEF EnrollInv, TypeOK
  <2>3. Linked' /\ Shape' /\ OwnKey' /\ Informed' /\ FileIsTrue'
    BY <2>1 DEF EnrollInv, Linked, Shape, OwnKey, Informed, FileIsTrue
  <2> QED BY <2>2, <2>3 DEF EnrollInv
<1> QED BY <1>1, <1>2, <1>3
-----------------------------------------------------------------------------
(***************************************************************************)
(* The theorems.                                                           *)
(***************************************************************************)

(* Every step of a run, of the lock or of the person keeps the invariant. *)
LEMMA NextKeeps == EnrollInv /\ [Next]_vars => EnrollInv'
<1> SUFFICES ASSUME EnrollInv, [Next]_vars PROVE EnrollInv'
  OBVIOUS
<1>1. ASSUME NEW r \in Runs, NEW k \in Keys, NEW a \in Addresses, AskEnroll(r, k, a)
      PROVE  EnrollInv'
  BY <1>1, BeginKeeps DEF AskEnroll
<1>2. ASSUME NEW r \in Runs, NEW k \in Keys, NEW a \in Addresses, AskResume(r, k, a)
      PROVE  EnrollInv'
  <2>1. file[k] \in Enrollment
    BY <1>2 DEF AskResume, EnrollInv, TypeOK
  <2> QED BY <1>2, <2>1, BeginKeeps DEF AskResume
<1>3. ASSUME NEW r \in Runs, NEW k \in Keys \cup {Factory}, NEW a \in Addresses, AskUse(r, k, a)
      PROVE  EnrollInv'
  <2>1. CASE k = Factory
    <3>1. Begin(r, "use", k, Absent, a, "opening")
      BY <1>3, <2>1 DEF AskUse
    <3> QED BY <2>1, <3>1, BeginKeeps
  <2>2. CASE k # Factory
    <3>1. k \in Keys /\ file[k] # Absent /\ Begin(r, "use", k, file[k], a, "opening")
      BY <1>3, <2>2 DEF AskUse, Resolves
    <3>2. file[k] \in Enrollment
      BY <3>1 DEF EnrollInv, TypeOK
    <3> QED BY <3>1, <3>2, BeginKeeps
  <2> QED BY <2>1, <2>2
<1>4. ASSUME NEW r \in Runs, NEW k \in Keys, AskScan(r, k)
      PROVE  EnrollInv'
  <2>1. file[k] \in Enrollment /\ at \in Addresses
    BY <1>4 DEF AskScan, EnrollInv, TypeOK
  <2> QED BY <1>4, <2>1, BeginKeeps DEF AskScan
<1>5. ASSUME NEW r \in Runs, HearFactoryState(r) PROVE EnrollInv'
  <2>1. /\ pc[r] = "listening" /\ pc' = [pc EXCEPT ![r] = "opening"]
        /\ UNCHANGED <<owner, applied, strict, at, moves, link, file, recorded,
                      cmd, key, mem, target, out, taken, lost>>
    BY <1>5 DEF HearFactoryState, lockVars, diskVars
  <2>2. TypeOK' /\ Linked' /\ Shape'
    BY <2>1 DEF EnrollInv, TypeOK, Places, Linked, OnLink, Shape
  <2>3. OwnKey' /\ Informed' /\ FileIsTrue'
    BY <2>1 DEF EnrollInv, TypeOK, OwnKey, Informed, FileIsTrue
  <2> QED BY <2>2, <2>3 DEF EnrollInv
<1>6. ASSUME NEW r \in Runs, Open(r) PROVE EnrollInv'
  <2>1. /\ pc[r] = "opening" /\ pc' = [pc EXCEPT ![r] = "login"] /\ link = NoRun /\ link' = r
        /\ UNCHANGED <<owner, applied, strict, at, moves, file, recorded,
                      cmd, key, mem, target, out, taken, lost>>
    BY <1>6 DEF Open, lockVars, diskVars
  <2>2. TypeOK' /\ Linked' /\ Shape'
    BY <2>1 DEF EnrollInv, TypeOK, Places, Linked, OnLink, Shape
  <2>3. OwnKey' /\ Informed' /\ FileIsTrue'
    BY <2>1 DEF EnrollInv, TypeOK, OwnKey, Informed, FileIsTrue
  <2> QED BY <2>2, <2>3 DEF EnrollInv
<1>7. CASE UNCHANGED vars
  BY <1>7 DEF vars, lockVars, diskVars, runVars, EnrollInv, TypeOK, Linked, Shape, OwnKey,
              Informed, FileIsTrue
<1> QED
  BY <1>1, <1>2, <1>3, <1>4, <1>5, <1>6, <1>7, LoginTakenKeeps, LoginRefusedKeeps, LoginEndsKeep,
     SecondLoginTakenKeeps, StepAnsweredKeeps, StepFailsKeeps, StopsKeeps, ScanFindsKeeps,
     LockAppliesKeeps, WorldKeeps DEF Next

(* The invariant holds in every state. *)
LEMMA EnrollInvariant == Spec => []EnrollInv
  BY InitEnrollInv, NextKeeps, PTL DEF Spec

(* The state of the tool, the disk and the lock has the declared types. *)
THEOREM TypeCorrect == Spec => []TypeOK
<1>1. EnrollInv => TypeOK
  BY DEF EnrollInv
<1> QED BY <1>1, EnrollInvariant, PTL

(* No state file claims a step the lock has not carried out. *)
THEOREM FileStaysTrue == Spec => []FileIsTrue
<1>1. EnrollInv => FileIsTrue
  BY DEF EnrollInv
<1> QED BY <1>1, EnrollInvariant, PTL

(* A lock that checks device ids is given one once per owner. *)
THEOREM IdSetAtMostOnce == Spec => IdSetOnce
<1> DEFINE Once == \A r \in Runs :
             strict /\ out[r] = "device_id" /\ ~taken[r] /\ taken'[r] => "device_id" \notin applied
<1>1. EnrollInv /\ [Next]_vars => Once
  <2> SUFFICES ASSUME EnrollInv, [Next]_vars, NEW r \in Runs,
                      strict, out[r] = "device_id", ~taken[r], taken'[r]
               PROVE  "device_id" \notin applied
    OBVIOUS
  <2>1. ASSUME NEW s \in Runs, Ended(s) \/ (\E n \in Steps : Sends(s, n)) PROVE FALSE
    BY <2>1 DEF Ended, Sends, EnrollInv, TypeOK
  <2>2. ASSUME NEW s \in Runs, NEW done, GoOn(s, done) \/ Confirmed(s, done) PROVE FALSE
    BY <2>1, <2>2 DEF GoOn, Confirmed
  <2>3. taken' # taken
    OBVIOUS
  <2>4. PICK s \in Runs : LockApplies(s)
    <3>1. ASSUME NEW s \in Runs, NEW c, NEW k, NEW e, NEW a, NEW p, Begin(s, c, k, e, a, p) PROVE FALSE
      BY <2>3, <3>1 DEF Begin
    <3>2. ASSUME NEW s \in Runs, NEW k, NEW a,
                 AskEnroll(s, k, a) \/ AskResume(s, k, a) \/ AskUse(s, k, a) \/ AskScan(s, k)
          PROVE  FALSE
      BY <3>1, <3>2 DEF AskEnroll, AskResume, AskUse, AskScan
    <3>3. ASSUME NEW s \in Runs, HearFactoryState(s) \/ Open(s) PROVE FALSE
      BY <2>3, <3>3 DEF HearFactoryState, Open
    <3>4. ASSUME NEW s \in Runs, LoginTaken(s) \/ LoginRefused(s) PROVE FALSE
      BY <2>1, <2>2, <2>3, <3>4 DEF LoginTaken, LoginRefused, Steps
    <3>5. ASSUME NEW s \in Runs, LoginFails(s) \/ LoginUnanswered(s) \/ SecondLoginRefused(s)
                                 \/ StepFails(s) \/ Stops(s) \/ ScanFinds(s)
          PROVE  FALSE
      BY <2>1, <3>5 DEF LoginFails, LoginUnanswered, SecondLoginRefused, StepFails, Stops, ScanFinds
    <3>6. ASSUME NEW s \in Runs, SecondLoginTaken(s) \/ StepAnswered(s) PROVE FALSE
      BY <2>2, <3>6 DEF SecondLoginTaken, StepAnswered
    <3>7. ASSUME ResetModule \/ AddressChanges \/ \E a \in Addresses : DayPasses(a) PROVE FALSE
      BY <2>3, <3>7 DEF ResetModule, AddressChanges, DayPasses, runVars
    <3>8. ~UNCHANGED vars
      BY <2>3 DEF vars, runVars
    <3> QED BY <3>2, <3>3, <3>4, <3>5, <3>6, <3>7, <3>8 DEF Next
  <2>5. s = r /\ pc[r] = "sending"
    BY <2>4 DEF LockApplies, EnrollInv, TypeOK
  <2> QED BY <2>5 DEF EnrollInv, Informed
<1> QED BY <1>1, EnrollInvariant, PTL DEF Spec, IdSetOnce
(* A state file, once written, stays: a run only ever writes its own enrollment. *)
LEMMA FilesStay ==
  ASSUME EnrollInv, [Next]_vars, NEW k \in Keys, file[k] # Absent
  PROVE  file'[k] # Absent
<1>1. ASSUME NEW r \in Runs, NEW done \in Progress, NEW a \in Addresses,
             key[r] \in Keys, Save(key[r], done, a)
      PROVE  file'[k] # Absent
  BY <1>1, SaveDoes
<1>2. ASSUME NEW r \in Runs, pc[r] \in {"second login", "sending"},
             NEW done \in Progress, Confirmed(r, done)
      PROVE  file'[k] # Absent
  <2>1. key[r] \in Keys /\ target[r] \in Addresses
    BY <1>2 DEF EnrollInv, Shape
  <2> QED BY <1>1, <1>2, <2>1 DEF Confirmed
<1>3. ASSUME NEW r \in Runs, mem[r] # Absent
      PROVE  key[r] \in Keys /\ mem[r].done \in Progress /\ mem[r].done \cup {"device_id"} \in Progress
  <2>1. mem[r] \in Enrollment
    BY <1>3 DEF EnrollInv, TypeOK
  <2> QED BY <1>3, <2>1 DEF EnrollInv, Shape, Enrollment, Progress, Steps
<1>4. ASSUME NEW r \in Runs, LoginTaken(r) PROVE file'[k] # Absent
  BY <1>1, <1>3, <1>4 DEF LoginTaken, EnrollInv, Shape
<1>5. ASSUME NEW r \in Runs, SecondLoginTaken(r) PROVE file'[k] # Absent
  BY <1>2, <1>3, <1>5 DEF SecondLoginTaken, EnrollInv, Shape
<1>6. ASSUME NEW r \in Runs, StepAnswered(r) PROVE file'[k] # Absent
  <2>1. pc[r] = "sending" /\ out[r] \in Steps /\ Confirmed(r, Completed(r))
    BY <1>6 DEF StepAnswered, EnrollInv, TypeOK
  <2>2. mem[r] = Absent => out[r] = "owner_key"
    BY <2>1 DEF EnrollInv, Informed
  <2>3. Completed(r) \in Progress
    BY <1>3, <2>1, <2>2 DEF Completed, Progress, Steps
  <2> QED BY <1>2, <2>1, <2>3
<1>7. ASSUME NEW r \in Runs, StepFails(r) PROVE file'[k] # Absent
  BY <1>1, <1>3, <1>7 DEF StepFails, EnrollInv, Informed, Shape
<1>8. ASSUME NEW r \in Runs, ScanFinds(r) PROVE file'[k] # Absent
  BY <1>1, <1>3, <1>8 DEF ScanFinds, EnrollInv, Shape, TypeOK
<1>9. ASSUME NEW r \in Runs, LoginRefused(r) \/ LoginFails(r) \/ LoginUnanswered(r) \/ SecondLoginRefused(r)
                             \/ Stops(r) \/ LockApplies(r) \/ HearFactoryState(r) \/ Open(r)
      PROVE  file' = file
  BY <1>9 DEF LoginRefused, LoginFails, LoginUnanswered, SecondLoginRefused, Stops, LockApplies,
              HearFactoryState, Open, diskVars
<1>10. ASSUME NEW r \in Runs, NEW j, NEW a, AskEnroll(r, j, a) \/ AskResume(r, j, a) \/ AskUse(r, j, a)
                                            \/ AskScan(r, j)
       PROVE  file' = file
  BY <1>10 DEF AskEnroll, AskResume, AskUse, AskScan, Begin, diskVars
<1>11. ASSUME UNCHANGED vars \/ ResetModule \/ AddressChanges \/ \E a \in Addresses : DayPasses(a)
       PROVE  file' = file
  BY <1>11 DEF vars, diskVars, ResetModule, AddressChanges, DayPasses
<1> QED BY <1>4, <1>5, <1>6, <1>7, <1>8, <1>9, <1>10, <1>11 DEF Next

(* A key the lock took without an answer is saved, counted as lost, or still unanswered. *)
LEMMA OrphanStays ==
  ASSUME EnrollInv, [Next]_vars, NEW k \in Keys, NEW r \in Runs, k \in Orphaned(r)
  PROVE  file'[k] # Absent \/ k \in lost' \/ k \in Orphaned(r)'
<1>1. pc[r] = "sending" /\ out[r] = "owner_key" /\ taken[r] /\ k = key[r] /\ mem[r] = Absent
  BY DEF Orphaned, EnrollInv, Informed
<1> DEFINE Same(s) == pc'[s] = pc[s] /\ out'[s] = out[s] /\ taken'[s] = taken[s] /\ key'[s] = key[s]
<1>2. Same(r) => k \in Orphaned(r)'
  BY <1>1 DEF Orphaned
<1>3. ASSUME NEW s \in Runs, s # r, Ended(s) PROVE Same(r)
  BY <1>3 DEF Ended, EnrollInv, TypeOK
<1>4. ASSUME NEW s \in Runs, s # r, NEW n, Sends(s, n) PROVE Same(r)
  BY <1>4 DEF Sends, EnrollInv, TypeOK
<1>5. ASSUME NEW s \in Runs, s # r, NEW done, GoOn(s, done) \/ Confirmed(s, done) PROVE Same(r)
  BY <1>3, <1>4, <1>5 DEF GoOn, Confirmed
<1>6. ASSUME NEW s \in Runs, NEW c, NEW j, NEW e, NEW a, NEW p, Begin(s, c, j, e, a, p) PROVE Same(r)
  BY <1>1, <1>6 DEF Begin, EnrollInv, TypeOK
<1>7. ASSUME NEW s \in Runs, NEW j, NEW a, AskEnroll(s, j, a) \/ AskResume(s, j, a) \/ AskUse(s, j, a)
                                           \/ AskScan(s, j)
      PROVE  Same(r)
  BY <1>6, <1>7 DEF AskEnroll, AskResume, AskUse, AskScan
<1>8. ASSUME NEW s \in Runs, HearFactoryState(s) \/ Open(s) PROVE Same(r)
  BY <1>1, <1>8 DEF HearFactoryState, Open, EnrollInv, TypeOK
<1>9. ASSUME NEW s \in Runs, LoginTaken(s) PROVE Same(r)
  BY <1>1, <1>4, <1>5, <1>9 DEF LoginTaken, EnrollInv, TypeOK
<1>10. ASSUME NEW s \in Runs, LoginRefused(s) PROVE Same(r)
  BY <1>1, <1>3, <1>10 DEF LoginRefused, EnrollInv, TypeOK
<1>11. ASSUME NEW s \in Runs, LoginFails(s) \/ LoginUnanswered(s) \/ SecondLoginRefused(s) \/ ScanFinds(s)
       PROVE  Same(r)
  BY <1>1, <1>3, <1>11 DEF LoginFails, LoginUnanswered, SecondLoginRefused, ScanFinds
<1>12. ASSUME NEW s \in Runs, SecondLoginTaken(s) PROVE Same(r)
  BY <1>1, <1>5, <1>12 DEF SecondLoginTaken
<1>13. ASSUME NEW s \in Runs, LockApplies(s) PROVE Same(r)
  BY <1>1, <1>13 DEF LockApplies, EnrollInv, TypeOK
<1>14. ASSUME NEW s \in Runs, StepAnswered(s) PROVE Same(r) \/ file'[k] # Absent \/ k \in lost'
  <2>1. CASE s # r
    BY <1>5, <1>14, <2>1 DEF StepAnswered
  <2>2. CASE s = r
    <3>1. Completed(r) = {"owner_key"} /\ {"owner_key"} \in Progress /\ target[r] \in Addresses
      BY <1>1 DEF Completed, Progress, Steps, EnrollInv, Shape
    <3>2. ASSUME Save(key[r], Completed(r), target[r]) PROVE file'[k] # Absent
      BY <1>1, <3>1, <3>2, SaveDoes
    <3>3. k \in lost' \/ file'[k] # Absent \/ Save(key[r], Completed(r), target[r])
      BY <1>1, <1>14, <2>2 DEF StepAnswered, Confirmed
    <3> QED BY <3>2, <3>3
  <2> QED BY <2>1, <2>2
<1>15. ASSUME NEW s \in Runs, StepFails(s) \/ Stops(s) PROVE Same(r) \/ k \in lost'
  BY <1>3, <1>15 DEF StepFails, Stops
<1>16. ASSUME UNCHANGED vars \/ ResetModule \/ AddressChanges \/ \E a \in Addresses : DayPasses(a)
       PROVE  Same(r)
  BY <1>16 DEF vars, runVars, ResetModule, AddressChanges, DayPasses
<1> HIDE DEF Same
<1> DEFINE Good == Same(r) \/ file'[k] # Absent \/ k \in lost'
<1>g. Same(r) => Good
  OBVIOUS
<1>14a. ASSUME NEW s \in Runs, StepAnswered(s) PROVE Good
  BY <1>14, <1>14a
<1>15a. ASSUME NEW s \in Runs, StepFails(s) \/ Stops(s) PROVE Good
  BY <1>15, <1>15a
<1> HIDE DEF Good
<1>17. Good
  <2>1. CASE \E s \in Runs :
               \/ \E j \in Keys, a \in Addresses : AskEnroll(s, j, a) \/ AskResume(s, j, a)
               \/ \E j \in Keys \cup {Factory}, a \in Addresses : AskUse(s, j, a)
               \/ \E j \in Keys : AskScan(s, j)
    BY <1>g, <1>7, <2>1
  <2>2. CASE \E s \in Runs :
               \/ HearFactoryState(s) \/ Open(s) \/ LoginTaken(s) \/ LoginRefused(s)
               \/ LoginFails(s) \/ LoginUnanswered(s) \/ SecondLoginTaken(s) \/ SecondLoginRefused(s)
               \/ LockApplies(s) \/ StepAnswered(s) \/ StepFails(s) \/ Stops(s) \/ ScanFinds(s)
    BY <1>g, <1>8, <1>9, <1>10, <1>11, <1>12, <1>13, <1>14a, <1>15a, <2>2
  <2>3. QED
    BY <1>g, <1>16, <2>1, <2>2 DEF Next
<1> QED BY <1>2, <1>17 DEF Good

(* A key counted as lost stays counted. *)
LEMMA LostGrows == [Next]_vars => lost \subseteq lost'
<1> SUFFICES ASSUME [Next]_vars PROVE lost \subseteq lost'
  OBVIOUS
<1>1. ASSUME NEW s \in Runs, NEW j, NEW a, AskEnroll(s, j, a) \/ AskResume(s, j, a) \/ AskUse(s, j, a)
                                           \/ AskScan(s, j)
      PROVE  lost \subseteq lost'
  BY <1>1 DEF AskEnroll, AskResume, AskUse, AskScan, Begin
<1>2. ASSUME NEW s \in Runs,
             \/ HearFactoryState(s) \/ Open(s) \/ LoginTaken(s) \/ LoginRefused(s)
             \/ LoginFails(s) \/ LoginUnanswered(s) \/ SecondLoginTaken(s) \/ SecondLoginRefused(s)
             \/ LockApplies(s) \/ ScanFinds(s)
      PROVE  lost \subseteq lost'
  <2>1. CASE HearFactoryState(s) \/ Open(s) \/ LoginTaken(s) \/ LoginRefused(s) \/ LoginFails(s)
    BY <2>1 DEF HearFactoryState, Open, LoginTaken, LoginRefused, LoginFails
  <2>2. CASE LoginUnanswered(s) \/ SecondLoginTaken(s) \/ SecondLoginRefused(s)
    BY <2>2 DEF LoginUnanswered, SecondLoginTaken, SecondLoginRefused, Confirmed
  <2>3. CASE LockApplies(s) \/ ScanFinds(s)
    BY <2>3 DEF LockApplies, ScanFinds
  <2>4. QED
    BY <1>2, <2>1, <2>2, <2>3
<1>3. ASSUME NEW s \in Runs, StepAnswered(s) \/ StepFails(s) \/ Stops(s) PROVE lost \subseteq lost'
  BY <1>3 DEF StepAnswered, StepFails, Stops, Confirmed
<1>4. CASE UNCHANGED vars \/ ResetModule \/ AddressChanges \/ \E a \in Addresses : DayPasses(a)
  BY <1>4 DEF vars, ResetModule, AddressChanges, DayPasses
<1>5. QED
  BY <1>1, <1>2, <1>3, <1>4 DEF Next

(* A lock that has a key of ours can be opened again, but for what enroll() itself excepts. *)
THEOREM KeyStaysKept == Spec => []KeyKept
<1>1. Init => KeyKept
  BY DEF Init, KeyKept
<1>2. EnrollInv /\ KeyKept /\ [Next]_vars => KeyKept'
  <2> SUFFICES ASSUME EnrollInv, KeyKept, [Next]_vars, NEW k \in Keys, owner' = k
               PROVE  file'[k] # Absent \/ k \in lost' \/ \E r \in Runs : k \in Orphaned(r)'
    BY DEF KeyKept
  <2>1. CASE owner = k
    BY <2>1, FilesStay, OrphanStays, LostGrows DEF KeyKept
  <2>2. CASE owner # k
    <3>1. ASSUME ResetModule \/ AddressChanges \/ (\E a \in Addresses : DayPasses(a)) \/ UNCHANGED vars
          PROVE  FALSE
      BY <2>2, <3>1 DEF ResetModule, AddressChanges, DayPasses, vars, lockVars
    <3>2. ASSUME NEW s \in Runs, NEW j, NEW a,
                 AskEnroll(s, j, a) \/ AskResume(s, j, a) \/ AskUse(s, j, a) \/ AskScan(s, j)
          PROVE  FALSE
      BY <2>2, <3>2 DEF AskEnroll, AskResume, AskUse, AskScan, Begin, lockVars
    <3>3. ASSUME NEW s \in Runs,
                 \/ HearFactoryState(s) \/ Open(s) \/ LoginTaken(s) \/ LoginRefused(s)
                 \/ LoginFails(s) \/ LoginUnanswered(s) \/ SecondLoginTaken(s) \/ SecondLoginRefused(s)
                 \/ StepAnswered(s) \/ StepFails(s) \/ Stops(s) \/ ScanFinds(s)
          PROVE  FALSE
      BY <2>2, <3>3 DEF HearFactoryState, Open, LoginTaken, LoginRefused, LoginFails, LoginUnanswered,
         SecondLoginTaken, SecondLoginRefused, StepAnswered, StepFails, Stops, ScanFinds, lockVars
    <3>4. PICK r \in Runs : LockApplies(r)
      BY <3>1, <3>2, <3>3 DEF Next
    <3>5. out[r] = "owner_key" /\ key[r] = k
      BY <2>2, <3>4 DEF LockApplies
    <3>6. k \in Orphaned(r)'
      BY <3>4, <3>5 DEF LockApplies, Orphaned, EnrollInv, TypeOK
    <3> QED BY <3>6
  <2> QED BY <2>1, <2>2
<1> QED BY <1>1, <1>2, EnrollInvariant, PTL DEF Spec

==============================================================================
