-------------------------- MODULE LockActivityProofs --------------------------
(***************************************************************************)
(* Proofs about LockActivity: what a report is decoded to, whose activity  *)
(* is shown, and that the echo of a wake is not shown in its window.       *)
(***************************************************************************)
EXTENDS LockActivity, SequenceTheorems, TLAPS

(* The call was made and did not fail. *)
Stamped(w)     == wake[w] \in {"calling", "settling", "done"}
Eligible(w, g) == Stamped(w) /\ on[w] = g

(* Every window of a wake of g, but for the wakes in S, ends no later than *)
(* that of v.                                                              *)
Covers(v, g, S) ==
  \A i \in 1..Len(windows) :
    Eligible(windows[i], g) /\ windows[i] \notin S => \E j \in i..Len(windows) : windows[j] = v

(* One write of a coordinator sends at a time. *)
OneWaking == \A v \in Wakes, w \in Wakes : Waking(v) /\ Waking(w) /\ on[v] = on[w] => v = w

(* The stamp of a transport is of a wake of its own, and no window of such *)
(* a wake outlasts it; so is what a call would fall back to.               *)
LastOwn == \A g \in Loads : lastWake[g] = NoWake \/ Eligible(lastWake[g], g)
PreviousOwn ==
  \A v \in Wakes : wake[v] = "calling" =>
    previous[v] = NoWake \/ (Eligible(previous[v], on[v]) /\ previous[v] # v)
LastCovers     == \A g \in Loads : Covers(lastWake[g], g, {})
PreviousCovers == \A v \in Wakes : wake[v] = "calling" => Covers(previous[v], on[v], {v})

(* A window belongs to a wake that was called, by a coordinator that was   *)
(* set up.                                                                 *)
CalledOnly ==
  \A w \in Wakes : (w \in executed \/ w \in InWindow) => wake[w] \notin {"unasked", "skipped"}
OnSetUp ==
  \A w \in Wakes : wake[w] \notin {"unasked", "skipped"} =>
    on[w] < loads \/ (on[w] = loads /\ phase # "setting_up")

WakeInv ==
  OneWaking /\ LastOwn /\ PreviousOwn /\ LastCovers /\ PreviousCovers /\ CalledOnly /\ OnSetUp

(* An unload has taken the sensor away, and is followed by a load. *)
SensorThere ==
  phase \in {"unloading", "unloaded"} => ~sensor /\ shown = Nothing /\ loads < MaxLoads

ActInv == TypeOK /\ SensorThere /\ WakeInv

LEMMA WholeQuotient ==
  ASSUME NEW r \in Int, NEW q \in Int, 0 <= r
  PROVE  /\ r < 256 => (r + 256 * q) % 256 = r
         /\ r < 65536 => (r + 65536 * q) % 65536 = r /\ (r + 65536 * q) \div 65536 = q
         /\ r < 16777216 => (r + 16777216 * q) \div 16777216 = q
<1>1. r < 256 => (r + 256 * q) % 256 = r
  OBVIOUS
<1>2. r < 65536 => (r + 65536 * q) % 65536 = r
  OBVIOUS
<1>3. r < 65536 => (r + 65536 * q) \div 65536 = q
  OBVIOUS
<1>4. r < 16777216 => (r + 16777216 * q) \div 16777216 = q
  OBVIOUS
<1>5. QED
  BY <1>1, <1>2, <1>3, <1>4

(* The three fields are cut out of the bitmap as the lock put them in. *)
LEMMA FrameFields ==
  ASSUME NEW f \in Frame
  PROVE  /\ f.slot \in Word
         /\ Slot(Bitmap(f)) = f.slot /\ Byte(Bitmap(f), 2) = f.action /\ Byte(Bitmap(f), 3) = f.source
<1> DEFINE s == f.slot
           a == f.action
           o == f.source
           val == s + 65536 * a + 16777216 * o
<1>1. f.slot \in Word /\ f.action \in Octet /\ f.source \in Octet
  BY DEF Frame
<1>2. /\ s \in Int /\ 0 <= s /\ s < 65536
      /\ a \in Int /\ 0 <= a /\ a < 256
      /\ o \in Int /\ 0 <= o /\ o < 256
  <2>1. \A n \in Word : n \in Int /\ 0 <= n /\ n < 65536
    BY DEF Word
  <2>2. \A n \in Octet : n \in Int /\ 0 <= n /\ n < 256
    BY DEF Octet
  <2>3. QED
    BY <1>1, <2>1, <2>2
<1>3. Bitmap(f) = val
  BY DEF Bitmap
<1> HIDE DEF s, a, o
<1>4. val = s + 65536 * (a + 256 * o) /\ val = (s + 65536 * a) + 16777216 * o
  BY <1>2
<1>5. a + 256 * o \in Int /\ s + 65536 * a \in Int /\ 0 <= s + 65536 * a /\ s + 65536 * a < 16777216
  BY <1>2
<1> HIDE DEF val
<1>6. val % 65536 = s /\ val \div 65536 = a + 256 * o
  BY <1>2, <1>4, <1>5, WholeQuotient
<1>7. val \div 16777216 = o
  BY <1>2, <1>4, <1>5, WholeQuotient
<1>8. (a + 256 * o) % 256 = a
  BY <1>2, WholeQuotient
<1>9. o % 256 = o
  BY <1>2
<1>10. Slot(val) = s
  BY <1>6 DEF Slot
<1>11. Byte(val, 2) = a
  BY <1>6, <1>8 DEF Byte
<1>12. Byte(val, 3) = o
  BY <1>7, <1>9 DEF Byte
<1>13. QED
  BY <1>1, <1>3, <1>10, <1>11, <1>12 DEF s, a, o

(* decode_operation_event says of a frame what the frame says. *)
LEMMA DecodeFrame ==
  ASSUME NEW f \in Frame
  PROVE  LET d == Decode(Bitmap(f)) IN
         /\ d \in Events
         /\ d.user = IF f.slot # 0 \/ f.source \in CREDENTIAL_SOURCES THEN f.slot ELSE NoUser
         /\ d.action = IF f.action \in KnownActions THEN f.action ELSE Unknown
         /\ d.source = IF f.source \in KnownSources THEN f.source ELSE Unknown
<1> DEFINE d == Decode(Bitmap(f))
<1>1. f.slot \in Word
  BY FrameFields
<1>2. d = [user   |-> IF f.slot = 0 /\ f.source \notin CREDENTIAL_SOURCES THEN NoUser ELSE f.slot,
           action |-> IF f.action \in KnownActions THEN f.action ELSE Unknown,
           source |-> IF f.source \in KnownSources THEN f.source ELSE Unknown]
  BY FrameFields DEF Decode
<1> HIDE DEF d
<1>3. d \in Events
  BY <1>1, <1>2 DEF Events
<1>4. QED
  BY <1>2, <1>3 DEF d

LEMMA EchoIsAFrame ==
  ASSUME NEW f \in EchoFrames
  PROVE  /\ f \in Frame
         /\ \A pending : pending => IsSystemLock(Decode(Bitmap(f)), pending)
<1>1. f \in Frame /\ f.slot = 0 /\ f.action = 1 /\ f.source \in {0, 5}
  <2>1. 0 \in Word /\ 0 \in Octet /\ 1 \in Octet /\ 5 \in Octet
    BY DEF Word, Octet
  <2>2. QED
    BY <2>1 DEF EchoFrames, Frame, ACTION_LOCK, SOURCE_ZIGBEE, SOURCE_UNATTRIBUTED
<1>2. LET d == Decode(Bitmap(f)) IN d.user = NoUser /\ d.action = 1 /\ d.source = f.source
  BY <1>1, DecodeFrame
     DEF CREDENTIAL_SOURCES, KnownActions, KnownSources, ACTION_LOCK, ACTION_UNLOCK,
         SOURCE_ZIGBEE, SOURCE_UNATTRIBUTED, SOURCE_AUTO
<1>3. QED
  BY <1>1, <1>2
     DEF IsSystemLock, AnonymousLock, ACTION_LOCK, SOURCE_ZIGBEE, SOURCE_UNATTRIBUTED, SOURCE_AUTO
-----------------------------------------------------------------------------
LEMMA NothingIsNoWake == NoWake \notin Wakes /\ MaxLoads \in Nat \ {0} /\ 1 \in Loads
BY NamesAssumption, LoadsAssumption DEF Loads

LEMMA InitAct == Init => ActInv
<1> SUFFICES ASSUME Init PROVE ActInv
  OBVIOUS
<1>1. windows = <<>> /\ Len(windows) = 0 /\ windows \in Seq(Wakes)
  BY EmptySeq DEF Init
<1>2. TypeOK
  BY <1>1, NothingIsNoWake DEF Init, TypeOK
<1>3. SensorThere
  BY DEF Init, SensorThere
<1>4. WakeInv
  <2>1. \A w \in Wakes : wake[w] = "unasked"
    BY DEF Init
  <2>2. \A g \in Loads : lastWake[g] = NoWake
    BY DEF Init
  <2>3. executed = {} /\ \A w : w \notin InWindow
    BY <1>1 DEF Init, InWindow
  <2>4. LastCovers /\ PreviousCovers
    BY <1>1, <2>1 DEF LastCovers, PreviousCovers, Covers
  <2>5. QED
    BY <2>1, <2>2, <2>3, <2>4
       DEF WakeInv, OneWaking, LastOwn, PreviousOwn, CalledOnly, OnSetUp, Waking
<1>5. QED
  BY <1>2, <1>3, <1>4 DEF ActInv

LEMMA WindowElements ==
  ASSUME TypeOK
  PROVE  /\ Len(windows) \in Nat
         /\ \A i \in 1..Len(windows) : windows[i] \in Wakes /\ windows[i] \in InWindow
<1>1. windows \in Seq(Wakes)
  BY DEF TypeOK
<1>2. QED
  BY <1>1, LenProperties, ElementOfSeq DEF InWindow

(* What an entry step or a report leaves alone of the wakes. *)
LEMMA WakesUntouched ==
  ASSUME ActInv, UNCHANGED <<wakeVars, executed>>,
         \A w \in Wakes : on[w] < loads \/ (on[w] = loads /\ phase # "setting_up")
                          => on[w] < loads' \/ (on[w] = loads' /\ phase' # "setting_up")
  PROVE  WakeInv'
<1> USE DEF ActInv, WakeInv, wakeVars
<1>1. OneWaking' /\ LastOwn' /\ PreviousOwn'
  BY DEF OneWaking, LastOwn, PreviousOwn, Waking, Eligible, Stamped
<1>2. LastCovers' /\ PreviousCovers'
  BY DEF LastCovers, PreviousCovers, Covers, Eligible, Stamped
<1>3. CalledOnly' /\ OnSetUp'
  BY DEF CalledOnly, OnSetUp, InWindow
<1>4. QED
  BY <1>1, <1>2, <1>3

LEMMA ReportAct ==
  ASSUME ActInv, NEW f \in Frame, NEW a \in Wakes \cup {NoWake}, HandleReport(f, a)
  PROVE  ActInv'
<1> DEFINE d == Decode(Bitmap(f))
<1>1. d \in Events
  BY DecodeFrame
<1>2. /\ shown' = shown \/ (sensor /\ shown' = [event |-> d, author |-> a])
      /\ fired' = d
      /\ UNCHANGED <<loads, phase, sensor, stored, wakeVars, executed>>
  BY DEF HandleReport, entryVars
<1> HIDE DEF d
<1>3. shown' \in Activities \cup {Nothing}
  BY <1>1, <1>2 DEF Activities, ActInv, TypeOK
<1>4. TypeOK'
  BY <1>1, <1>2, <1>3 DEF ActInv, TypeOK, wakeVars
<1>5. SensorThere'
  BY <1>2 DEF ActInv, SensorThere
<1>6. WakeInv'
  BY <1>2, WakesUntouched
<1>7. QED
  BY <1>4, <1>5, <1>6 DEF ActInv

LEMMA EntryAct ==
  ASSUME ActInv, RemoveSensor \/ StopListening \/ Load \/ AddSensor \/ StartListening
  PROVE  ActInv'
<1>1. CASE RemoveSensor
  <2>1. TypeOK' /\ SensorThere'
    BY <1>1 DEF ActInv, TypeOK, SensorThere, RemoveSensor, wakeVars
  <2>2. WakeInv'
    BY <1>1, WakesUntouched DEF RemoveSensor
  <2>3. QED
    BY <2>1, <2>2 DEF ActInv
<1>2. CASE StopListening
  <2>1. TypeOK' /\ SensorThere'
    BY <1>2 DEF ActInv, TypeOK, SensorThere, StopListening, wakeVars, eventVars
  <2>2. WakeInv'
    BY <1>2, WakesUntouched DEF StopListening
  <2>3. QED
    BY <2>1, <2>2 DEF ActInv
<1>3. CASE Load
  <2>1. TypeOK' /\ SensorThere'
    BY <1>3, LoadsAssumption DEF ActInv, TypeOK, SensorThere, Load, wakeVars, eventVars, Loads
  <2>2. WakeInv'
    BY <1>3, WakesUntouched DEF Load, ActInv, TypeOK, Loads
  <2>3. QED
    BY <2>1, <2>2 DEF ActInv
<1>4. CASE AddSensor
  <2>1. TypeOK' /\ SensorThere'
    BY <1>4 DEF ActInv, TypeOK, SensorThere, AddSensor, wakeVars
  <2>2. WakeInv'
    BY <1>4, WakesUntouched DEF AddSensor
  <2>3. QED
    BY <2>1, <2>2 DEF ActInv
<1>5. CASE StartListening
  <2>1. TypeOK' /\ SensorThere'
    BY <1>5 DEF ActInv, TypeOK, SensorThere, StartListening, wakeVars, eventVars
  <2>2. WakeInv'
    BY <1>5, WakesUntouched DEF StartListening
  <2>3. QED
    BY <2>1, <2>2 DEF ActInv
<1>6. QED
  BY <1>1, <1>2, <1>3, <1>4, <1>5
-----------------------------------------------------------------------------
(* A wake goes on, or is over without having failed. *)
LEMMA SameStamps ==
  ASSUME ActInv,
         UNCHANGED <<loads, phase, on, previous, lastWake, windows, executed>>,
         \A v \in Wakes : /\ Stamped(v)' <=> Stamped(v)
                          /\ Waking(v)' => Waking(v)
                          /\ wake'[v] = "calling" => wake[v] = "calling"
                          /\ wake'[v] \in {"unasked", "skipped"} <=> wake[v] \in {"unasked", "skipped"}
  PROVE  WakeInv'
<1>1. OneWaking'
  BY DEF ActInv, WakeInv, OneWaking
<1>2. LastOwn' /\ PreviousOwn'
  BY DEF ActInv, WakeInv, TypeOK, LastOwn, PreviousOwn, Eligible
<1>3. LastCovers' /\ PreviousCovers'
  BY WindowElements DEF ActInv, WakeInv, LastCovers, PreviousCovers, Covers, Eligible
<1>4. CalledOnly' /\ OnSetUp'
  BY DEF ActInv, WakeInv, CalledOnly, OnSetUp, InWindow
<1>5. QED
  BY <1>1, <1>2, <1>3, <1>4 DEF WakeInv

LEMMA GoesOnAct ==
  ASSUME ActInv, NEW w \in Wakes, NEW from \in {"unasked", "calling", "settling"},
         NEW to \in {"skipped", "settling", "done"}, from = "unasked" <=> to = "skipped",
         wake[w] = from, wake' = [wake EXCEPT ![w] = to],
         UNCHANGED <<entryVars, eventVars, on, previous, lastWake, windows, executed>>
  PROVE  ActInv'
<1>1. TypeOK' /\ SensorThere'
  BY DEF ActInv, TypeOK, SensorThere, entryVars, eventVars
<1>2. wake'[w] = to /\ \A v \in Wakes : v # w => wake'[v] = wake[v]
  BY DEF ActInv, TypeOK
<1>3. \A v \in Wakes : /\ Stamped(v)' <=> Stamped(v)
                       /\ Waking(v)' => Waking(v)
                       /\ wake'[v] = "calling" => wake[v] = "calling"
                       /\ wake'[v] \in {"unasked", "skipped"} <=> wake[v] \in {"unasked", "skipped"}
  BY <1>2 DEF Stamped, Waking
<1>4. WakeInv'
  BY <1>3, SameStamps DEF entryVars
<1>5. QED
  BY <1>1, <1>4 DEF ActInv

LEMMA ExecutedAct ==
  ASSUME ActInv, NEW w \in Wakes, LockLocks(w)
  PROVE  ActInv'
<1>1. /\ wake[w] \notin {"unasked", "skipped"} /\ executed' = executed \cup {w}
      /\ UNCHANGED <<entryVars, eventVars, wakeVars>>
  BY DEF LockLocks
<1>2. TypeOK' /\ SensorThere'
  BY <1>1 DEF ActInv, TypeOK, SensorThere, entryVars, eventVars, wakeVars
<1>3. OneWaking' /\ LastOwn' /\ PreviousOwn' /\ LastCovers' /\ PreviousCovers'
  <2>1. OneWaking' /\ LastOwn' /\ PreviousOwn'
    BY <1>1 DEF ActInv, WakeInv, wakeVars, OneWaking, LastOwn, PreviousOwn, Waking, Eligible, Stamped
  <2>2. LastCovers' /\ PreviousCovers'
    BY <1>1 DEF ActInv, WakeInv, wakeVars, LastCovers, PreviousCovers, Covers, Eligible, Stamped
  <2>3. QED
    BY <2>1, <2>2
<1>4. CalledOnly' /\ OnSetUp'
  BY <1>1 DEF ActInv, WakeInv, CalledOnly, OnSetUp, InWindow, wakeVars, entryVars
<1>5. QED
  BY <1>2, <1>3, <1>4 DEF ActInv, WakeInv

LEMMA BeginWakeAct ==
  ASSUME ActInv, NEW w \in Wakes, Wake(w)
  PROVE  ActInv'
<1> PICK g \in 1..loads : (g = loads => phase # "setting_up") /\ BeginWake(w, g)
  BY DEF Wake
<1>1. /\ wake[w] = "unasked" /\ \A v \in Wakes : Waking(v) => on[v] # g
      /\ wake' = [wake EXCEPT ![w] = "calling"]
      /\ on' = [on EXCEPT ![w] = g]
      /\ previous' = [previous EXCEPT ![w] = lastWake[g]]
      /\ lastWake' = [lastWake EXCEPT ![g] = w]
      /\ windows' = Append(windows, w)
      /\ UNCHANGED <<loads, phase, sensor, shown, stored, fired, executed>>
  BY DEF BeginWake, MayWake, entryVars, eventVars
<1>2. g \in Loads
  BY LoadsAssumption DEF ActInv, TypeOK, Loads
<1>3. windows' \in Seq(Wakes) /\ Len(windows') = Len(windows) + 1 /\ Len(windows) \in Nat
      /\ windows'[Len(windows) + 1] = w
      /\ \A i \in 1..Len(windows) : windows'[i] = windows[i]
  BY <1>1, AppendProperties, LenProperties DEF ActInv, TypeOK
<1>4. TypeOK' /\ SensorThere'
  BY <1>1, <1>2, <1>3 DEF ActInv, TypeOK, SensorThere
<1>5. /\ wake'[w] = "calling" /\ on'[w] = g /\ previous'[w] = lastWake[g] /\ lastWake'[g] = w
      /\ \A v \in Wakes : v # w => wake'[v] = wake[v] /\ on'[v] = on[v] /\ previous'[v] = previous[v]
      /\ \A h \in Loads : h # g => lastWake'[h] = lastWake[h]
  BY <1>1, <1>2 DEF ActInv, TypeOK
<1>6. w \notin executed /\ \A i \in 1..Len(windows) : windows[i] \in Wakes /\ windows[i] # w
  BY <1>1, WindowElements DEF ActInv, WakeInv, CalledOnly
<1>7. ~Stamped(w) /\ \A v \in Wakes, h \in Loads : v # w => (Eligible(v, h)' <=> Eligible(v, h))
  BY <1>1, <1>5 DEF Eligible, Stamped
<1>8. OneWaking'
  BY <1>1, <1>5 DEF ActInv, WakeInv, OneWaking, Waking
<1>9. LastOwn'
  BY <1>5, <1>7 DEF ActInv, WakeInv, TypeOK, LastOwn, Eligible, Stamped
<1>10. PreviousOwn'
  <2>1. CASE lastWake[g] = NoWake
    BY <2>1, <1>5, <1>7, <1>2 DEF ActInv, WakeInv, TypeOK, PreviousOwn, Eligible, Stamped
  <2>2. CASE lastWake[g] # NoWake
    <3>1. lastWake[g] \in Wakes /\ Eligible(lastWake[g], g) /\ lastWake[g] # w
      BY <2>2, <1>2, <1>7 DEF ActInv, WakeInv, TypeOK, LastOwn, Eligible
    <3>2. QED
      BY <3>1, <1>5, <1>7, <1>2 DEF ActInv, WakeInv, TypeOK, PreviousOwn, Eligible, Stamped
  <2>3. QED
    BY <2>1, <2>2
<1>11. LastCovers'
  <2> SUFFICES ASSUME NEW h \in Loads, NEW i \in 1..Len(windows'), Eligible(windows[i], h)'
               PROVE  \E j \in i..Len(windows') : windows'[j] = lastWake'[h]
    BY DEF LastCovers, Covers
  <2>1. CASE h = g
    BY <2>1, <1>3, <1>5
  <2>2. CASE h # g
    <3>1. i \in 1..Len(windows) /\ Eligible(windows[i], h)
      BY <2>2, <1>3, <1>5, <1>6, <1>7 DEF Eligible
    <3>2. \E j \in i..Len(windows) : windows[j] = lastWake[h]
      BY <3>1 DEF ActInv, WakeInv, LastCovers, Covers
    <3>3. QED
      BY <3>1, <3>2, <2>2, <1>3, <1>5
  <2>3. QED
    BY <2>1, <2>2
<1>12. PreviousCovers'
  <2> SUFFICES ASSUME NEW v \in Wakes, wake'[v] = "calling", NEW i \in 1..Len(windows'),
                      Eligible(windows[i], on[v])', windows'[i] # v
               PROVE  \E j \in i..Len(windows') : windows'[j] = previous'[v]
    BY DEF PreviousCovers, Covers
  <2>1. CASE v = w
    <3>1. i \in 1..Len(windows) /\ Eligible(windows[i], g)
      BY <2>1, <1>2, <1>3, <1>5, <1>6, <1>7
    <3>2. \E j \in i..Len(windows) : windows[j] = lastWake[g]
      BY <3>1, <1>2 DEF ActInv, WakeInv, LastCovers, Covers
    <3>3. QED
      BY <3>1, <3>2, <2>1, <1>3, <1>5
  <2>2. CASE v # w
    <3>1. wake[v] = "calling" /\ on'[v] = on[v] /\ on[v] # g /\ on[v] \in Loads
      BY <2>2, <1>1, <1>5 DEF Waking, ActInv, TypeOK
    <3>2. i \in 1..Len(windows) /\ Eligible(windows[i], on[v])
      BY <2>2, <3>1, <1>3, <1>5, <1>6, <1>7 DEF Eligible
    <3>3. \E j \in i..Len(windows) : windows[j] = previous[v]
      BY <3>1, <3>2, <2>2, <1>3 DEF ActInv, WakeInv, PreviousCovers, Covers
    <3>4. QED
      BY <3>2, <3>3, <2>2, <1>3, <1>5
  <2>3. QED
    BY <2>1, <2>2
<1>13. CalledOnly'
  <2>1. \A v \in Wakes : v # w /\ v \in InWindow' => v \in InWindow
    BY <1>3 DEF InWindow
  <2>2. QED
    BY <2>1, <1>1, <1>5 DEF ActInv, WakeInv, CalledOnly
<1>14. OnSetUp'
  BY <1>1, <1>5 DEF ActInv, WakeInv, TypeOK, OnSetUp, Loads
<1>15. QED
  BY <1>4, <1>8, <1>9, <1>10, <1>11, <1>12, <1>13, <1>14 DEF ActInv, WakeInv

LEMMA WakeFailsAct ==
  ASSUME ActInv, NEW w \in Wakes, WakeFails(w)
  PROVE  ActInv'
<1> DEFINE g == on[w]
<1>1. /\ wake[w] = "calling" /\ wake' = [wake EXCEPT ![w] = "failed"]
      /\ lastWake' = [lastWake EXCEPT ![g] = previous[w]]
      /\ UNCHANGED <<loads, phase, sensor, shown, stored, fired, on, previous, windows, executed>>
  BY DEF WakeFails, entryVars, eventVars
<1>2. g \in Loads
  BY DEF ActInv, TypeOK
<1> HIDE DEF g
<1>3. TypeOK' /\ SensorThere'
  BY <1>1, <1>2 DEF ActInv, TypeOK, SensorThere
<1>4. /\ wake'[w] = "failed" /\ lastWake'[g] = previous[w]
      /\ \A v \in Wakes : v # w => wake'[v] = wake[v]
      /\ \A h \in Loads : h # g => lastWake'[h] = lastWake[h]
  BY <1>1, <1>2 DEF ActInv, TypeOK
<1>5. \A v \in Wakes, h \in Loads : Eligible(v, h)' <=> (v # w /\ Eligible(v, h))
  BY <1>1, <1>4 DEF Eligible, Stamped
<1>6. OneWaking'
  BY <1>1, <1>4 DEF ActInv, WakeInv, OneWaking, Waking
<1>7. previous[w] = NoWake
      \/ (previous[w] \in Wakes /\ previous[w] # w /\ Eligible(previous[w], g))
  BY <1>1, NothingIsNoWake DEF ActInv, WakeInv, TypeOK, PreviousOwn, Eligible, Stamped, g
<1>8. \A h \in Loads : h # g =>
        lastWake[h] = NoWake \/ (lastWake[h] \in Wakes /\ lastWake[h] # w /\ Eligible(lastWake[h], h))
  BY DEF ActInv, WakeInv, TypeOK, LastOwn, Eligible, g
<1>9. LastOwn'
  <2> SUFFICES ASSUME NEW h \in Loads
               PROVE  lastWake'[h] = NoWake \/ Eligible(lastWake[h], h)'
    BY DEF LastOwn
  <2>1. CASE h = g
    BY <2>1, <1>2, <1>4, <1>5, <1>7 DEF Eligible, Stamped
  <2>2. CASE h # g
    BY <2>2, <1>4, <1>5, <1>8 DEF Eligible, Stamped
  <2>3. QED
    BY <2>1, <2>2
<1>10. \A v \in Wakes : wake'[v] = "calling" => v # w /\ wake[v] = "calling" /\ on[v] # g
  BY <1>1, <1>4 DEF ActInv, WakeInv, OneWaking, Waking, g
<1>11. PreviousOwn'
  <2> SUFFICES ASSUME NEW v \in Wakes, wake'[v] = "calling", previous[v] # NoWake
               PROVE  Eligible(previous[v], on[v])' /\ previous[v] # v
    BY <1>1 DEF PreviousOwn
  <2>1. /\ wake[v] = "calling" /\ on[v] # g /\ on[v] \in Loads /\ previous[v] \in Wakes
        /\ Eligible(previous[v], on[v]) /\ previous[v] # v
    BY <1>10 DEF ActInv, WakeInv, TypeOK, PreviousOwn
  <2>2. previous[v] # w
    BY <2>1 DEF Eligible, g
  <2>3. QED
    BY <2>1, <2>2, <1>1, <1>4 DEF Eligible, Stamped
<1>12. LastCovers'
  <2> SUFFICES ASSUME NEW h \in Loads, NEW i \in 1..Len(windows), Eligible(windows[i], h)'
               PROVE  \E j \in i..Len(windows) : windows[j] = lastWake'[h]
    BY <1>1 DEF LastCovers, Covers
  <2>1. windows[i] \in Wakes /\ windows[i] # w /\ Eligible(windows[i], h)
    BY <1>1, <1>4, WindowElements DEF Eligible, Stamped, ActInv
  <2>2. CASE h = g
    BY <2>1, <2>2, <1>1, <1>4 DEF ActInv, WakeInv, PreviousCovers, Covers, g
  <2>3. CASE h # g
    BY <2>1, <2>3, <1>4 DEF ActInv, WakeInv, LastCovers, Covers
  <2>4. QED
    BY <2>2, <2>3
<1>13. PreviousCovers'
  <2> SUFFICES ASSUME NEW v \in Wakes, wake'[v] = "calling", NEW i \in 1..Len(windows),
                      Eligible(windows[i], on[v])', windows[i] # v
               PROVE  \E j \in i..Len(windows) : windows[j] = previous[v]
    BY <1>1 DEF PreviousCovers, Covers
  <2>1. windows[i] \in Wakes /\ windows[i] # w /\ Eligible(windows[i], on[v])
    BY <1>1, <1>4, WindowElements DEF Eligible, Stamped, ActInv
  <2>2. QED
    BY <2>1, <1>10 DEF ActInv, WakeInv, PreviousCovers, Covers
<1>14. CalledOnly' /\ OnSetUp'
  BY <1>1, <1>4 DEF ActInv, WakeInv, CalledOnly, OnSetUp, InWindow
<1>15. QED
  BY <1>3, <1>6, <1>9, <1>11, <1>12, <1>13, <1>14 DEF ActInv, WakeInv

LEMMA WindowOverAct ==
  ASSUME ActInv, WindowOver
  PROVE  ActInv'
<1>1. /\ windows # <<>> /\ windows' = Tail(windows)
      /\ UNCHANGED <<loads, phase, sensor, shown, stored, fired, wake, on, previous, lastWake, executed>>
  BY DEF WindowOver, entryVars, eventVars
<1>2. /\ windows' \in Seq(Wakes) /\ Len(windows) \in Nat /\ Len(windows') = Len(windows) - 1
      /\ \A i \in 1..Len(windows') : windows'[i] = windows[i + 1] /\ i + 1 \in 1..Len(windows)
  <2>1. windows \in Seq(Wakes) /\ windows # <<>>
    BY <1>1 DEF ActInv, TypeOK
  <2>2. Tail(windows) \in Seq(Wakes) /\ Len(Tail(windows)) = Len(windows) - 1
    BY <2>1, HeadTailProperties
  <2>3. \A i \in 1..Len(Tail(windows)) : Tail(windows)[i] = windows[i + 1]
    BY <2>1, HeadTailProperties
  <2>4. Len(windows) \in Nat
    BY <2>1, LenProperties
  <2>5. QED
    BY <2>2, <2>3, <2>4, <1>1
<1>3. TypeOK' /\ SensorThere'
  BY <1>1, <1>2 DEF ActInv, TypeOK, SensorThere
<1>4. OneWaking' /\ LastOwn' /\ PreviousOwn' /\ OnSetUp'
  BY <1>1 DEF ActInv, WakeInv, OneWaking, LastOwn, PreviousOwn, OnSetUp, Waking, Eligible, Stamped
<1>5. LastCovers'
  <2> SUFFICES ASSUME NEW h \in Loads, NEW i \in 1..Len(windows'), Eligible(windows[i], h)'
               PROVE  \E j \in i..Len(windows') : windows'[j] = lastWake[h]
    BY <1>1 DEF LastCovers, Covers
  <2>1. i + 1 \in 1..Len(windows) /\ Eligible(windows[i + 1], h)
    BY <1>1, <1>2 DEF Eligible, Stamped
  <2>2. PICK j \in (i + 1)..Len(windows) : windows[j] = lastWake[h]
    BY <2>1 DEF ActInv, WakeInv, LastCovers, Covers
  <2>3. j - 1 \in i..Len(windows') /\ j - 1 \in 1..Len(windows') /\ (j - 1) + 1 = j
    BY <1>2
  <2>4. QED
    BY <2>2, <2>3, <1>2
<1>6. PreviousCovers'
  <2> SUFFICES ASSUME NEW v \in Wakes, wake[v] = "calling", NEW i \in 1..Len(windows'),
                      Eligible(windows[i], on[v])', windows'[i] # v
               PROVE  \E j \in i..Len(windows') : windows'[j] = previous[v]
    BY <1>1 DEF PreviousCovers, Covers
  <2>1. i + 1 \in 1..Len(windows) /\ Eligible(windows[i + 1], on[v]) /\ windows[i + 1] # v
    BY <1>1, <1>2 DEF Eligible, Stamped
  <2>2. PICK j \in (i + 1)..Len(windows) : windows[j] = previous[v]
    BY <2>1 DEF ActInv, WakeInv, PreviousCovers, Covers
  <2>3. j - 1 \in i..Len(windows') /\ j - 1 \in 1..Len(windows') /\ (j - 1) + 1 = j
    BY <1>2
  <2>4. QED
    BY <2>2, <2>3, <1>2
<1>7. CalledOnly'
  <2>1. \A v \in Wakes : v \in InWindow' => v \in InWindow
    BY <1>2 DEF InWindow
  <2>2. QED
    BY <2>1, <1>1 DEF ActInv, WakeInv, CalledOnly
<1>8. QED
  BY <1>3, <1>4, <1>5, <1>6, <1>7 DEF ActInv, WakeInv

LEMMA StutterAct == ActInv /\ UNCHANGED vars => ActInv'
<1> SUFFICES ASSUME ActInv, UNCHANGED vars PROVE ActInv'
  OBVIOUS
<1>1. UNCHANGED <<loads, phase, sensor, shown, stored, fired, wake, on, previous, lastWake, windows, executed>>
  BY DEF vars, entryVars, eventVars, wakeVars
<1>2. TypeOK' /\ SensorThere'
  BY <1>1 DEF ActInv, TypeOK, SensorThere
<1>3. WakeInv'
  BY <1>1, WakesUntouched DEF wakeVars
<1>4. QED
  BY <1>2, <1>3 DEF ActInv

LEMMA NextAct == ActInv /\ [Next]_vars => ActInv'
<1> SUFFICES ASSUME ActInv, [Next]_vars PROVE ActInv'
  OBVIOUS
<1>1. CASE UNCHANGED vars
  BY <1>1, StutterAct
<1>2. ASSUME NEW f \in Frames, Report(f) PROVE ActInv'
  BY <1>2, ReportAct, FramesAssumption DEF Report
<1>3. ASSUME NEW w \in Wakes, NEW f \in EchoFrames, Echo(w, f) PROVE ActInv'
  BY <1>3, ReportAct, EchoIsAFrame DEF Echo
<1>4. ASSUME NEW w \in Wakes, NoLockEntity(w) PROVE ActInv'
  BY <1>4, GoesOnAct DEF NoLockEntity
<1>5. ASSUME NEW w \in Wakes, Wake(w) PROVE ActInv'
  BY <1>5, BeginWakeAct
<1>6. ASSUME NEW w \in Wakes, CallReturns(w) \/ Settled(w) \/ CancelWake(w) PROVE ActInv'
  <2>1. PICK from \in {"calling", "settling"}, to \in {"settling", "done"} : WakeGoesOn(w, from, to)
    BY <1>6 DEF CallReturns, Settled, CancelWake
  <2>2. QED
    BY <2>1, GoesOnAct DEF WakeGoesOn
<1>7. ASSUME NEW w \in Wakes, WakeFails(w) PROVE ActInv'
  BY <1>7, WakeFailsAct
<1>8. ASSUME NEW w \in Wakes, LockLocks(w) PROVE ActInv'
  BY <1>8, ExecutedAct
<1>9. CASE WindowOver
  BY <1>9, WindowOverAct
<1>10. CASE RemoveSensor \/ StopListening \/ Load \/ AddSensor \/ StartListening
  BY <1>10, EntryAct
<1>11. QED
  BY <1>1, <1>2, <1>3, <1>4, <1>5, <1>6, <1>7, <1>8, <1>9, <1>10 DEF Next

LEMMA ActInvHolds == Spec => []ActInv
<1>1. QED
  BY InitAct, NextAct, PTL DEF Spec
-----------------------------------------------------------------------------
(***************************************************************************)
(* What a step of an action says of the echoes: only a report shows one,   *)
(* and only a report by its own wake.                                      *)
(***************************************************************************)
LEMMA StepEcho ==
  ASSUME ActInv, [Next]_vars, NEW w \in Wakes, w \in InWindow,
         wake[w] # "failed", on[w] = loads, ShowsEchoOf(w)'
  PROVE  ShowsEchoOf(w)
<1>1. Eligible(w, loads) /\ loads \in Loads /\ phase # "setting_up"
  <2>1. wake[w] \notin {"unasked", "skipped"} /\ on[w] \in Loads /\ loads \in Nat
    BY DEF ActInv, WakeInv, CalledOnly, TypeOK, Loads
  <2>2. wake[w] \in {"calling", "settling", "done"}
    BY <2>1 DEF ActInv, TypeOK
  <2>3. QED
    BY <2>1, <2>2 DEF ActInv, WakeInv, OnSetUp, Eligible, Stamped
<1>2. WakeEchoPending
  <2>1. PICK i \in 1..Len(windows) : windows[i] = w
    BY DEF InWindow
  <2>2. PICK j \in i..Len(windows) : windows[j] = lastWake[loads]
    BY <1>1, <2>1 DEF ActInv, WakeInv, LastCovers, Covers
  <2>3. j \in 1..Len(windows)
    BY <2>2, WindowElements DEF ActInv
  <2>4. QED
    BY <2>2, <2>3 DEF WakeEchoPending, InWindow
<1>3. ASSUME shown' = shown PROVE ShowsEchoOf(w)
  BY <1>3 DEF ShowsEchoOf
<1>4. ASSUME NEW f \in Frame, NEW a \in Wakes \cup {NoWake}, HandleReport(f, a),
             a = w => f \in EchoFrames
      PROVE  ShowsEchoOf(w)
  <2>1. CASE a = w
    <3>1. IsSystemLock(Decode(Bitmap(f)), WakeEchoPending)
      BY <1>2, <1>4, <2>1, EchoIsAFrame
    <3>2. shown' = shown
      BY <1>4, <3>1 DEF HandleReport
    <3>3. QED
      BY <3>2, <1>3
  <2>2. CASE a # w
    <3>1. shown' = shown \/ shown' = [event |-> Decode(Bitmap(f)), author |-> a]
      BY <1>4 DEF HandleReport
    <3>2. shown' = shown
      BY <3>1, <2>2 DEF ShowsEchoOf
    <3>3. QED
      BY <3>2, <1>3
  <2>3. QED
    BY <2>1, <2>2
<1>5. ASSUME NEW f \in Frames, Report(f) PROVE ShowsEchoOf(w)
  BY <1>4, <1>5, FramesAssumption, NamesAssumption DEF Report
<1>6. ASSUME NEW v \in Wakes, NEW f \in EchoFrames, Echo(v, f) PROVE ShowsEchoOf(w)
  BY <1>4, <1>6, EchoIsAFrame DEF Echo
<1>7. ASSUME NEW v \in Wakes,
             NoLockEntity(v) \/ Wake(v) \/ CallReturns(v) \/ Settled(v)
             \/ CancelWake(v) \/ WakeFails(v) \/ LockLocks(v)
      PROVE  ShowsEchoOf(w)
  BY <1>3, <1>7
     DEF NoLockEntity, Wake, BeginWake, CallReturns, Settled, CancelWake, WakeGoesOn, WakeFails,
         LockLocks, eventVars
<1>8. CASE WindowOver \/ StopListening \/ Load \/ StartListening \/ UNCHANGED vars
  BY <1>3, <1>8 DEF WindowOver, StopListening, Load, StartListening, eventVars, vars
<1>9. CASE RemoveSensor
  BY <1>9 DEF RemoveSensor, ShowsEchoOf
<1>10. CASE AddSensor
  BY <1>1, <1>10 DEF AddSensor
<1>11. QED
  BY <1>5, <1>6, <1>7, <1>8, <1>9, <1>10 DEF Next
-----------------------------------------------------------------------------
(* Every variable keeps its type (LockActivity). *)
THEOREM TypeCorrect == Spec => []TypeOK
<1>1. ActInv => TypeOK
  BY DEF ActInv
<1>2. QED
  BY <1>1, ActInvHolds, PTL

(* A sensor that is removed shows nothing (RemoveSensor).                  *)
THEOREM RemovedShowsNothing == Spec => []NothingOnceRemoved
<1>1. ActInv => NothingOnceRemoved
  BY DEF ActInv, SensorThere, NothingOnceRemoved
<1>2. QED
  BY <1>1, ActInvHolds, PTL

(* The echo of a wake is never shown as somebody's activity within the     *)
(* wake's window, for any number of wakes that overlap, fail, end or are   *)
(* cancelled in any order (ZhaLockTransport.wake and wake_echo_pending).   *)
THEOREM EchoStaysHidden == Spec => EchoHidden
<1>1. ActInv /\ [Next]_vars =>
        [\A w \in Wakes :
           w \in InWindow /\ wake[w] # "failed" /\ on[w] = loads /\ ShowsEchoOf(w)' => ShowsEchoOf(w)]_vars
  BY StepEcho
<1>2. QED
  BY <1>1, ActInvHolds, PTL DEF Spec, EchoHidden

(* A lock from a dashboard is shown when no window of a wake that did not  *)
(* fail is open: a failed wake hides nothing (wake's except Exception).    *)
THEOREM RealLocksAreShown == Spec => RealLockShown
<1> DEFINE Shows == /\ Report(DashboardLock)
                    /\ sensor
                    /\ \A w \in InWindow : on[w] = loads => wake[w] = "failed"
                    => shown' = [event |-> fired', author |-> NoWake]
<1>1. ActInv => Shows
  <2> SUFFICES ASSUME ActInv, Report(DashboardLock), sensor,
                      \A w \in InWindow : on[w] = loads => wake[w] = "failed"
               PROVE  shown' = [event |-> fired', author |-> NoWake]
    OBVIOUS
  <2>1. ~WakeEchoPending
    <3>1. SUFFICES ASSUME WakeEchoPending PROVE FALSE
      OBVIOUS
    <3>2. loads \in Loads
      BY DEF ActInv, TypeOK
    <3>3. lastWake[loads] \in InWindow /\ lastWake[loads] # NoWake
      BY <3>1, WindowElements, NamesAssumption DEF WakeEchoPending, InWindow, ActInv
    <3>4. Eligible(lastWake[loads], loads)
      BY <3>2, <3>3 DEF ActInv, WakeInv, LastOwn
    <3>5. QED
      BY <3>3, <3>4 DEF Eligible, Stamped
  <2>2. DashboardLock \in Frame
    <3>1. 0 \in Word /\ 0 \in Octet /\ 1 \in Octet
      BY DEF Word, Octet
    <3>2. QED
      BY <3>1 DEF DashboardLock, Frame, ACTION_LOCK, SOURCE_ZIGBEE
  <2>3. Decode(Bitmap(DashboardLock)).source = 0
    BY <2>2, DecodeFrame DEF DashboardLock, SOURCE_ZIGBEE, KnownSources
  <2>4. ~IsSystemLock(Decode(Bitmap(DashboardLock)), WakeEchoPending)
    BY <2>1, <2>3 DEF IsSystemLock, SOURCE_ZIGBEE, SOURCE_AUTO, SOURCE_UNATTRIBUTED
  <2>5. QED
    BY <2>4 DEF Report, HandleReport
<1>2. ActInv /\ [Next]_vars => [Shows]_vars
  BY <1>1
<1>3. QED
  BY <1>2, ActInvHolds, PTL DEF Spec, RealLockShown

(* Whoever presents a credential, has a slot or unlocks is shown, whatever *)
(* wakes are under way (is_system_lock).                                   *)
THEOREM PeopleAreShown == Spec => PeopleShown
<1> DEFINE Person(f) == /\ Report(f)
                        /\ sensor
                        /\ f.source # SOURCE_AUTO
                        /\ f.source \in CREDENTIAL_SOURCES \/ f.slot # 0 \/ f.action # ACTION_LOCK
           Shows == \A f \in Frames : Person(f) => shown' = [event |-> fired', author |-> NoWake]
<1>1. Shows
  <2> SUFFICES ASSUME NEW f \in Frames, Person(f)
               PROVE  shown' = [event |-> fired', author |-> NoWake]
    OBVIOUS
  <2> DEFINE d == Decode(Bitmap(f))
  <2>1. f \in Frame
    BY FramesAssumption
  <2>2. /\ d.user = IF f.slot # 0 \/ f.source \in CREDENTIAL_SOURCES THEN f.slot ELSE NoUser
        /\ d.action = IF f.action \in KnownActions THEN f.action ELSE Unknown
        /\ d.source = IF f.source \in KnownSources THEN f.source ELSE Unknown
    BY <2>1, DecodeFrame
  <2>3. f.slot # NoUser
    <3>1. f.slot \in Word
      BY <2>1, FrameFields
    <3>2. \A n \in Word : n \in Int
      BY DEF Word
    <3>3. QED
      BY <3>1, <3>2, NamesAssumption
  <2>4. ~IsSystemLock(d, WakeEchoPending) => shown' = [event |-> fired', author |-> NoWake]
    BY DEF Report, HandleReport
  <2> HIDE DEF d
  <2>5. d.source # SOURCE_AUTO
    BY <2>2 DEF SOURCE_AUTO, Unknown
  <2>6. CASE f.source \in CREDENTIAL_SOURCES
    <3>1. d.source \in CREDENTIAL_SOURCES
      BY <2>2, <2>6 DEF KnownSources
    <3>2. ~IsSystemLock(d, WakeEchoPending)
      BY <3>1
         DEF IsSystemLock, CREDENTIAL_SOURCES, SOURCE_AUTO, SOURCE_UNATTRIBUTED, SOURCE_ZIGBEE
    <3>3. QED
      BY <3>2, <2>4
  <2>7. CASE f.source \notin CREDENTIAL_SOURCES
    <3>1. ~AnonymousLock(d)
      BY <2>2, <2>3, <2>7 DEF AnonymousLock, ACTION_LOCK, ACTION_UNLOCK, KnownActions, Unknown
    <3>2. ~IsSystemLock(d, WakeEchoPending)
      BY <3>1, <2>5 DEF IsSystemLock
    <3>3. QED
      BY <3>2, <2>4
  <2>8. QED
    BY <2>6, <2>7
<1>2. [Next]_vars => [Shows]_vars
  BY <1>1
<1>3. QED
  BY <1>2, PTL DEF Spec, PeopleShown

(* The event on the bus says who, what and how the frame says it, for      *)
(* every value of the bitmap (decode_operation_event).                     *)
THEOREM FiredStaysTrue == Spec => FiredIsTrue
<1> DEFINE True == \A f \in Frames : Report(f) =>
        /\ fired'.user = IF f.slot # 0 \/ f.source \in CREDENTIAL_SOURCES THEN f.slot ELSE NoUser
        /\ fired'.action = IF f.action \in KnownActions THEN f.action ELSE Unknown
        /\ fired'.source = IF f.source \in KnownSources THEN f.source ELSE Unknown
<1>1. True
  <2> SUFFICES ASSUME NEW f \in Frames, Report(f)
               PROVE  /\ fired'.user = IF f.slot # 0 \/ f.source \in CREDENTIAL_SOURCES THEN f.slot ELSE NoUser
                      /\ fired'.action = IF f.action \in KnownActions THEN f.action ELSE Unknown
                      /\ fired'.source = IF f.source \in KnownSources THEN f.source ELSE Unknown
    OBVIOUS
  <2>1. fired' = Decode(Bitmap(f))
    BY DEF Report, HandleReport
  <2>2. QED
    BY <2>1, DecodeFrame, FramesAssumption
<1>2. [Next]_vars => [True]_vars
  BY <1>1
<1>3. QED
  BY <1>2, PTL DEF Spec, FiredIsTrue

(* The last activity outlives every reload (sensor.py: the restore cache   *)
(* takes it at the removal, and the new entity takes it back).             *)
THEOREM ActivityKept == Spec => ActivitySurvives
<1> DEFINE Kept == UNCHANGED entryVars \/ Activity' = Activity
<1>1. ActInv /\ Next => Kept
  <2> SUFFICES ASSUME ActInv, Next, ~UNCHANGED entryVars PROVE Activity' = Activity
    OBVIOUS
  <2>1. CASE RemoveSensor
    BY <2>1 DEF RemoveSensor, Activity
  <2>2. CASE StopListening
    BY <2>2 DEF StopListening, Activity, eventVars
  <2>3. CASE Load
    BY <2>3 DEF Load, Activity, eventVars, ActInv, SensorThere
  <2>4. CASE AddSensor
    BY <2>4 DEF AddSensor, Activity
  <2>5. CASE StartListening
    BY <2>5 DEF StartListening, Activity, eventVars
  <2>6. QED
    BY <2>1, <2>2, <2>3, <2>4, <2>5
       DEF Next, Report, Echo, HandleReport, NoLockEntity, Wake, BeginWake, CallReturns, Settled,
           CancelWake, WakeGoesOn, WakeFails, LockLocks, WindowOver
<1>2. ActInv /\ [Next]_vars => [Kept]_vars
  BY <1>1
<1>3. QED
  BY <1>2, ActInvHolds, PTL DEF Spec, ActivitySurvives
=============================================================================
