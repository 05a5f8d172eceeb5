----------------------------- MODULE BleSession -----------------------------
(***************************************************************************)
(* One Bluetooth connection to a lock: Session (ble/client/session.py)     *)
(* over a Transport (ble/client/bleak_transport.py).  connect() reads the  *)
(* firmware, exchanges keys and asks for the model; then callers send      *)
(* commands, one at a time behind _command_lock, and match each answer to  *)
(* the command that waits by its CommandRef.                               *)
(*                                                                         *)
(* A step is what the event loop runs between two suspensions: of connect, *)
(* of _exchange (for the lock, the pause, the writes and the answer), or   *)
(* a callback of the transport.  Unsolicited events are left out: they     *)
(* carry a ref of their own and touch nothing here.                        *)
(***************************************************************************)
EXTENDS Integers, Sequences

CONSTANTS
  Connector,    \* the task that calls connect()
  Senders,      \* the tasks that call send(), once each
  NoTask,       \* no task
  KeyExchange, DeviceModel,  \* the two commands connect() sends
  Kinds,        \* the command ids the senders use
  RefLimit      \* the refs the counter hands out before it wraps, 127

ASSUME TasksAssumption ==
  Connector \notin Senders /\ NoTask \notin Senders \cup {Connector}
ASSUME KindsAssumption ==
  KeyExchange # DeviceModel /\ KeyExchange \notin Kinds /\ DeviceModel \notin Kinds
ASSUME RefAssumption   == RefLimit \in Nat \ {0}

VARIABLES
  state,     \* the session's _state
  firmware,  \* what connect() read: below 4.6.0, below 4.7.90, or newer
  cipher,    \* whether the link cipher is set
  link,      \* "up", "lost" or "closed", as the transport knows it
  holder,    \* the task that has _command_lock
  hold,      \* why the next command has to wait: _ready_at is ahead of now
  overran,   \* whether some answer was later than late_answer_grace after a timeout
  nextRef,   \* CommandRefCounter._next
  sent,      \* the commands that got a ref, in order
  pending,   \* the task whose command is _pending
  pc,        \* where each task is
  asked,     \* the kind of command each task is exchanging
  current,   \* the position in sent of each task's last command
  future,    \* what its future holds: 0, the position in sent of the
             \* command whose answer it got, or Lost
  outcome,   \* how its call ended
  toLock,    \* commands on their way to the lock
  answers    \* answers on their way back, by the command they answer

sessionVars  == <<state, firmware, cipher, overran, holder, hold, nextRef, sent, pending>>
taskVars     == <<pc, asked, current, future, outcome>>
linkVars     == <<link, toLock, answers>>
vars         == <<sessionVars, taskVars, linkVars>>

Tasks     == Senders \cup {Connector}
AllKinds  == Kinds \cup {KeyExchange, DeviceModel}
StaticRef == 0
Lost      == -1
Positions == 1..Len(sent)

InExchange == {"queued", "pausing", "writing", "waiting"}
Open       == state \in {"connecting", "connected"}

Init ==
  /\ state = "new" /\ firmware = "unread" /\ cipher = FALSE
  /\ holder = NoTask /\ hold = "none" /\ overran = FALSE /\ nextRef = 1 /\ sent = <<>> /\ pending = NoTask
  /\ pc = [t \in Tasks |-> "idle"]
  /\ asked = [t \in Tasks |-> KeyExchange]
  /\ current = [t \in Tasks |-> 0]
  /\ future = [t \in Tasks |-> 0]
  /\ outcome = [t \in Tasks |-> "none"]
  /\ link = "up" /\ toLock = <<>> /\ answers = <<>>
-----------------------------------------------------------------------------
(***************************************************************************)
(* _exchange, from the lock to the first write.                            *)
(***************************************************************************)

(* Variation: the counter never wraps. *)
RefAfter_unwrapped(ref) == ref + 1

(* CommandRefCounter.next. *)
RefAfter(ref) == IF ref + 1 <= RefLimit THEN ref + 1 ELSE 1

(* The future of the command in flight gets the error, if it has nothing. *)
FailPending ==
  future' = IF pending # NoTask /\ future[pending] = 0
            THEN [future EXCEPT ![pending] = Lost]
            ELSE future

(* The call of t ends; a failing connect() closes the session on its way.  *)
End(t, how) ==
  /\ pc' = [pc EXCEPT ![t] = "done"]
  /\ outcome' = [outcome EXCEPT ![t] = how]
  /\ IF t = Connector
     THEN state' = "closed" /\ link' = "closed" /\ toLock' = <<>> /\ answers' = <<>>
     ELSE UNCHANGED <<state, link, toLock, answers>>

(* The command gets its ref and becomes the pending one; writing begins.   *)
Start(t, k) ==
  /\ holder' = t /\ pending' = t
  /\ pc' = [pc EXCEPT ![t] = "writing"]
  /\ asked' = [asked EXCEPT ![t] = k]
  /\ sent' = Append(sent, [by |-> t, kind |-> k,
                           ref |-> IF firmware = "static" THEN StaticRef ELSE nextRef])
  /\ nextRef' = IF firmware = "static" THEN nextRef ELSE RefAfter(nextRef)
  /\ current' = [current EXCEPT ![t] = Len(sent) + 1]
  /\ future' = [future EXCEPT ![t] = 0]
  /\ UNCHANGED <<state, outcome, linkVars>>

(* With the lock taken: a closed session, a pause to sit out, or the       *)
(* first write.  Only the key exchange may go out without the cipher.      *)
Enter(t, k) ==
  \/ /\ ~Open \/ (hold = "none" /\ ~cipher /\ k # KeyExchange)
     /\ End(t, "refused")
     /\ holder' = NoTask
     /\ UNCHANGED <<nextRef, sent, pending, asked, current, future>>
  \/ /\ Open /\ hold # "none"
     /\ holder' = t
     /\ pc' = [pc EXCEPT ![t] = "pausing"]
     /\ asked' = [asked EXCEPT ![t] = k]
     /\ UNCHANGED <<state, nextRef, sent, pending, current, future, outcome, linkVars>>
  \/ /\ Open /\ hold = "none" /\ (cipher \/ k = KeyExchange)
     /\ Start(t, k)

(* asyncio.Lock: taken at once when it is free and nobody waits for it.    *)
Queue(t, k) ==
  /\ pc' = [pc EXCEPT ![t] = "queued"]
  /\ asked' = [asked EXCEPT ![t] = k]
  /\ UNCHANGED <<state, holder, nextRef, sent, pending, current, future, outcome, linkVars>>

LockFree == holder = NoTask /\ \A t \in Tasks : pc[t] # "queued"

(* send(): only a connected session lets a command in. *)
Send(t, k) ==
  /\ pc[t] = "idle" /\ state = "connected"
  /\ IF LockFree THEN Enter(t, k) ELSE Queue(t, k)
  /\ UNCHANGED <<firmware, overran, cipher, hold>>

Acquire(t) ==
  /\ pc[t] = "queued" /\ holder = NoTask
  /\ Enter(t, asked[t])
  /\ UNCHANGED <<firmware, overran, cipher, hold>>

(* Variation: what happened during the pause is not looked at. *)
PauseOver_unchecked(t) ==
  /\ pc[t] = "pausing" /\ hold = "none"
  /\ Start(t, asked[t])
  /\ UNCHANGED <<firmware, overran, cipher, hold>>

(* The link can drop or close() run during the pause. *)
PauseOver(t) ==
  /\ pc[t] = "pausing" /\ hold = "none"
  /\ Enter(t, asked[t])
  /\ UNCHANGED <<firmware, overran, cipher, hold>>

(* _ready_at passes, a late answer still on its way or not. *)
HoldExpires ==
  /\ hold # "none" /\ hold' = "none"
  /\ overran' = IF hold = "grace" /\ toLock \o answers # <<>> THEN TRUE ELSE overran
  /\ UNCHANGED <<state, firmware, cipher, holder, nextRef, sent, pending, taskVars, linkVars>>
-----------------------------------------------------------------------------
(***************************************************************************)
(* _exchange, from the first write to the end.                             *)
(***************************************************************************)
InFlight(t) == pc[t] \in {"writing", "waiting"}

(* The last frame is handed over.  A dead link may take it without a word. *)
Written(t) ==
  /\ pc[t] = "writing"
  /\ pc' = [pc EXCEPT ![t] = "waiting"]
  /\ toLock' = IF link = "up" THEN Append(toLock, current[t]) ELSE toLock
  /\ UNCHANGED <<sessionVars, asked, current, future, outcome, link, answers>>

(* Variation: a timeout leaves the lock taken. *)
Leave_keepsLock(t, how) ==
  /\ pending' = NoTask
  /\ holder' = IF how = "timeout" THEN holder ELSE NoTask
  /\ End(t, how)

(* The finally block, the lock, and the error on its way to the caller.    *)
Leave(t, how) ==
  /\ pending' = NoTask /\ holder' = NoTask
  /\ End(t, how)

(* A write cut short may have handed over its last frame all the same.     *)
LeaveWriting(t, how) ==
  \/ Leave(t, how)
  \/ /\ pc[t] = "writing" /\ link = "up" /\ t # Connector
     /\ pending' = NoTask /\ holder' = NoTask
     /\ pc' = [pc EXCEPT ![t] = "done"]
     /\ outcome' = [outcome EXCEPT ![t] = how]
     /\ toLock' = Append(toLock, current[t])
     /\ UNCHANGED <<state, link, answers>>

WriteFails(t) ==
  /\ pc[t] = "writing"
  /\ LeaveWriting(t, "failed")
  /\ UNCHANGED <<firmware, overran, cipher, hold, nextRef, sent, asked, current, future>>

(* Variation: the next command goes out right after a timeout. *)
TimeOut_noGrace(t) ==
  /\ InFlight(t)
  /\ LeaveWriting(t, "timeout")
  /\ UNCHANGED <<firmware, overran, cipher, hold, nextRef, sent, asked, current, future>>

(* response_timeout covers the writes too, and can overtake an answer that *)
(* is there but not yet read.                                              *)
TimeOut(t) ==
  /\ InFlight(t)
  /\ LeaveWriting(t, "timeout")
  /\ hold' = IF firmware = "static" THEN "grace" ELSE hold
  /\ UNCHANGED <<firmware, overran, cipher, nextRef, sent, asked, current, future>>

Cancel(t) ==
  /\ pc[t] \in InExchange
  /\ LET queued == pc[t] = "queued"
     IN  \/ InFlight(t) /\ LeaveWriting(t, "cancelled")
         \/ /\ ~InFlight(t)
            /\ End(t, "cancelled")
            /\ holder' = IF queued THEN holder ELSE NoTask
            /\ UNCHANGED pending
  /\ UNCHANGED <<firmware, overran, cipher, hold, nextRef, sent, asked, current, future>>

(* What the caller makes of the answer in its future.  Under the counter   *)
(* an answer with the right ref and the wrong id is an error.              *)
Verdict(t) ==
  IF sent[future[t]].kind # asked[t] THEN {"wrong_id"} ELSE {"answered", "refused"}

(* connect() goes on: the key sets the cipher, newer firmware is asked for *)
(* its model, and the last answer makes the session connected.             *)
ConnectGoesOn ==
  \/ /\ asked[Connector] = KeyExchange
     /\ cipher' = TRUE
     /\ firmware = "counter"
     /\ IF Open
        THEN /\ holder' = Connector
             /\ pc' = [pc EXCEPT ![Connector] = "pausing"]
             /\ asked' = [asked EXCEPT ![Connector] = DeviceModel]
             /\ UNCHANGED <<state, outcome, linkVars>>
        ELSE End(Connector, "refused") /\ holder' = NoTask /\ UNCHANGED asked
  \/ /\ IF asked[Connector] = KeyExchange
        THEN firmware = "static" /\ cipher' = TRUE
        ELSE UNCHANGED cipher
     /\ state' = "connected"
     /\ holder' = NoTask
     /\ pc' = [pc EXCEPT ![Connector] = "done"]
     /\ outcome' = [outcome EXCEPT ![Connector] = "answered"]
     /\ UNCHANGED <<asked, linkVars>>

(* The task runs again after its future was set. *)
Answered(t) ==
  /\ pc[t] = "waiting" /\ future[t] \in Positions
  /\ hold' = "delay"
  /\ pending' = NoTask
  /\ \E how \in Verdict(t) :
       \/ t = Connector /\ how = "answered" /\ ConnectGoesOn
       \/ /\ t # Connector \/ how # "answered"
          /\ End(t, how)
          /\ holder' = NoTask
          /\ UNCHANGED <<cipher, asked>>
  /\ UNCHANGED <<firmware, overran, nextRef, sent, current, future>>

Failed(t) ==
  /\ pc[t] = "waiting" /\ future[t] = Lost
  /\ Leave(t, "disconnected")
  /\ UNCHANGED <<firmware, overran, cipher, hold, nextRef, sent, asked, current, future>>
-----------------------------------------------------------------------------
(***************************************************************************)
(* The transport's callbacks, and the lock.                                *)
(***************************************************************************)

(* The lock reads a command, and answers it or not. *)
LockReads ==
  /\ toLock # <<>>
  /\ toLock' = Tail(toLock)
  /\ answers' = Append(answers, Head(toLock)) \/ answers' = answers
  /\ UNCHANGED <<sessionVars, taskVars, link>>

(* Variation: an answer is taken on its ref alone, as the app takes it. *)
Matches_refOnly(n, p) == sent[n].ref = sent[current[p]].ref

(* Whether the answer to command n completes the command of p.  The static *)
(* ref says nothing, so there the id has to fit too.                       *)
Matches(n, p) ==
  /\ sent[n].ref = sent[current[p]].ref
  /\ firmware = "static" => sent[n].kind = sent[current[p]].kind

(* _on_notification: one answer, complete or dropped as malformed. *)
Notification ==
  /\ answers # <<>>
  /\ answers' = Tail(answers)
  /\ LET n == Head(answers)
     IN  \/ /\ pending # NoTask /\ future[pending] = 0 /\ Matches(n, pending)
            /\ future' = [future EXCEPT ![pending] = n]
         \/ UNCHANGED future
  /\ UNCHANGED <<sessionVars, pc, asked, current, outcome, link, toLock>>

(* _on_disconnect: the session hears of it once it has subscribed. *)
Disconnect ==
  /\ link = "up"
  /\ link' = "lost" /\ toLock' = <<>> /\ answers' = <<>>
  /\ IF Open /\ pc[Connector] # "reading"
     THEN state' = "closed" /\ FailPending
     ELSE UNCHANGED <<state, future>>
  /\ UNCHANGED <<firmware, overran, cipher, holder, hold, nextRef, sent, pending,
                 pc, asked, current, outcome>>

(* close(), by whoever owns the session. *)
Close ==
  /\ state' = "closed" /\ link' = "closed" /\ toLock' = <<>> /\ answers' = <<>>
  /\ FailPending
  /\ UNCHANGED <<firmware, overran, cipher, holder, hold, nextRef, sent, pending,
                 pc, asked, current, outcome>>
-----------------------------------------------------------------------------
(***************************************************************************)
(* connect(), up to the key exchange.                                      *)
(***************************************************************************)
Connect ==
  /\ state = "new"
  /\ state' = "connecting"
  /\ pc' = [pc EXCEPT ![Connector] = "reading"]
  /\ UNCHANGED <<firmware, overran, cipher, holder, hold, nextRef, sent, pending,
                 asked, current, future, outcome, linkVars>>

FirmwareRead(f) ==
  /\ pc[Connector] = "reading" /\ link = "up"
  /\ firmware' = f
  /\ IF f = "old"
     THEN End(Connector, "refused")
     ELSE /\ pc' = [pc EXCEPT ![Connector] = "subscribing"]
          /\ UNCHANGED <<state, outcome, linkVars>>
  /\ UNCHANGED <<overran, cipher, holder, hold, nextRef, sent, pending, asked, current, future>>

Subscribed ==
  /\ pc[Connector] = "subscribing"
  /\ Enter(Connector, KeyExchange)
  /\ UNCHANGED <<firmware, overran, cipher, hold>>

(* Reading or subscribing fails, or connect() is cancelled meanwhile. *)
ConnectFails ==
  /\ pc[Connector] \in {"reading", "subscribing"}
  /\ End(Connector, "failed")
  /\ UNCHANGED <<firmware, overran, cipher, holder, hold, nextRef, sent, pending, asked, current, future>>

Next ==
  \/ Connect \/ Subscribed \/ ConnectFails
  \/ \E f \in {"old", "static", "counter"} : FirmwareRead(f)
  \/ \E t \in Senders, k \in Kinds : Send(t, k)
  \/ \E t \in Tasks :
       \/ Acquire(t) \/ PauseOver(t) \/ Written(t) \/ WriteFails(t)
       \/ TimeOut(t) \/ Cancel(t) \/ Answered(t) \/ Failed(t)
  \/ HoldExpires \/ LockReads \/ Notification \/ Disconnect \/ Close

(* Timers fire, a free lock is handed on and a task that can run does.     *)
Fairness ==
  /\ WF_vars(HoldExpires)
  /\ \A t \in Tasks : WF_vars(Acquire(t)) /\ WF_vars(PauseOver(t)) /\ WF_vars(TimeOut(t))

Spec     == Init /\ [][Next]_vars
FairSpec == Spec /\ Fairness
-----------------------------------------------------------------------------
(***************************************************************************)
(* Properties.                                                             *)
(***************************************************************************)
Commands == [by : Tasks, kind : AllKinds, ref : 0..RefLimit]

(* Every variable keeps its shape, and every ref is one the lock knows.    *)
TypeOK ==
  /\ state \in {"new", "connecting", "connected", "closed"}
  /\ firmware \in {"unread", "old", "static", "counter"}
  /\ cipher \in BOOLEAN /\ overran \in BOOLEAN /\ link \in {"up", "lost", "closed"}
  /\ holder \in Tasks \cup {NoTask} /\ pending \in Tasks \cup {NoTask}
  /\ hold \in {"none", "delay", "grace"}
  /\ nextRef \in 1..RefLimit
  /\ sent \in Seq(Commands)
  /\ pc \in [Tasks -> InExchange \cup {"idle", "reading", "subscribing", "done"}]
  /\ asked \in [Tasks -> AllKinds]
  /\ current \in [Tasks -> 0..Len(sent)]
  /\ future \in [Tasks -> 0..Len(sent) \cup {Lost}]
  /\ outcome \in [Tasks -> {"none", "answered", "refused", "wrong_id", "timeout",
                            "cancelled", "failed", "disconnected"}]
  /\ toLock \in Seq(Positions) /\ answers \in Seq(Positions)

(* How an earlier command may end and leave its answer to another one.     *)
Abandoned == {"cancelled", "failed"} \cup (IF overran THEN {"timeout"} ELSE {})

(* A command is completed by its own answer.  The exceptions are the ones  *)
(* the wire leaves open: under the counter, an answer a full turn of the   *)
(* refs late; under the static ref, an answer of the same kind, when some  *)
(* earlier command was given up on without waiting for its answer          *)
(* (_exchange, _on_notification, the module docstring).                    *)
AnswersAreOwn ==
  \A t \in Tasks :
    LET n == future[t]
        c == current[t]
    IN  n \in Positions /\ n # c =>
          /\ n < c
          /\ \/ firmware = "counter" /\ (c - n) % RefLimit = 0
             \/ /\ firmware = "static" /\ sent[n].kind = sent[c].kind
                /\ \E m \in 1..(c - 1) : outcome[sent[m].by] \in Abandoned

(* Nobody waits for an answer on a session that is closed: close and loss  *)
(* of the link reach the command in flight, and one that sat out its pause *)
(* meanwhile is never sent (_fail_pending, _exchange).                     *)
NobodyWaitsOnClosed == \A t \in Tasks : state = "closed" /\ InFlight(t) => future[t] # 0

(* Every call that got as far as the lock ends: by its answer, its error   *)
(* or its timeout, and never keeps the others from the lock.               *)
EveryExchangeEnds == \A t \in Tasks : pc[t] \in InExchange ~> pc[t] = "done"

(* What the docstrings say, and what a run refutes.                        *)

(* Session: "A Session connects once; after a disconnect, build a new one".*)
(* The last answer of connect() sets CONNECTED over whatever happened      *)
(* between that answer and connect() running again.                        *)
ClosedForGood == [][state = "closed" => state' = "closed"]_vars

(* The module docstring: what is left is a late answer "arriving after the *)
(* grace period".  A cancelled command starts no grace period.             *)
OnlyLateAfterGrace ==
  \A t \in Tasks : ~overran /\ future[t] \in Positions => future[t] = current[t]
=============================================================================
