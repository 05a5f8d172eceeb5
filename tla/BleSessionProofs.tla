-------------------------- MODULE BleSessionProofs --------------------------
(***************************************************************************)
(* Proofs about the Bluetooth session of BleSession: typing, the exclusive *)
(* use of the connection, that a closing session reaches whoever waits for *)
(* an answer, and whose answer completes a command.                        *)
(***************************************************************************)
EXTENDS BleSession, SequenceTheorems, TLAPS

(* A command in flight has its place among the commands sent. *)
PlacedInFlight == \A t \in Tasks : InFlight(t) => current[t] \in Positions

TInv == TypeOK /\ PlacedInFlight

Endings == {"answered", "refused", "wrong_id", "timeout", "cancelled", "failed", "disconnected"}

LEMMA ConnectorIsTask == Connector \in Tasks /\ \A t \in Senders : t \in Tasks /\ t # Connector
BY TasksAssumption DEF Tasks

LEMMA InitTInv == Init => TInv
<1> SUFFICES ASSUME Init PROVE TInv
  OBVIOUS
<1>1. sent \in Seq(Commands) /\ toLock \in Seq(Positions) /\ answers \in Seq(Positions) /\ Len(sent) = 0
  BY EmptySeq DEF Init
<1>2. nextRef \in 1..RefLimit
  BY RefAssumption DEF Init
<1>3. current \in [Tasks -> 0..Len(sent)] /\ future \in [Tasks -> 0..Len(sent) \cup {Lost}]
  BY <1>1 DEF Init
<1>4. asked \in [Tasks -> AllKinds]
  BY DEF Init, AllKinds
<1>5. QED
  BY <1>1, <1>2, <1>3, <1>4 DEF Init, TInv, TypeOK, PlacedInFlight, InFlight
-----------------------------------------------------------------------------
(***************************************************************************)
(* Typing.                                                                 *)
(***************************************************************************)

(* What a task's end leaves well typed. *)
LEMMA EndTypes ==
  ASSUME TInv, NEW t \in Tasks, NEW how \in Endings, End(t, how)
  PROVE  /\ pc' = [pc EXCEPT ![t] = "done"]
         /\ pc' \in [Tasks -> InExchange \cup {"idle", "reading", "subscribing", "done"}]
         /\ outcome' \in [Tasks -> Endings \cup {"none"}]
         /\ state' \in {"new", "connecting", "connected", "closed"}
         /\ link' \in {"up", "lost", "closed"}
         /\ toLock' \in Seq(Positions) /\ answers' \in Seq(Positions)
<1>1. /\ pc' = [pc EXCEPT ![t] = "done"]
      /\ pc' \in [Tasks -> InExchange \cup {"idle", "reading", "subscribing", "done"}]
  BY DEF End, TInv, TypeOK
<1>2. outcome' \in [Tasks -> Endings \cup {"none"}]
  BY DEF End, TInv, TypeOK, Endings
<1>3. CASE t = Connector
  BY <1>1, <1>2, <1>3, EmptySeq DEF End
<1>4. CASE t # Connector
  BY <1>1, <1>2, <1>4 DEF End, TInv, TypeOK
<1>5. QED
  BY <1>3, <1>4

(* A task ends; whatever else the step changes keeps its type. *)
LEMMA EndTInv ==
  ASSUME TInv, NEW t \in Tasks, NEW how \in Endings, End(t, how),
         UNCHANGED <<firmware, overran, nextRef, sent, current, future>>, UNCHANGED asked,
         cipher' \in BOOLEAN, hold' \in {"none", "delay", "grace"},
         holder' \in Tasks \cup {NoTask}, pending' \in Tasks \cup {NoTask}
  PROVE  TInv'
<1>1. TypeOK'
  BY EndTypes DEF TInv, TypeOK, Positions, Endings, Commands
<1>2. PlacedInFlight'
  BY EndTypes DEF TInv, TypeOK, Positions, PlacedInFlight, InFlight
<1>3. QED
  BY <1>1, <1>2 DEF TInv

(* CommandRefCounter stays within its refs. *)
LEMMA RefStays ==
  ASSUME NEW r \in 1..RefLimit
  PROVE  RefAfter(r) \in 1..RefLimit
BY RefAssumption DEF RefAfter

LEMMA StartTInv ==
  ASSUME TInv, NEW t \in Tasks, NEW k \in AllKinds, Start(t, k),
         UNCHANGED <<firmware, overran, cipher, hold>>
  PROVE  TInv'
<1> DEFINE c == [by |-> t, kind |-> k,
                 ref |-> IF firmware = "static" THEN StaticRef ELSE nextRef]
<1>1. nextRef \in 1..RefLimit /\ RefLimit \in Nat
  BY RefAssumption DEF TInv, TypeOK
<1>2. (IF firmware = "static" THEN StaticRef ELSE nextRef) \in 0..RefLimit
  BY <1>1 DEF StaticRef
<1>3. c \in Commands
  BY <1>2 DEF Commands
<1>4. sent \in Seq(Commands) /\ sent' = Append(sent, c)
  BY DEF Start, TInv, TypeOK
<1>5. sent' \in Seq(Commands) /\ Len(sent) \in Nat /\ Len(sent') = Len(sent) + 1
  BY <1>3, <1>4, AppendProperties, LenProperties
<1>6. /\ Positions \subseteq Positions' /\ Len(sent) + 1 \in Positions'
      /\ 0..Len(sent) \subseteq 0..Len(sent')
  BY <1>5 DEF Positions
<1>7. toLock' \in Seq(Positions') /\ answers' \in Seq(Positions')
  <2>1. toLock' = toLock /\ answers' = answers
    BY DEF Start, linkVars
  <2>2. QED
    BY <1>6, <2>1, SeqMonotonic DEF TInv, TypeOK
<1>8. nextRef' \in 1..RefLimit
  BY <1>1, RefStays DEF Start
<1>9. current' \in [Tasks -> 0..Len(sent')] /\ current'[t] = Len(sent) + 1
  BY <1>5, <1>6 DEF Start, TInv, TypeOK
<1>10. future' \in [Tasks -> 0..Len(sent') \cup {Lost}]
  BY <1>5, <1>6 DEF Start, TInv, TypeOK
<1>11. /\ pc' = [pc EXCEPT ![t] = "writing"]
       /\ pc' \in [Tasks -> InExchange \cup {"idle", "reading", "subscribing", "done"}]
       /\ asked' \in [Tasks -> AllKinds]
  BY DEF Start, TInv, TypeOK, InExchange
<1>12. TypeOK'
  BY <1>5, <1>7, <1>8, <1>9, <1>10, <1>11 DEF Start, TInv, TypeOK, linkVars, Commands
<1>13. PlacedInFlight'
  <2>1. ASSUME NEW u \in Tasks, u # t, InFlight(u)' PROVE current'[u] \in Positions'
    <3>1. InFlight(u) /\ current'[u] = current[u]
      BY <2>1, <1>11 DEF Start, InFlight, TInv, TypeOK
    <3>2. QED
      BY <3>1, <1>6 DEF TInv, PlacedInFlight
  <2>2. QED
    BY <2>1, <1>6, <1>9 DEF PlacedInFlight
<1>14. QED
  BY <1>12, <1>13 DEF TInv

LEMMA EnterTInv ==
  ASSUME TInv, NEW t \in Tasks, NEW k \in AllKinds, Enter(t, k),
         UNCHANGED <<firmware, overran, cipher, hold>>
  PROVE  TInv'
<1>1. CASE Start(t, k)
  BY <1>1, StartTInv
<1>2. CASE /\ End(t, "refused") /\ holder' = NoTask
           /\ UNCHANGED <<nextRef, sent, pending, asked, current, future>>
  BY <1>2, EndTInv DEF TInv, TypeOK, Endings
<1>3. CASE /\ holder' = t /\ pc' = [pc EXCEPT ![t] = "pausing"]
           /\ asked' = [asked EXCEPT ![t] = k]
           /\ UNCHANGED <<state, nextRef, sent, pending, current, future, outcome, linkVars>>
  <2>1. TypeOK'
    BY <1>3 DEF TInv, TypeOK, linkVars, Positions, InExchange, Commands
  <2>2. PlacedInFlight'
    BY <1>3 DEF TInv, TypeOK, PlacedInFlight, InFlight, Positions
  <2>3. QED
    BY <2>1, <2>2 DEF TInv
<1>4. QED
  BY <1>1, <1>2, <1>3 DEF Enter

LEMMA QueueTInv ==
  ASSUME TInv, NEW t \in Tasks, NEW k \in AllKinds, Queue(t, k),
         UNCHANGED <<firmware, overran, cipher, hold>>
  PROVE  TInv'
<1>1. TypeOK'
  BY DEF Queue, TInv, TypeOK, linkVars, Positions, InExchange, Commands
<1>2. PlacedInFlight'
  BY DEF Queue, TInv, TypeOK, PlacedInFlight, InFlight, Positions
<1>3. QED
  BY <1>1, <1>2 DEF TInv

(* LeaveWriting, in whichever of its two ways. *)
LEMMA LeaveWritingTInv ==
  ASSUME TInv, NEW t \in Tasks, NEW how \in Endings, InFlight(t), LeaveWriting(t, how),
         UNCHANGED <<firmware, overran, cipher, nextRef, sent, asked, current, future>>,
         hold' \in {"none", "delay", "grace"}
  PROVE  TInv'
<1>1. CASE Leave(t, how)
  BY <1>1, EndTInv DEF Leave, TInv, TypeOK
<1>2. CASE ~Leave(t, how)
  <2>1. current[t] \in Positions /\ Len(sent) \in Nat
    BY LenProperties DEF TInv, TypeOK, PlacedInFlight
  <2>2. Append(toLock, current[t]) \in Seq(Positions)
    BY <2>1, AppendProperties DEF TInv, TypeOK
  <2>3. TypeOK'
    BY <1>2, <2>2 DEF LeaveWriting, TInv, TypeOK, Positions, Endings, Commands
  <2>4. PlacedInFlight'
    BY <1>2 DEF LeaveWriting, TInv, TypeOK, PlacedInFlight, InFlight, Positions
  <2>5. QED
    BY <2>3, <2>4 DEF TInv
<1>3. QED
  BY <1>1, <1>2

LEMMA FailPendingTypes ==
  ASSUME TInv, FailPending
  PROVE  /\ future' \in [Tasks -> 0..Len(sent) \cup {Lost}]
         /\ pending # NoTask => future'[pending] # 0
         /\ \A t \in Tasks : future[t] # 0 => future'[t] # 0
BY DEF FailPending, TInv, TypeOK, Lost

LEMMA NextTInv == TInv /\ [Next]_vars => TInv'
<1> SUFFICES ASSUME TInv, [Next]_vars PROVE TInv'
  OBVIOUS
<1> USE ConnectorIsTask
(* Where the step leaves the sequences and the commands' places alone. *)
<1>a. ASSUME UNCHANGED <<sent, current, nextRef, outcome, toLock, answers>>,
             future' \in [Tasks -> 0..Len(sent) \cup {Lost}],
             state' \in {"new", "connecting", "connected", "closed"},
             firmware' \in {"unread", "old", "static", "counter"}, cipher' \in BOOLEAN,
             overran' \in BOOLEAN, link' \in {"up", "lost", "closed"}, hold' \in {"none", "delay", "grace"},
             UNCHANGED <<holder, pending, asked>>,
             pc' \in [Tasks -> InExchange \cup {"idle", "reading", "subscribing", "done"}],
             \A t \in Tasks : InFlight(t)' => InFlight(t)
      PROVE  TInv'
  <2>1. TypeOK'
    BY <1>a DEF TInv, TypeOK, Positions, Commands
  <2>2. PlacedInFlight'
    BY <1>a DEF TInv, PlacedInFlight, Positions
  <2>3. QED
    BY <2>1, <2>2 DEF TInv
<1>1. CASE Connect
  BY <1>1, <1>a DEF Connect, TInv, TypeOK, linkVars, InFlight
<1>2. CASE Subscribed
  BY <1>2, EnterTInv DEF Subscribed, AllKinds
<1>3. CASE ConnectFails
  <2>1. UNCHANGED asked
    BY <1>3 DEF ConnectFails
  <2>2. QED
    BY <1>3, <2>1, EndTInv DEF ConnectFails, TInv, TypeOK, Endings
<1>4. ASSUME NEW f \in {"old", "static", "counter"}, FirmwareRead(f) PROVE TInv'
  <2>1. CASE f = "old"
    <3>1. End(Connector, "refused") /\ firmware' = f
      BY <1>4, <2>1 DEF FirmwareRead
    <3>2. TypeOK'
      BY <1>4, <3>1, EndTypes DEF FirmwareRead, TInv, TypeOK, Positions, Endings, Commands
    <3>3. PlacedInFlight'
      BY <1>4, <3>1, EndTypes DEF FirmwareRead, TInv, TypeOK, PlacedInFlight, InFlight, Positions, Endings
    <3>4. QED
      BY <3>2, <3>3 DEF TInv
  <2>2. CASE f # "old"
    BY <1>4, <2>2, <1>a DEF FirmwareRead, TInv, TypeOK, linkVars, InFlight
  <2>3. QED
    BY <2>1, <2>2
<1>5. ASSUME NEW t \in Senders, NEW k \in Kinds, Send(t, k) PROVE TInv'
  BY <1>5, EnterTInv, QueueTInv DEF Send, AllKinds
<1>6. ASSUME NEW t \in Tasks, Acquire(t) PROVE TInv'
  BY <1>6, EnterTInv DEF Acquire, TInv, TypeOK
<1>7. ASSUME NEW t \in Tasks, PauseOver(t) PROVE TInv'
  BY <1>7, EnterTInv DEF PauseOver, TInv, TypeOK
<1>8. ASSUME NEW t \in Tasks, Written(t) PROVE TInv'
  <2>1. current[t] \in Positions
    BY <1>8 DEF Written, InFlight, TInv, PlacedInFlight
  <2>2. toLock' \in Seq(Positions)
    BY <1>8, <2>1, AppendProperties DEF Written, TInv, TypeOK
  <2>3. TypeOK'
    BY <1>8, <2>2 DEF Written, TInv, TypeOK, Positions, sessionVars, InExchange, Commands
  <2>4. PlacedInFlight'
    BY <1>8 DEF Written, TInv, TypeOK, PlacedInFlight, InFlight, Positions, sessionVars
  <2>5. QED
    BY <2>3, <2>4 DEF TInv
<1>9. ASSUME NEW t \in Tasks, WriteFails(t) PROVE TInv'
  BY <1>9, LeaveWritingTInv DEF WriteFails, InFlight, Endings, TInv, TypeOK
<1>10. ASSUME NEW t \in Tasks, TimeOut(t) PROVE TInv'
  <2>1. hold' \in {"none", "delay", "grace"}
    BY <1>10 DEF TimeOut, TInv, TypeOK
  <2>2. QED
    BY <1>10, <2>1, LeaveWritingTInv DEF TimeOut, Endings
<1>11. ASSUME NEW t \in Tasks, Cancel(t) PROVE TInv'
  <2>1. CASE InFlight(t) /\ LeaveWriting(t, "cancelled")
    BY <1>11, <2>1, LeaveWritingTInv DEF Cancel, Endings, TInv, TypeOK
  <2>2. CASE ~InFlight(t)
    <3>1. End(t, "cancelled") /\ UNCHANGED pending /\ holder' \in Tasks \cup {NoTask}
      BY <1>11, <2>2 DEF Cancel, TInv, TypeOK
    <3>2. QED
      BY <1>11, <3>1, EndTInv DEF Cancel, Endings, TInv, TypeOK
  <2>3. QED
    BY <1>11, <2>1, <2>2 DEF Cancel
<1>12. ASSUME NEW t \in Tasks, Answered(t) PROVE TInv'
  <2>1. PICK how \in Verdict(t) :
          \/ t = Connector /\ how = "answered" /\ ConnectGoesOn
          \/ /\ t # Connector \/ how # "answered"
             /\ End(t, how) /\ holder' = NoTask /\ UNCHANGED <<cipher, asked>>
    BY <1>12 DEF Answered
  <2>2. how \in Endings
    BY <2>1 DEF Verdict, Endings
  <2>3. pending' = NoTask /\ hold' = "delay" /\ UNCHANGED <<firmware, overran, nextRef, sent, current, future>>
    BY <1>12 DEF Answered
  <2>4. CASE End(t, how) /\ holder' = NoTask /\ UNCHANGED <<cipher, asked>>
    BY <2>2, <2>3, <2>4, EndTInv DEF TInv, TypeOK
  <2>5. CASE ConnectGoesOn
    <3>0. cipher' \in BOOLEAN
      BY <2>5 DEF ConnectGoesOn, TInv, TypeOK
    <3>1. CASE /\ holder' = Connector
               /\ pc' = [pc EXCEPT ![Connector] = "pausing"]
               /\ asked' = [asked EXCEPT ![Connector] = DeviceModel]
               /\ UNCHANGED <<state, outcome, linkVars>>
      <4>1. TypeOK'
        BY <2>3, <3>0, <3>1 DEF TInv, TypeOK, linkVars, Positions, InExchange, Commands, AllKinds
      <4>2. PlacedInFlight'
        BY <2>3, <3>1 DEF TInv, TypeOK, PlacedInFlight, InFlight, Positions
      <4>3. QED
        BY <4>1, <4>2 DEF TInv
    <3>2. CASE End(Connector, "refused") /\ holder' = NoTask /\ UNCHANGED asked
      BY <2>3, <3>0, <3>2, EndTInv DEF Endings, TInv, TypeOK
    <3>3. CASE /\ state' = "connected" /\ holder' = NoTask
               /\ pc' = [pc EXCEPT ![Connector] = "done"]
               /\ outcome' = [outcome EXCEPT ![Connector] = "answered"]
               /\ UNCHANGED <<asked, linkVars>>
      <4>1. TypeOK'
        BY <2>3, <3>0, <3>3 DEF TInv, TypeOK, linkVars, Positions, Endings, Commands
      <4>2. PlacedInFlight'
        BY <2>3, <3>3 DEF TInv, TypeOK, PlacedInFlight, InFlight, Positions
      <4>3. QED
        BY <4>1, <4>2 DEF TInv
    <3>4. QED
      BY <2>5, <3>1, <3>2, <3>3 DEF ConnectGoesOn
  <2>6. QED
    BY <2>1, <2>4, <2>5
<1>13. ASSUME NEW t \in Tasks, Failed(t) PROVE TInv'
  BY <1>13, EndTInv DEF Failed, Leave, Endings, TInv, TypeOK
<1>14. CASE HoldExpires
  BY <1>14, <1>a DEF HoldExpires, TInv, TypeOK, taskVars, linkVars, InFlight
<1>15. CASE LockReads
  <2>1. Head(toLock) \in Positions /\ Tail(toLock) \in Seq(Positions)
    BY <1>15, HeadTailProperties DEF LockReads, TInv, TypeOK
  <2>a. answers \in Seq(Positions) /\ toLock' = Tail(toLock)
    BY <1>15 DEF LockReads, TInv, TypeOK
  <2>b. Append(answers, Head(toLock)) \in Seq(Positions)
    BY <2>1, <2>a, AppendProperties
  <2>2. toLock' \in Seq(Positions) /\ answers' \in Seq(Positions)
    BY <1>15, <2>1, <2>a, <2>b DEF LockReads
  <2>c. UNCHANGED <<sessionVars, taskVars, link>>
    BY <1>15 DEF LockReads
  <2>3. TypeOK'
    BY <2>2, <2>c DEF TInv, TypeOK, Positions, sessionVars, taskVars, Commands
  <2>4. PlacedInFlight'
    BY <2>c DEF TInv, PlacedInFlight, InFlight, Positions, sessionVars, taskVars
  <2>5. QED
    BY <2>3, <2>4 DEF TInv
<1>16. CASE Notification
  <2>1. Head(answers) \in Positions /\ answers' \in Seq(Positions) /\ Positions \subseteq 0..Len(sent)
    BY <1>16, HeadTailProperties DEF Notification, TInv, TypeOK, Positions
  <2>2. future' \in [Tasks -> 0..Len(sent) \cup {Lost}]
    BY <1>16, <2>1 DEF Notification, TInv, TypeOK
  <2>a. UNCHANGED <<sessionVars, pc, asked, current, outcome, link, toLock>>
    BY <1>16 DEF Notification
  <2>b. answers' \in Seq(Positions)
    BY <2>1
  <2>c. UNCHANGED <<state, firmware, cipher, overran, holder, hold, nextRef, sent, pending>>
    BY <2>a DEF sessionVars
  <2>3. TypeOK'
    BY <2>a, <2>b, <2>c, <2>2 DEF TInv, TypeOK, Positions, Commands
  <2>4. PlacedInFlight'
    BY <2>a DEF TInv, PlacedInFlight, InFlight, Positions, sessionVars
  <2>5. QED
    BY <2>3, <2>4 DEF TInv
(* A dropped or closed link empties the air. *)
<1>b. ASSUME UNCHANGED <<firmware, overran, cipher, holder, hold, nextRef, sent, pending,
                         pc, asked, current, outcome>>,
             link' \in {"up", "lost", "closed"}, toLock' = <<>>, answers' = <<>>,
             state' \in {state, "closed"}, FailPending \/ UNCHANGED future
      PROVE  TInv'
  <2>1. future' \in [Tasks -> 0..Len(sent) \cup {Lost}]
    BY <1>b, FailPendingTypes DEF TInv, TypeOK
  <2>2. TypeOK'
    BY <1>b, <2>1, EmptySeq DEF TInv, TypeOK, Positions, Commands
  <2>3. PlacedInFlight'
    BY <1>b DEF TInv, PlacedInFlight, InFlight, Positions
  <2>4. QED
    BY <2>2, <2>3 DEF TInv
<1>17. CASE Disconnect
  BY <1>17, <1>b DEF Disconnect
<1>18. CASE Close
  BY <1>18, <1>b DEF Close
<1>19. CASE UNCHANGED vars
  BY <1>19, <1>a DEF vars, sessionVars, taskVars, linkVars, TInv, TypeOK, InFlight
<1>20. QED
  BY <1>1, <1>2, <1>3, <1>4, <1>5, <1>6, <1>7, <1>8, <1>9, <1>10, <1>11, <1>12, <1>13,
     <1>14, <1>15, <1>16, <1>17, <1>18, <1>19 DEF Next

LEMMA SpecTInv == Spec => []TInv
BY InitTInv, NextTInv, PTL DEF Spec

(* Every variable keeps its shape, every ref is one the lock knows, and    *)
(* every answer in the air is one to a command that was sent.              *)
THEOREM TypeCorrect == Spec => []TypeOK
<1>1. TInv => TypeOK
  BY DEF TInv
<1>2. QED
  BY <1>1, SpecTInv, PTL
-----------------------------------------------------------------------------
(***************************************************************************)
(* One exchange at a time, and nobody left waiting.                        *)
(***************************************************************************)

(* Whoever pauses, writes or waits has _command_lock, and the command in   *)
(* flight is the pending one.                                              *)
HolderExchanges ==
  \A t \in Tasks :
    /\ pc[t] \in {"pausing", "writing", "waiting"} => holder = t
    /\ InFlight(t) => pending = t

(* Nobody else uses the session before connect() has ended. *)
ConnectAlone ==
  /\ state = "new" => pc[Connector] = "idle"
  /\ pc[Connector] # "done" =>
       /\ state # "connected"
       /\ \A t \in Senders : pc[t] = "idle"

ExchangeInv == HolderExchanges /\ ConnectAlone /\ NobodyWaitsOnClosed

(* Nobody but t has the lock or anything in flight. *)
Alone(t) == \A u \in Tasks \ {t} : pc[u] \notin {"pausing", "writing", "waiting"}

LEMMA AloneByLock ==
  ASSUME HolderExchanges, NEW t \in Tasks, holder \in {t, NoTask}
  PROVE  Alone(t)
BY TasksAssumption DEF HolderExchanges, Alone, Tasks

LEMMA AloneConnecting ==
  ASSUME ConnectAlone, pc[Connector] # "done"
  PROVE  Alone(Connector)
BY DEF ConnectAlone, Alone, Tasks

(* The only task on the lock ends its call. *)
LEMMA EndExchange ==
  ASSUME TInv, ExchangeInv, NEW t \in Tasks, NEW how \in Endings, End(t, how),
         Alone(t), t \in Senders => pc[t] # "idle" \/ state = "connected"
  PROVE  ExchangeInv'
<1>1. pc' = [pc EXCEPT ![t] = "done"]
  BY EndTypes
<1>2. \A u \in Tasks : pc'[u] \notin {"pausing", "writing", "waiting"}
  BY <1>1 DEF Alone, TInv, TypeOK
<1>3. HolderExchanges' /\ NobodyWaitsOnClosed'
  BY <1>2 DEF HolderExchanges, NobodyWaitsOnClosed, InFlight
<1>4. ConnectAlone'
  <2>1. CASE t = Connector
    BY <1>1, <2>1, ConnectorIsTask DEF End, ConnectAlone, TInv, TypeOK
  <2>2. CASE t # Connector
    <3>1. t \in Senders /\ state' = state /\ pc'[Connector] = pc[Connector]
      BY <1>1, <2>2, ConnectorIsTask DEF End, Tasks, TInv, TypeOK
    <3>2. pc[Connector] = "done"
      BY <3>1 DEF ExchangeInv, ConnectAlone
    <3>3. QED
      BY <3>1, <3>2 DEF ExchangeInv, ConnectAlone
  <2>3. QED
    BY <2>1, <2>2
<1>5. QED
  BY <1>3, <1>4 DEF ExchangeInv

LEMMA StartExchange ==
  ASSUME TInv, ExchangeInv, NEW t \in Tasks, NEW k, Start(t, k), Open, Alone(t),
         t \in Senders => pc[t] # "idle" \/ state = "connected",
         t = Connector => pc[t] # "done"
  PROVE  ExchangeInv'
<1>1. /\ pc' = [pc EXCEPT ![t] = "writing"] /\ holder' = t /\ pending' = t
      /\ state' = state
  BY DEF Start
<1>2. \A u \in Tasks : pc'[u] \in {"pausing", "writing", "waiting"} => u = t
  BY <1>1 DEF Alone, TInv, TypeOK
<1>3. HolderExchanges'
  BY <1>1, <1>2 DEF HolderExchanges, InFlight
<1>4. state' # "closed"
  BY <1>1 DEF Open
<1>n. state' # "new"
  BY <1>1 DEF Open
<1>5. ConnectAlone'
  <2>1. CASE t = Connector
    BY <1>1, <1>n, <2>1, ConnectorIsTask DEF ExchangeInv, ConnectAlone, TInv, TypeOK
  <2>2. CASE t # Connector
    <3>1. t \in Senders /\ pc'[Connector] = pc[Connector]
      BY <1>1, <2>2, ConnectorIsTask DEF Tasks, TInv, TypeOK
    <3>2. pc[Connector] = "done"
      BY <3>1 DEF ExchangeInv, ConnectAlone
    <3>3. QED
      BY <1>n, <3>1, <3>2 DEF ConnectAlone
  <2>3. QED
    BY <2>1, <2>2
<1>6. QED
  BY <1>3, <1>4, <1>5 DEF ExchangeInv, NobodyWaitsOnClosed

LEMMA EnterExchange ==
  ASSUME TInv, ExchangeInv, NEW t \in Tasks, NEW k, Enter(t, k), Alone(t),
         t \in Senders => pc[t] # "idle" \/ state = "connected",
         t = Connector => pc[t] # "done"
  PROVE  ExchangeInv'
<1>1. CASE End(t, "refused")
  BY <1>1, EndExchange DEF Endings
<1>2. CASE Open /\ Start(t, k)
  BY <1>2, StartExchange
<1>3. CASE /\ Open /\ holder' = t /\ pc' = [pc EXCEPT ![t] = "pausing"]
           /\ UNCHANGED <<state, pending, future>>
  <2>1. \A u \in Tasks : pc'[u] \in {"pausing", "writing", "waiting"} => u = t /\ ~InFlight(u)'
    BY <1>3 DEF Alone, TInv, TypeOK, InFlight
  <2>2. HolderExchanges' /\ NobodyWaitsOnClosed'
    BY <1>3, <2>1 DEF HolderExchanges, NobodyWaitsOnClosed, InFlight
  <2>n. state' # "new"
    BY <1>3 DEF Open
  <2>3. ConnectAlone'
    <3>1. CASE t = Connector
      BY <1>3, <2>n, <3>1, ConnectorIsTask DEF ExchangeInv, ConnectAlone, TInv, TypeOK
    <3>2. CASE t # Connector
      <4>1. t \in Senders /\ pc'[Connector] = pc[Connector]
        BY <1>3, <3>2, ConnectorIsTask DEF Tasks, TInv, TypeOK
      <4>2. pc[Connector] = "done"
        BY <4>1 DEF ExchangeInv, ConnectAlone
      <4>3. QED
        BY <2>n, <4>1, <4>2 DEF ConnectAlone
    <3>3. QED
      BY <3>1, <3>2
  <2>4. QED
    BY <2>2, <2>3 DEF ExchangeInv
<1>4. QED
  BY <1>1, <1>2, <1>3 DEF Enter

(* Steps of the transport, of the timer and of a task that stays where it  *)
(* is leave the exchanges alone.                                           *)
LEMMA QuietExchange ==
  ASSUME TInv, ExchangeInv, UNCHANGED <<holder, pending, pc>>,
         state' \in {state, "closed"},
         state' = "closed" /\ state # "closed" => FailPending,
         \A t \in Tasks : future[t] # 0 => future'[t] # 0
  PROVE  ExchangeInv'
<1>1. HolderExchanges' /\ ConnectAlone'
  BY DEF ExchangeInv, HolderExchanges, ConnectAlone, InFlight
<1>2. NobodyWaitsOnClosed'
  <2> SUFFICES ASSUME NEW t \in Tasks, state' = "closed", InFlight(t) PROVE future'[t] # 0
    BY DEF NobodyWaitsOnClosed, InFlight
  <2>1. CASE state = "closed"
    BY <2>1 DEF ExchangeInv, NobodyWaitsOnClosed
  <2>2. CASE state # "closed"
    <3>1. pending = t /\ t # NoTask
      BY TasksAssumption DEF ExchangeInv, HolderExchanges, Tasks
    <3>2. QED
      BY <2>2, <3>1, FailPendingTypes
  <2>3. QED
    BY <2>1, <2>2
<1>3. QED
  BY <1>1, <1>2 DEF ExchangeInv

LEMMA NextExchangeInv == TInv /\ ExchangeInv /\ [Next]_vars => ExchangeInv'
<1> SUFFICES ASSUME TInv, ExchangeInv, [Next]_vars PROVE ExchangeInv'
  OBVIOUS
<1> USE ConnectorIsTask
<1>a. HolderExchanges /\ ConnectAlone
  BY DEF ExchangeInv
(* connect() before its first exchange. *)
<1>b. ASSUME pc[Connector] # "done", UNCHANGED <<holder, pending>>,
             state' = "connecting" \/ (state' = state /\ state # "new"),
             pc' = [pc EXCEPT ![Connector] = "reading"] \/ pc' = [pc EXCEPT ![Connector] = "subscribing"],
             ~InFlight(Connector), UNCHANGED future
      PROVE  ExchangeInv'
  <2>1. \A t \in Senders : pc'[t] = "idle"
    BY <1>a, <1>b DEF ConnectAlone, TInv, TypeOK
  <2>2. \A t \in Tasks : pc'[t] \notin {"pausing", "writing", "waiting"}
    BY <1>b, <2>1 DEF Tasks, TInv, TypeOK
  <2>3. QED
    BY <1>a, <1>b, <2>1, <2>2
       DEF ExchangeInv, HolderExchanges, ConnectAlone, NobodyWaitsOnClosed, InFlight
<1>1. CASE Connect
  <2>1. pc[Connector] = "idle" /\ ~InFlight(Connector)
    BY <1>a, <1>1 DEF Connect, ConnectAlone, InFlight
  <2>2. QED
    BY <1>1, <2>1, <1>b DEF Connect
<1>2. CASE Subscribed
  BY <1>2, <1>a, AloneConnecting, EnterExchange DEF Subscribed
<1>3. CASE ConnectFails
  <2>1. pc[Connector] # "done" /\ End(Connector, "failed")
    BY <1>3 DEF ConnectFails
  <2>2. QED
    BY <2>1, <1>a, AloneConnecting, EndExchange DEF Endings
<1>4. ASSUME NEW f \in {"old", "static", "counter"}, FirmwareRead(f) PROVE ExchangeInv'
  <2>1. pc[Connector] = "reading" /\ ~InFlight(Connector) /\ state # "new"
    BY <1>4, <1>a DEF FirmwareRead, InFlight, ConnectAlone
  <2>2. CASE f = "old"
    <3>1. End(Connector, "refused")
      BY <1>4, <2>2 DEF FirmwareRead
    <3>2. QED
      BY <3>1, <2>1, <1>a, AloneConnecting, EndExchange DEF Endings
  <2>3. CASE f # "old"
    BY <1>4, <2>1, <2>3, <1>b DEF FirmwareRead
  <2>4. QED
    BY <2>2, <2>3
<1>5. ASSUME NEW t \in Senders, NEW k \in Kinds, Send(t, k) PROVE ExchangeInv'
  <2>1. CASE LockFree
    BY <1>5, <2>1, <1>a, AloneByLock, EnterExchange DEF Send, LockFree
  <2>2. CASE ~LockFree
    <3>1. pc[t] = "idle" /\ state = "connected" /\ Queue(t, k)
      BY <1>5, <2>2 DEF Send
    <3>2. pc' = [pc EXCEPT ![t] = "queued"] /\ UNCHANGED <<state, holder, pending, future>>
      BY <3>1 DEF Queue
    <3>3. pc[Connector] = "done" /\ pc'[Connector] = "done"
      BY <3>1, <3>2, <1>a DEF ConnectAlone, TInv, TypeOK
    <3>4. \A u \in Tasks : pc'[u] \in {"pausing", "writing", "waiting"} => pc'[u] = pc[u]
      BY <3>2 DEF TInv, TypeOK
    <3>5. HolderExchanges' /\ NobodyWaitsOnClosed'
      BY <3>1, <3>2, <3>4, <1>a DEF HolderExchanges, NobodyWaitsOnClosed, InFlight
    <3>6. QED
      BY <3>1, <3>2, <3>3, <3>5 DEF ExchangeInv, ConnectAlone
  <2>3. QED
    BY <2>1, <2>2
<1>6. ASSUME NEW t \in Tasks, Acquire(t) PROVE ExchangeInv'
  BY <1>6, <1>a, AloneByLock, EnterExchange DEF Acquire
<1>7. ASSUME NEW t \in Tasks, PauseOver(t) PROVE ExchangeInv'
  <2>1. holder = t
    BY <1>7, <1>a DEF PauseOver, HolderExchanges
  <2>2. QED
    BY <1>7, <2>1, <1>a, AloneByLock, EnterExchange DEF PauseOver
<1>8. ASSUME NEW t \in Tasks, Written(t) PROVE ExchangeInv'
  <2>1. pc[t] = "writing" /\ pc' = [pc EXCEPT ![t] = "waiting"]
        /\ UNCHANGED <<state, holder, pending, future>>
    BY <1>8 DEF Written, sessionVars
  <2>2. \A u \in Tasks : u # t => pc'[u] = pc[u]
    BY <2>1 DEF TInv, TypeOK
  <2>3. HolderExchanges' /\ NobodyWaitsOnClosed'
    BY <2>1, <2>2, <1>a DEF ExchangeInv, HolderExchanges, NobodyWaitsOnClosed, InFlight, TInv, TypeOK
  <2>4. ConnectAlone'
    BY <2>1, <2>2, <1>a DEF ConnectAlone, TInv, TypeOK
  <2>5. QED
    BY <2>3, <2>4 DEF ExchangeInv
(* The task in flight leaves, whichever way its write was cut short. *)
<1>c. ASSUME NEW t \in Tasks, NEW how \in Endings, InFlight(t), LeaveWriting(t, how)
      PROVE  ExchangeInv'
  <2>1. holder = t /\ pc[t] # "idle"
    BY <1>c, <1>a DEF HolderExchanges, InFlight
  <2>2. CASE End(t, how)
    BY <2>1, <2>2, <1>a, AloneByLock, EndExchange
  <2>3. CASE t # Connector /\ pc' = [pc EXCEPT ![t] = "done"] /\ UNCHANGED state
    <3>1. t \in Senders /\ pc'[Connector] = "done"
      BY <2>1, <2>3, <1>a DEF ConnectAlone, Tasks, TInv, TypeOK
    <3>2. \A u \in Tasks : pc'[u] \notin {"pausing", "writing", "waiting"}
      BY <2>1, <2>3, <1>a, AloneByLock DEF Alone, TInv, TypeOK
    <3>3. pc[Connector] = "done"
      BY <3>1, <2>3 DEF TInv, TypeOK
    <3>4. QED
      BY <2>3, <3>1, <3>2, <3>3, <1>a
         DEF ExchangeInv, HolderExchanges, ConnectAlone, NobodyWaitsOnClosed, InFlight
  <2>4. QED
    BY <1>c, <2>2, <2>3 DEF LeaveWriting, Leave
<1>9. ASSUME NEW t \in Tasks, WriteFails(t) PROVE ExchangeInv'
  BY <1>9, <1>c DEF WriteFails, InFlight, Endings
<1>10. ASSUME NEW t \in Tasks, TimeOut(t) PROVE ExchangeInv'
  BY <1>10, <1>c DEF TimeOut, Endings
<1>11. ASSUME NEW t \in Tasks, Cancel(t) PROVE ExchangeInv'
  <2>1. CASE InFlight(t) /\ LeaveWriting(t, "cancelled")
    BY <2>1, <1>c DEF Endings
  <2>2. CASE pc[t] = "pausing" /\ End(t, "cancelled")
    BY <2>2, <1>a, AloneByLock, EndExchange DEF HolderExchanges, Endings
  <2>3. CASE /\ pc[t] = "queued" /\ End(t, "cancelled")
             /\ UNCHANGED <<holder, pending, future>>
    <3>1. pc' = [pc EXCEPT ![t] = "done"]
      BY <2>3 DEF End
    <3>2. CASE t = Connector
      <4>1. Alone(t)
        BY <2>3, <3>2, <1>a, AloneConnecting
      <4>2. QED
        BY <2>3, <3>2, <4>1, EndExchange DEF Endings
    <3>3. CASE t # Connector
      <4>1. t \in Senders /\ state' = state /\ pc'[Connector] = pc[Connector]
        BY <2>3, <3>1, <3>3 DEF End, Tasks, TInv, TypeOK
      <4>2. \A u \in Tasks : pc'[u] \in {"pausing", "writing", "waiting"} => pc'[u] = pc[u]
        BY <3>1 DEF TInv, TypeOK
      <4>3. pc[Connector] = "done"
        BY <2>3, <4>1, <1>a DEF ConnectAlone
      <4>4. QED
        BY <2>3, <4>1, <4>2, <4>3, <1>a
           DEF ExchangeInv, HolderExchanges, ConnectAlone, NobodyWaitsOnClosed, InFlight
    <3>4. QED
      BY <3>2, <3>3
  <2>4. QED
    BY <1>11, <2>1, <2>2, <2>3 DEF Cancel, InExchange, InFlight
<1>12. ASSUME NEW t \in Tasks, Answered(t) PROVE ExchangeInv'
  <2>1. pc[t] = "waiting" /\ holder = t /\ Alone(t)
    BY <1>12, <1>a, AloneByLock DEF Answered, HolderExchanges
  <2>2. PICK how \in Verdict(t) : (t = Connector /\ ConnectGoesOn) \/ End(t, how)
    BY <1>12 DEF Answered
  <2>3. CASE End(t, how)
    BY <2>1, <2>2, <2>3, EndExchange DEF Verdict, Endings
  <2>4. CASE t = Connector /\ ConnectGoesOn
    <3>1. state # "new" /\ \A u \in Senders : pc[u] = "idle"
      BY <2>1, <2>4, <1>a DEF ConnectAlone
    <3>2. CASE End(Connector, "refused")
      BY <2>1, <2>4, <3>2, EndExchange DEF Endings
    <3>3. CASE /\ pc' = [pc EXCEPT ![Connector] = "pausing"] /\ holder' = Connector
               /\ UNCHANGED state
      <4>1. pc'[Connector] = "pausing" /\ \A u \in Senders : pc'[u] = "idle"
        BY <3>1, <3>3 DEF TInv, TypeOK
      <4>2. ConnectAlone'
        BY <2>1, <2>4, <3>1, <3>3, <4>1, <1>a DEF ConnectAlone
      <4>3. HolderExchanges' /\ NobodyWaitsOnClosed'
        BY <3>3, <4>1 DEF HolderExchanges, NobodyWaitsOnClosed, InFlight, Tasks
      <4>4. QED
        BY <4>2, <4>3 DEF ExchangeInv
    <3>4. CASE pc' = [pc EXCEPT ![Connector] = "done"] /\ state' = "connected"
      <4>1. pc'[Connector] = "done" /\ \A u \in Senders : pc'[u] = "idle"
        BY <3>1, <3>4 DEF TInv, TypeOK
      <4>2. QED
        BY <3>4, <4>1
           DEF ExchangeInv, HolderExchanges, ConnectAlone, NobodyWaitsOnClosed, InFlight, Tasks
    <3>5. QED
      BY <2>4, <3>2, <3>3, <3>4 DEF ConnectGoesOn
  <2>5. QED
    BY <2>2, <2>3, <2>4
<1>13. ASSUME NEW t \in Tasks, Failed(t) PROVE ExchangeInv'
  BY <1>13, <1>a, AloneByLock, EndExchange DEF Failed, Leave, HolderExchanges, Endings
<1>14. CASE HoldExpires \/ LockReads \/ UNCHANGED vars
  BY <1>14, QuietExchange DEF HoldExpires, LockReads, vars, sessionVars, taskVars
<1>15. CASE Notification
  <2>1. \A t \in Tasks : future[t] # 0 => future'[t] # 0
    BY <1>15 DEF Notification, TInv, TypeOK
  <2>2. QED
    BY <1>15, <2>1, QuietExchange DEF Notification, sessionVars
<1>16. CASE Disconnect \/ Close
  <2>1. FailPending \/ UNCHANGED future
    BY <1>16 DEF Disconnect, Close
  <2>2. \A t \in Tasks : future[t] # 0 => future'[t] # 0
    BY <2>1, FailPendingTypes
  <2>3. QED
    BY <1>16, <2>2, QuietExchange DEF Disconnect, Close
<1>17. QED
  BY <1>1, <1>2, <1>3, <1>4, <1>5, <1>6, <1>7, <1>8, <1>9, <1>10, <1>11, <1>12, <1>13,
     <1>14, <1>15, <1>16 DEF Next

LEMMA SpecExchangeInv == Spec => []ExchangeInv
<1>1. Init => ExchangeInv
  BY DEF Init, ExchangeInv, HolderExchanges, ConnectAlone, NobodyWaitsOnClosed, InFlight, Tasks
<1>2. QED
  BY <1>1, NextExchangeInv, SpecTInv, PTL DEF Spec

(* _command_lock does its work from the pause to the answer: at most one   *)
(* task at a time is pausing before its command, writing it or waiting for *)
(* its answer, connect() included, which takes the lock like any caller.   *)
THEOREM OneExchangeAtATime == Spec => [](\A t \in Tasks : holder = t => Alone(t))
<1>1. ExchangeInv => \A t \in Tasks : holder = t => Alone(t)
  BY AloneByLock DEF ExchangeInv
<1>2. QED
  BY <1>1, SpecExchangeInv, PTL

(* Whenever the session is closed, by its owner, by a lost link or by a    *)
(* failing connect(), the command in flight has its error or its answer:   *)
(* nobody waits for the response timeout of a session that is gone.        *)
THEOREM ClosingReachesEveryone == Spec => []NobodyWaitsOnClosed
<1>1. ExchangeInv => NobodyWaitsOnClosed
  BY DEF ExchangeInv
<1>2. QED
  BY <1>1, SpecExchangeInv, PTL

(* Who has _command_lock is in an exchange, and the pending command is one *)
(* that is being written or waits.                                         *)
LockInUse ==
  /\ holder # NoTask => pc[holder] \in {"pausing", "writing", "waiting"}
  /\ pending # NoTask => InFlight(pending)

(* One task moves on: with the lock, or leaving whatever it has. *)
LEMMA MovesOn ==
  ASSUME TInv, LockInUse, NEW t \in Tasks, NEW place, pc' = [pc EXCEPT ![t] = place],
         \/ holder' = NoTask
         \/ holder' = holder /\ holder # t
         \/ holder' = t /\ place \in {"pausing", "writing", "waiting"},
         \/ pending' = NoTask
         \/ pending' = pending /\ pending # t
         \/ pending' = t /\ place \in {"writing", "waiting"}
  PROVE  LockInUse'
BY TasksAssumption DEF TInv, TypeOK, LockInUse, InFlight, Tasks

(* One task ends and gives up the lock. *)
LEMMA EndsInUse ==
  ASSUME TInv, LockInUse, NEW t \in Tasks, pc' = [pc EXCEPT ![t] = "done"], holder' = NoTask,
         pending' = NoTask \/ (pending' = pending /\ pending # t)
  PROVE  LockInUse'
BY TasksAssumption DEF TInv, TypeOK, LockInUse, InFlight, Tasks

LEMMA EnterInUse ==
  ASSUME TInv, LockInUse, NEW t \in Tasks, NEW k, Enter(t, k), ~InFlight(t)
  PROVE  LockInUse'
<1>1. pending # t
  BY TasksAssumption DEF LockInUse, Tasks
<1>2. CASE End(t, "refused") /\ holder' = NoTask /\ UNCHANGED pending
  BY <1>1, <1>2, EndsInUse DEF End
<1>3. CASE Start(t, k)
  <2>1. pc' = [pc EXCEPT ![t] = "writing"] /\ holder' = t /\ pending' = t
    BY <1>3 DEF Start
  <2>2. QED
    BY <2>1, MovesOn
<1>4. CASE holder' = t /\ pc' = [pc EXCEPT ![t] = "pausing"] /\ UNCHANGED pending
  BY <1>1, <1>4, MovesOn
<1>5. QED
  BY <1>2, <1>3, <1>4 DEF Enter

LEMMA LeaveInUse ==
  ASSUME TInv, LockInUse, NEW t \in Tasks, NEW how, LeaveWriting(t, how)
  PROVE  LockInUse'
<1>1. pc' = [pc EXCEPT ![t] = "done"] /\ holder' = NoTask /\ pending' = NoTask
  BY DEF LeaveWriting, Leave, End
<1>2. QED
  BY <1>1, EndsInUse

LEMMA NextLockInUse == TInv /\ ExchangeInv /\ LockInUse /\ [Next]_vars => LockInUse'
<1> SUFFICES ASSUME TInv, ExchangeInv, LockInUse, [Next]_vars PROVE LockInUse'
  OBVIOUS
<1> USE ConnectorIsTask
(* A task outside every exchange moves on and takes nothing. *)
<1>a. ASSUME NEW t \in Tasks, NEW place, pc[t] \notin {"pausing", "writing", "waiting"},
             pc' = [pc EXCEPT ![t] = place], UNCHANGED <<holder, pending>>
      PROVE  LockInUse'
  <2>1. holder # t /\ pending # t
    BY <1>a, TasksAssumption DEF LockInUse, InFlight, Tasks
  <2>2. QED
    BY <1>a, <2>1, MovesOn
<1>1. CASE Connect
  <2>1. pc[Connector] = "idle"
    BY <1>1 DEF Connect, ExchangeInv, ConnectAlone
  <2>2. QED
    BY <1>1, <2>1, <1>a DEF Connect
<1>2. CASE Subscribed
  BY <1>2, EnterInUse DEF Subscribed, InFlight
<1>3. CASE ConnectFails
  BY <1>3, <1>a DEF ConnectFails, End
<1>4. ASSUME NEW f \in {"old", "static", "counter"}, FirmwareRead(f) PROVE LockInUse'
  <2>1. /\ pc[Connector] = "reading" /\ UNCHANGED <<holder, pending>>
        /\ pc' = [pc EXCEPT ![Connector] = "done"] \/ pc' = [pc EXCEPT ![Connector] = "subscribing"]
    BY <1>4 DEF FirmwareRead, End
  <2>2. QED
    BY <2>1, <1>a
<1>5. ASSUME NEW t \in Senders, NEW k \in Kinds, Send(t, k) PROVE LockInUse'
  <2>1. CASE Enter(t, k)
    BY <1>5, <2>1, EnterInUse DEF Send, InFlight
  <2>2. CASE Queue(t, k)
    BY <1>5, <2>2, <1>a DEF Send, Queue
  <2>3. QED
    BY <1>5, <2>1, <2>2 DEF Send
<1>6. ASSUME NEW t \in Tasks, Acquire(t) \/ PauseOver(t) PROVE LockInUse'
  BY <1>6, EnterInUse DEF Acquire, PauseOver, InFlight
<1>7. ASSUME NEW t \in Tasks, Written(t) PROVE LockInUse'
  <2>1. /\ pc[t] = "writing" /\ pc' = [pc EXCEPT ![t] = "waiting"] /\ UNCHANGED <<holder, pending>>
    BY <1>7 DEF Written, sessionVars
  <2>2. holder = t /\ pending = t
    BY <2>1 DEF ExchangeInv, HolderExchanges, InFlight
  <2>3. QED
    BY <2>1, <2>2, MovesOn
<1>8. ASSUME NEW t \in Tasks, WriteFails(t) \/ TimeOut(t) PROVE LockInUse'
  BY <1>8, LeaveInUse DEF WriteFails, TimeOut
<1>9. ASSUME NEW t \in Tasks, Cancel(t) PROVE LockInUse'
  <2>1. CASE LeaveWriting(t, "cancelled")
    BY <2>1, LeaveInUse
  <2>2. CASE pc[t] = "pausing" /\ End(t, "cancelled") /\ holder' = NoTask /\ UNCHANGED pending
    <3>1. pending # t
      BY <2>2, TasksAssumption DEF LockInUse, InFlight, Tasks
    <3>2. QED
      BY <2>2, <3>1, EndsInUse DEF End
  <2>3. CASE pc[t] = "queued" /\ End(t, "cancelled") /\ UNCHANGED <<holder, pending>>
    BY <2>3, <1>a DEF End
  <2>4. QED
    BY <1>9, <2>1, <2>2, <2>3 DEF Cancel, InExchange, InFlight
<1>10. ASSUME NEW t \in Tasks, Answered(t) PROVE LockInUse'
  <2>1. pending' = NoTask
    BY <1>10 DEF Answered
  <2>2. CASE t = Connector /\ ConnectGoesOn
    <3>1. \/ holder' = NoTask /\ pc' = [pc EXCEPT ![t] = "done"]
          \/ holder' = t /\ pc' = [pc EXCEPT ![t] = "pausing"]
      BY <2>2 DEF ConnectGoesOn, End
    <3>2. CASE holder' = NoTask /\ pc' = [pc EXCEPT ![t] = "done"]
      BY <2>1, <3>2, EndsInUse
    <3>3. CASE holder' = t /\ pc' = [pc EXCEPT ![t] = "pausing"]
      BY <2>1, <3>3, MovesOn
    <3>4. QED
      BY <3>1, <3>2, <3>3
  <2>3. CASE \E how \in Verdict(t) : End(t, how) /\ holder' = NoTask
    BY <2>1, <2>3, EndsInUse DEF End
  <2>4. QED
    BY <1>10, <2>2, <2>3 DEF Answered
<1>11. ASSUME NEW t \in Tasks, Failed(t) PROVE LockInUse'
  BY <1>11, LeaveInUse DEF Failed, LeaveWriting
<1>12. CASE HoldExpires \/ LockReads \/ Notification \/ Disconnect \/ Close \/ UNCHANGED vars
  BY <1>12
     DEF HoldExpires, LockReads, Notification, Disconnect, Close, vars, sessionVars, taskVars, LockInUse, InFlight
<1>13. QED
  BY <1>1, <1>2, <1>3, <1>4, <1>5, <1>6, <1>7, <1>8, <1>9, <1>10, <1>11, <1>12 DEF Next

(* However an exchange ends (its answer, its timeout, a write that fails,  *)
(* a cancelled call in a pause or in the middle of a write, a session that *)
(* closes), it leaves _command_lock and _pending behind for nobody: a      *)
(* caller in the queue finds the lock free or waits for an exchange that   *)
(* is still under way.  It is the part of EveryExchangeEnds that needs no  *)
(* fairness.                                                               *)
THEOREM LockNeverLeftBehind == Spec => []LockInUse
<1>1. Init => LockInUse
  BY DEF Init, LockInUse
<1>2. QED
  BY <1>1, NextLockInUse, SpecTInv, SpecExchangeInv, PTL DEF Spec
-----------------------------------------------------------------------------
(***************************************************************************)
(* Whose answer completes a command.                                       *)
(***************************************************************************)

(* Command n, or its answer, is on its way. *)
InAir(n) == \/ \E i \in 1..Len(toLock)  : toLock[i] = n
            \/ \E i \in 1..Len(answers) : answers[i] = n

(* Nothing is sent before the firmware is known. *)
FirmwareFirst ==
  /\ pc[Connector] \in {"idle", "reading"} => firmware = "unread"
  /\ firmware \in {"unread", "old"} =>
       /\ sent = <<>> /\ nextRef = 1 /\ hold = "none" /\ state # "connected"
       /\ \A t \in Tasks : pc[t] \notin InExchange \cup {"subscribing"}

(* Under the counter a command's place in sent tells its ref, but for full *)
(* turns of the counter.                                                   *)
RefsInTurn ==
  firmware = "counter" =>
    /\ \E q \in Int : Len(sent) + 1 = nextRef + q * RefLimit
    /\ \A i \in Positions : \E q \in Int : i = sent[i].ref + q * RefLimit

(* The pending command is the last one sent, by a task in flight; and a    *)
(* task in flight has sat out every pause.                                 *)
PendingIsLast ==
  /\ pending # NoTask => InFlight(pending) /\ current[pending] = Len(sent)
  /\ \A t \in Tasks :
       /\ current[t] \in Positions => sent[current[t]].by = t
       /\ InFlight(t) => hold = "none"
       /\ pc[t] = "done" <=> outcome[t] # "none"

(* A link that is down carries nothing, and is the only source of errors.  *)
DownCarriesNothing ==
  /\ link # "up" => toLock = <<>> /\ answers = <<>>
  /\ \A t \in Tasks : future[t] = Lost => link # "up"

(* Nothing is on its way twice. *)
AirDistinct ==
  /\ \A i, j \in 1..Len(toLock) : i # j => toLock[i] # toLock[j]
  /\ \A i, j \in 1..Len(answers) : i # j => answers[i] # answers[j]
  /\ \A i \in 1..Len(toLock), j \in 1..Len(answers) : toLock[i] # answers[j]

(* A command is not on its way before it is written, nor after it has been *)
(* completed by its own answer.                                            *)
OnceInAir ==
  /\ AirDistinct
  /\ \A t \in Tasks :
       /\ pc[t] = "writing" \/ (InFlight(t) /\ future[t] = current[t]) => ~InAir(current[t])
       /\ pc[t] = "writing" => future[t] # current[t]

(* Some command was given up on without waiting for its answer. *)
GivenUp == \E m \in Positions : outcome[sent[m].by] \in Abandoned

(* Under the static ref, what is still on its way belongs to the command   *)
(* in flight, to one that timed out and whose grace period is not over, or *)
(* comes after a command that was given up on.                             *)
LateExplained ==
  firmware = "static" =>
    /\ hold = "grace" => \E m \in Positions : outcome[sent[m].by] = "timeout"
    /\ \A n \in Positions : InAir(n) =>
         (pending # NoTask /\ n = Len(sent)) \/ hold = "grace" \/ GivenUp

LateInv == PendingIsLast /\ DownCarriesNothing /\ OnceInAir /\ LateExplained /\ AnswersAreOwn

AnswerInv == FirmwareFirst /\ RefsInTurn /\ LateInv

LEMMA NextFirmwareFirst == TInv /\ ExchangeInv /\ FirmwareFirst /\ [Next]_vars => FirmwareFirst'
<1> SUFFICES ASSUME TInv, ExchangeInv, FirmwareFirst, [Next]_vars PROVE FirmwareFirst'
  OBVIOUS
<1> USE ConnectorIsTask
<1>1. CASE Connect
  BY <1>1 DEF Connect, FirmwareFirst, ExchangeInv, ConnectAlone, TInv, TypeOK, InExchange
<1>2. ASSUME NEW f \in {"old", "static", "counter"}, FirmwareRead(f) PROVE FirmwareFirst'
  <2>1. /\ firmware = "unread" /\ firmware' = f /\ UNCHANGED <<sent, nextRef>>
        /\ pc[Connector] = "reading" /\ hold' = hold
        /\ pc'[Connector] \in {"done", "subscribing"}
    BY <1>2 DEF FirmwareRead, FirmwareFirst, End, TInv, TypeOK
  <2>2. CASE f = "old"
    <3>1. pc' = [pc EXCEPT ![Connector] = "done"] /\ state' = "closed"
      BY <1>2, <2>2 DEF FirmwareRead, End
    <3>2. QED
      BY <2>1, <2>2, <3>1 DEF FirmwareFirst, TInv, TypeOK, InExchange
  <2>3. QED
    BY <2>1, <2>2 DEF FirmwareFirst
<1>3. CASE HoldExpires \/ LockReads \/ Notification \/ UNCHANGED vars
  BY <1>3 DEF HoldExpires, LockReads, Notification, vars, sessionVars, taskVars, FirmwareFirst
<1>4. CASE Disconnect \/ Close
  BY <1>4 DEF Disconnect, Close, FirmwareFirst
<1>5. CASE ConnectFails
  <2>1. pc' = [pc EXCEPT ![Connector] = "done"] /\ state' = "closed" /\ UNCHANGED <<firmware, sent, nextRef, hold>>
    BY <1>5 DEF ConnectFails, End
  <2>2. QED
    BY <2>1 DEF FirmwareFirst, TInv, TypeOK, InExchange
(* Whoever takes any other step has read a supported firmware. *)
<1>a. ASSUME firmware \notin {"unread", "old"}, firmware' = firmware, pc'[Connector] \notin {"idle", "reading"}
      PROVE  FirmwareFirst'
  BY <1>a DEF FirmwareFirst
<1>b. firmware \notin {"unread", "old"} => pc[Connector] \notin {"idle", "reading"}
  BY DEF FirmwareFirst
<1>6. CASE Subscribed
  <2>1. firmware \notin {"unread", "old"} /\ firmware' = firmware
    BY <1>6 DEF Subscribed, FirmwareFirst
  <2>2. pc'[Connector] \notin {"idle", "reading"}
    BY <1>6 DEF Subscribed, Enter, Start, End, TInv, TypeOK
  <2>3. QED
    BY <2>1, <2>2, <1>a
<1>7. ASSUME NEW t \in Senders, NEW k \in Kinds, Send(t, k) PROVE FirmwareFirst'
  <2>1. firmware \notin {"unread", "old"} /\ firmware' = firmware
    BY <1>7 DEF Send, FirmwareFirst
  <2>2. pc'[Connector] = pc[Connector]
    BY <1>7 DEF Send, Enter, Queue, Start, End, TInv, TypeOK
  <2>3. QED
    BY <2>1, <2>2, <1>a, <1>b
<1>8. ASSUME NEW t \in Tasks,
             Acquire(t) \/ PauseOver(t) \/ Written(t) \/ WriteFails(t) \/ TimeOut(t) \/ Cancel(t)
             \/ Answered(t) \/ Failed(t)
      PROVE  FirmwareFirst'
  <2>1. pc[t] \in InExchange
    BY <1>8 DEF Acquire, PauseOver, Written, WriteFails, TimeOut, Cancel, Answered, Failed, InFlight, InExchange
  <2>2. firmware \notin {"unread", "old"}
    BY <2>1 DEF FirmwareFirst
  <2>3. firmware' = firmware
    BY <1>8 DEF Acquire, PauseOver, Written, WriteFails, TimeOut, Cancel, Answered, Failed, sessionVars
  <2>4. pc'[Connector] = pc[Connector] \/ pc'[Connector] \in {"writing", "pausing", "waiting", "done"}
    <3>1. CASE Acquire(t) \/ PauseOver(t)
      BY <3>1 DEF Acquire, PauseOver, Enter, Start, End, TInv, TypeOK
    <3>2. CASE Written(t) \/ WriteFails(t) \/ TimeOut(t) \/ Cancel(t) \/ Failed(t)
      BY <3>2 DEF Written, WriteFails, TimeOut, Cancel, Failed, LeaveWriting, Leave, End, TInv, TypeOK
    <3>3. CASE Answered(t)
      BY <3>3 DEF Answered, ConnectGoesOn, End, TInv, TypeOK
    <3>4. QED
      BY <1>8, <3>1, <3>2, <3>3
  <2>5. QED
    BY <2>2, <2>3, <2>4, <1>a, <1>b
<1>9. QED
  BY <1>1, <1>2, <1>3, <1>4, <1>5, <1>6, <1>7, <1>8 DEF Next

(* Whatever a step is, it puts a command behind the others, alone on the   *)
(* lock and with no pause left, or leaves the commands sent as they are.   *)
LEMMA SentSteps ==
  ASSUME TInv, ExchangeInv, FirmwareFirst, [Next]_vars
  PROVE  \/ \E t \in Tasks, k \in AllKinds :
              /\ Start(t, k) /\ hold = "none" /\ Alone(t) /\ ~InFlight(t) /\ pc[t] # "done"
              /\ UNCHANGED <<firmware, overran, hold>>
         \/ /\ UNCHANGED <<nextRef, sent, current>>
            /\ firmware' = firmware \/ (sent = <<>> /\ nextRef = 1)
<1> DEFINE Starts == \E t \in Tasks, k \in AllKinds :
              /\ Start(t, k) /\ hold = "none" /\ Alone(t) /\ ~InFlight(t) /\ pc[t] # "done"
              /\ UNCHANGED <<firmware, overran, hold>>
           Stays == /\ UNCHANGED <<nextRef, sent, current>>
                    /\ firmware' = firmware \/ (sent = <<>> /\ nextRef = 1)
<1> USE ConnectorIsTask
<1>a. HolderExchanges /\ ConnectAlone
  BY DEF ExchangeInv
<1>b. ASSUME NEW t \in Tasks, NEW k \in AllKinds, Enter(t, k), Alone(t),
             pc[t] \in {"idle", "subscribing", "queued", "pausing"}, UNCHANGED <<firmware, overran, cipher, hold>>
      PROVE  Starts \/ Stays
  <2>1. CASE hold = "none" /\ Start(t, k)
    BY <2>1, <1>b DEF InFlight
  <2>2. CASE UNCHANGED <<nextRef, sent, current>>
    BY <2>2, <1>b
  <2>3. QED
    BY <1>b, <2>1, <2>2 DEF Enter
<1>1. CASE Connect \/ ConnectFails
  BY <1>1 DEF Connect, ConnectFails
<1>2. ASSUME NEW f \in {"old", "static", "counter"}, FirmwareRead(f) PROVE Stays
  BY <1>2 DEF FirmwareRead, FirmwareFirst
<1>3. CASE Subscribed
  BY <1>3, <1>a, <1>b, AloneConnecting DEF Subscribed, AllKinds
<1>4. ASSUME NEW t \in Senders, NEW k \in Kinds, Send(t, k) PROVE Starts \/ Stays
  <2>1. CASE LockFree
    BY <2>1, <1>4, <1>a, <1>b, AloneByLock DEF Send, LockFree, AllKinds
  <2>2. CASE ~LockFree
    BY <2>2, <1>4 DEF Send, Queue
  <2>3. QED
    BY <2>1, <2>2
<1>5. ASSUME NEW t \in Tasks, Acquire(t) \/ PauseOver(t) PROVE Starts \/ Stays
  <2>1. holder \in {t, NoTask} /\ Enter(t, asked[t]) /\ pc[t] \in {"queued", "pausing"}
        /\ UNCHANGED <<firmware, overran, cipher, hold>>
    BY <1>5, <1>a DEF Acquire, PauseOver, HolderExchanges
  <2>2. asked[t] \in AllKinds
    BY DEF TInv, TypeOK
  <2>3. QED
    BY <2>1, <2>2, <1>a, <1>b, AloneByLock
<1>6. ASSUME NEW t \in Tasks,
             Written(t) \/ WriteFails(t) \/ TimeOut(t) \/ Cancel(t) \/ Answered(t) \/ Failed(t)
      PROVE  Stays
  BY <1>6 DEF Written, WriteFails, TimeOut, Cancel, Answered, Failed, sessionVars
<1>7. CASE HoldExpires \/ LockReads \/ Notification \/ Disconnect \/ Close \/ UNCHANGED vars
  BY <1>7 DEF HoldExpires, LockReads, Notification, Disconnect, Close, vars, sessionVars, taskVars
<1>8. QED
  BY <1>1, <1>2, <1>3, <1>4, <1>5, <1>6, <1>7 DEF Next

(* A command put behind the others: the ones before it keep their places.  *)
LEMMA StartSent ==
  ASSUME TInv, NEW t \in Tasks, NEW k \in AllKinds, Start(t, k)
  PROVE  /\ Len(sent) \in Nat /\ Len(sent') = Len(sent) + 1
         /\ Positions' = Positions \cup {Len(sent) + 1}
         /\ \A i \in Positions : sent'[i] = sent[i]
         /\ sent'[Len(sent) + 1] = [by |-> t, kind |-> k,
                                   ref |-> IF firmware = "static" THEN StaticRef ELSE nextRef]
<1> DEFINE c == [by |-> t, kind |-> k, ref |-> IF firmware = "static" THEN StaticRef ELSE nextRef]
<1>1. nextRef \in 1..RefLimit /\ RefLimit \in Nat
  BY RefAssumption DEF TInv, TypeOK
<1>2. c \in Commands
  BY <1>1 DEF Commands, StaticRef
<1>3. sent \in Seq(Commands) /\ sent' = Append(sent, c)
  BY DEF Start, TInv, TypeOK
<1>4. QED
  BY <1>2, <1>3, AppendProperties, LenProperties DEF Positions

(* The counter wraps by a full turn. *)
LEMMA RefTurns ==
  ASSUME NEW r \in 1..RefLimit, NEW m \in Nat, NEW q \in Int, m = r + q * RefLimit
  PROVE  \E p \in Int : m + 1 = RefAfter(r) + p * RefLimit
<1>0. RefLimit \in Nat \ {0}
  BY RefAssumption
<1>1. CASE r + 1 <= RefLimit
  <2>1. m + 1 = RefAfter(r) + q * RefLimit
    BY <1>0, <1>1 DEF RefAfter
  <2>2. QED
    BY <2>1
<1>2. CASE r + 1 > RefLimit
  <2>1. r = RefLimit /\ RefAfter(r) = 1
    BY <1>0, <1>2 DEF RefAfter
  <2>2. (q + 1) * RefLimit = q * RefLimit + RefLimit
    BY <1>0
  <2>3. m + 1 = RefAfter(r) + (q + 1) * RefLimit
    BY <1>0, <2>1, <2>2
  <2>4. QED
    BY <2>3
<1>3. QED
  BY <1>0, <1>1, <1>2

LEMMA NextRefsInTurn ==
  TInv /\ ExchangeInv /\ FirmwareFirst /\ RefsInTurn /\ [Next]_vars => RefsInTurn'
<1> SUFFICES ASSUME TInv, ExchangeInv, FirmwareFirst, RefsInTurn, [Next]_vars, firmware' = "counter"
             PROVE  RefsInTurn'
  BY DEF RefsInTurn
<1>0. RefLimit \in Nat \ {0}
  BY RefAssumption
<1>1. ASSUME NEW t \in Tasks, NEW k \in AllKinds, Start(t, k), firmware' = firmware
      PROVE  RefsInTurn'
  <2>1. PICK q \in Int : Len(sent) + 1 = nextRef + q * RefLimit
    BY <1>1 DEF RefsInTurn
  <2>2. nextRef' = RefAfter(nextRef) /\ nextRef \in 1..RefLimit
    BY <1>1 DEF Start, TInv, TypeOK
  <2>f. firmware = "counter"
    BY <1>1
  <2>s. /\ Len(sent) \in Nat /\ Len(sent') = Len(sent) + 1
        /\ Positions' = Positions \cup {Len(sent) + 1}
        /\ \A i \in Positions : sent'[i] = sent[i]
        /\ sent'[Len(sent) + 1] = [by |-> t, kind |-> k, ref |-> nextRef]
    BY <1>1, <2>f, StartSent
  <2>3. \E p \in Int : Len(sent') + 1 = nextRef' + p * RefLimit
    <3>1. \E p \in Int : (Len(sent) + 1) + 1 = RefAfter(nextRef) + p * RefLimit
      BY <2>1, <2>2, <2>s, RefTurns
    <3>2. QED
      BY <2>2, <2>s, <3>1
  <2>4. \A i \in Positions' : \E p \in Int : i = sent'[i].ref + p * RefLimit
    <3>1. ASSUME NEW i \in Positions PROVE \E p \in Int : i = sent'[i].ref + p * RefLimit
      BY <1>1, <2>s DEF RefsInTurn
    <3>2. sent'[Len(sent) + 1].ref = nextRef
      BY <2>s
    <3>3. QED
      BY <3>1, <3>2, <2>1, <2>s
  <2>5. QED
    BY <2>3, <2>4 DEF RefsInTurn
<1>2. CASE UNCHANGED <<nextRef, sent>> /\ firmware' = firmware
  BY <1>2 DEF RefsInTurn, Positions
<1>3. CASE UNCHANGED <<nextRef, sent>> /\ sent = <<>> /\ nextRef = 1
  <2>1. Len(sent) = 0 /\ Positions' = {}
    BY <1>3, EmptySeq DEF Positions
  <2>2. Len(sent') + 1 = nextRef' + 0 * RefLimit
    BY <1>0, <1>3, <2>1
  <2>3. QED
    BY <2>1, <2>2 DEF RefsInTurn
<1>4. QED
  BY <1>1, <1>2, <1>3, SentSteps

(* Two commands with one ref are full turns of the counter apart. *)
LEMMA SameRefFullTurns ==
  ASSUME TInv, RefsInTurn, firmware = "counter", NEW n \in Positions, NEW c \in Positions,
         sent[n].ref = sent[c].ref
  PROVE  (c - n) % RefLimit = 0
<1>0. RefLimit \in Nat \ {0} /\ n \in Int /\ c \in Int
  BY RefAssumption DEF Positions
<1>1. PICK q \in Int : n = sent[n].ref + q * RefLimit
  BY DEF RefsInTurn
<1>2. PICK p \in Int : c = sent[c].ref + p * RefLimit
  BY DEF RefsInTurn
<1>3. sent[n].ref \in Int
  <2>1. sent[n] \in Commands
    BY ElementOfSeq DEF TInv, TypeOK, Positions
  <2>2. QED
    BY <2>1, RefAssumption DEF Commands
<1>4. (p - q) * RefLimit = p * RefLimit - q * RefLimit
  BY <1>0
<1>5. c - n = (p - q) * RefLimit
  <2> DEFINE x == p * RefLimit
             y == q * RefLimit
  <2>1. x \in Int /\ y \in Int
    BY <1>0
  <2>2. c - n = x - y
    <3> HIDE DEF x, y
    <3>1. n = sent[n].ref + y /\ c = sent[n].ref + x
      BY <1>1, <1>2 DEF x, y
    <3>2. QED
      BY <1>0, <1>3, <2>1, <3>1
  <2>3. QED
    BY <1>4, <2>2
<1>6. ((p - q) * RefLimit) % RefLimit = 0
  BY <1>0, Z3
<1>7. QED
  BY <1>5, <1>6

(* What a step may do to the messages on their way: add a written command, *)
(* let the lock read one, let the host hear one, or drop them all.         *)
LEMMA AirAppend ==
  ASSUME TInv, AirDistinct, NEW n \in Positions, ~InAir(n),
         toLock' = Append(toLock, n), answers' = answers
  PROVE  AirDistinct' /\ \A m : InAir(m)' => InAir(m) \/ m = n
<1>1. /\ Len(toLock) \in Nat /\ Len(toLock') = Len(toLock) + 1
      /\ \A i \in 1..Len(toLock) : toLock'[i] = toLock[i]
      /\ toLock'[Len(toLock) + 1] = n
  BY AppendProperties, LenProperties DEF TInv, TypeOK
<1>2. \A i \in 1..Len(toLock') : i \in 1..Len(toLock) \/ i = Len(toLock) + 1
  BY <1>1
<1>3. QED
  BY <1>1, <1>2 DEF AirDistinct, InAir

LEMMA AirReads ==
  ASSUME TInv, AirDistinct, LockReads
  PROVE  AirDistinct' /\ \A m : InAir(m)' => InAir(m)
<1>1. /\ Len(toLock) \in Nat /\ Len(toLock') = Len(toLock) - 1 /\ 1 \in 1..Len(toLock)
      /\ \A i \in 1..Len(toLock') : toLock'[i] = toLock[i + 1] /\ i + 1 \in 1..Len(toLock)
      /\ Head(toLock) = toLock[1] /\ Head(toLock) \in Positions
  BY HeadTailProperties, LenProperties, EmptySeq DEF LockReads, TInv, TypeOK
<1>2. CASE answers' = answers
  BY <1>1, <1>2 DEF AirDistinct, InAir
<1>3. CASE answers' = Append(answers, Head(toLock))
  <2>1. /\ Len(answers) \in Nat /\ Len(answers') = Len(answers) + 1
        /\ \A i \in 1..Len(answers) : answers'[i] = answers[i]
        /\ answers'[Len(answers) + 1] = toLock[1]
    BY <1>1, <1>3, AppendProperties, LenProperties DEF TInv, TypeOK
  <2>2. \A i \in 1..Len(answers') : i \in 1..Len(answers) \/ i = Len(answers) + 1
    BY <2>1
  <2>3. \A i, j \in 1..Len(toLock') : i # j => toLock'[i] # toLock'[j]
    BY <1>1 DEF AirDistinct
  <2>4. \A i, j \in 1..Len(answers') : i # j => answers'[i] # answers'[j]
    BY <1>1, <2>1, <2>2 DEF AirDistinct
  <2>5. \A i \in 1..Len(toLock'), j \in 1..Len(answers') : toLock'[i] # answers'[j]
    <3> SUFFICES ASSUME NEW i \in 1..Len(toLock'), NEW j \in 1..Len(answers')
                 PROVE  toLock'[i] # answers'[j]
      OBVIOUS
    <3>1. toLock'[i] = toLock[i + 1] /\ i + 1 \in 1..Len(toLock) /\ i + 1 # 1
      BY <1>1
    <3>2. QED
      BY <1>1, <2>1, <2>2, <3>1 DEF AirDistinct
  <2>6. \A m : InAir(m)' => InAir(m)
    BY <1>1, <2>1, <2>2 DEF InAir
  <2>7. QED
    BY <2>3, <2>4, <2>5, <2>6 DEF AirDistinct
<1>4. QED
  BY <1>2, <1>3 DEF LockReads

LEMMA AirHears ==
  ASSUME TInv, AirDistinct, Notification
  PROVE  /\ AirDistinct'
         /\ \A m : InAir(m)' => InAir(m) /\ m # Head(answers)
         /\ Head(answers) \in Positions /\ InAir(Head(answers))
<1>1. /\ Len(answers) \in Nat /\ Len(answers') = Len(answers) - 1 /\ 1 \in 1..Len(answers)
      /\ \A i \in 1..Len(answers') : answers'[i] = answers[i + 1] /\ i + 1 \in 1..Len(answers)
      /\ Head(answers) = answers[1] /\ Head(answers) \in Positions
      /\ toLock' = toLock
  BY HeadTailProperties, LenProperties, EmptySeq DEF Notification, TInv, TypeOK
<1>2. \A i \in 1..Len(answers') : answers'[i] # Head(answers)
  BY <1>1 DEF AirDistinct
<1>3. AirDistinct'
  BY <1>1 DEF AirDistinct
<1>4. \A m : InAir(m)' => InAir(m) /\ m # Head(answers)
  <2> SUFFICES ASSUME NEW m, InAir(m)' PROVE InAir(m) /\ m # Head(answers)
    OBVIOUS
  <2>1. CASE \E i \in 1..Len(answers') : answers'[i] = m
    BY <1>1, <1>2, <2>1 DEF InAir
  <2>2. CASE \E i \in 1..Len(toLock) : toLock[i] = m
    BY <1>1, <2>2 DEF AirDistinct, InAir
  <2>3. QED
    BY <1>1, <2>1, <2>2 DEF InAir
<1>5. QED
  BY <1>1, <1>3, <1>4 DEF InAir

LEMMA AirEmpties ==
  ASSUME toLock' = <<>>, answers' = <<>>
  PROVE  AirDistinct' /\ \A m : ~InAir(m)'
<1>1. Len(toLock') = 0 /\ Len(answers') = 0
  BY EmptySeq
<1>2. QED
  BY <1>1 DEF AirDistinct, InAir

(* How an earlier command ended stays, and with it what it explains. *)
LEMMA EndingsStay ==
  ASSUME TInv, PendingIsLast, overran => overran',
         \A u \in Tasks : outcome[u] # "none" => outcome'[u] = outcome[u],
         NEW u \in Tasks, outcome[u] \in Abandoned
  PROVE  outcome'[u] \in Abandoned'
BY DEF Abandoned

LEMMA SentBy ==
  ASSUME TInv, NEW m \in Positions
  PROVE  sent[m] \in Commands /\ sent[m].by \in Tasks
<1>1. sent[m] \in Commands
  BY ElementOfSeq DEF TInv, TypeOK, Positions
<1>2. QED
  BY <1>1 DEF Commands

LEMMA OwnStays ==
  ASSUME TInv, PendingIsLast, AnswersAreOwn, UNCHANGED <<sent, current>>,
         firmware' = firmware \/ sent = <<>>, overran => overran',
         \A u \in Tasks : outcome[u] # "none" => outcome'[u] = outcome[u],
         \A u \in Tasks : future'[u] = future[u] \/ future'[u] = Lost
  PROVE  AnswersAreOwn' /\ (GivenUp => GivenUp')
<1>1. Positions' = Positions /\ Len(sent) \in Nat
  BY LenProperties DEF Positions, TInv, TypeOK
<1>2. ASSUME NEW m \in Positions, outcome[sent[m].by] \in Abandoned
      PROVE  outcome'[sent'[m].by] \in Abandoned'
  BY <1>2, SentBy, EndingsStay
<1>3. GivenUp => GivenUp'
  BY <1>1, <1>2 DEF GivenUp
<1>4. ASSUME NEW t \in Tasks, future'[t] \in Positions, future'[t] # current[t]
      PROVE  /\ future'[t] < current[t]
             /\ \/ firmware' = "counter" /\ (current[t] - future'[t]) % RefLimit = 0
                \/ /\ firmware' = "static" /\ sent[future'[t]].kind = sent[current[t]].kind
                   /\ \E m \in 1..(current[t] - 1) : outcome'[sent[m].by] \in Abandoned'
  <2>1. future'[t] = future[t]
    BY <1>4 DEF Lost, Positions
  <2>2. firmware' = firmware
    BY <1>4, EmptySeq DEF Positions
  <2>3. 1..(current[t] - 1) \subseteq Positions
    BY <1>1 DEF Positions, TInv, TypeOK
  <2>4. QED
    BY <1>2, <1>4, <2>1, <2>2, <2>3 DEF AnswersAreOwn
<1>5. QED
  BY <1>1, <1>3, <1>4 DEF AnswersAreOwn

(* A command is sent: everything still on its way belongs to earlier ones. *)
LEMMA StartLate ==
  ASSUME TInv, ExchangeInv, LateInv, NEW t \in Tasks, NEW k \in AllKinds, Start(t, k),
         hold = "none", Alone(t), ~InFlight(t), pc[t] # "done",
         UNCHANGED <<firmware, overran, hold>>
  PROVE  LateInv'
<1> DEFINE c == Len(sent) + 1
<1>s. /\ Len(sent) \in Nat /\ Len(sent') = c
      /\ Positions' = Positions \cup {c}
      /\ \A i \in Positions : sent'[i] = sent[i]
      /\ sent'[c].by = t
  <2>1. sent'[Len(sent) + 1] = [by |-> t, kind |-> k,
                              ref |-> IF firmware = "static" THEN StaticRef ELSE nextRef]
    BY StartSent
  <2>2. sent'[Len(sent) + 1].by = t
    BY <2>1
  <2>3. QED
    BY <2>2, StartSent
<1>n. c \notin Positions /\ \A n : InAir(n) => n \in Positions
  <2>1. \A n : InAir(n) => n \in Positions
    BY ElementOfSeq DEF InAir, TInv, TypeOK
  <2>2. QED
    BY <1>s, <2>1 DEF Positions
<1>1. /\ pending' = t /\ pc' = [pc EXCEPT ![t] = "writing"] /\ outcome' = outcome
      /\ current' = [current EXCEPT ![t] = c] /\ future' = [future EXCEPT ![t] = 0]
      /\ UNCHANGED <<link, toLock, answers>>
  BY DEF Start, linkVars
<1>2. \A u \in Tasks : InFlight(u)' <=> u = t
  BY <1>1 DEF Alone, InFlight, TInv, TypeOK
<1>3. pending = NoTask
  <2> SUFFICES ASSUME pending # NoTask PROVE FALSE
    OBVIOUS
  <2>1. InFlight(pending) /\ pending \in Tasks
    BY DEF LateInv, PendingIsLast, TInv, TypeOK
  <2>2. QED
    BY <2>1 DEF Alone, InFlight
<1>4. PendingIsLast'
  <2>1. \A u \in Tasks : current'[u] = IF u = t THEN c ELSE current[u]
    BY <1>1 DEF TInv, TypeOK
  <2>2. ASSUME NEW u \in Tasks, current'[u] \in Positions' PROVE sent'[current'[u]].by = u
    <3>1. CASE u = t
      BY <3>1, <2>1, <1>s
    <3>2. CASE u # t
      <4>1. current'[u] = current[u] /\ current[u] \in 0..Len(sent)
        BY <3>2, <2>1 DEF TInv, TypeOK
      <4>2. current[u] \in Positions
        BY <4>1, <2>2, <1>s DEF Positions
      <4>3. sent[current[u]].by = u
        BY <4>2 DEF LateInv, PendingIsLast
      <4>4. QED
        BY <4>1, <4>2, <4>3, <1>s
    <3>3. QED
      BY <3>1, <3>2
  <2>3. \A u \in Tasks : pc'[u] = "done" <=> outcome'[u] # "none"
    BY <1>1 DEF LateInv, PendingIsLast, TInv, TypeOK
  <2>4. QED
    BY <1>1, <1>2, <1>s, <2>1, <2>2, <2>3 DEF PendingIsLast
<1>5. DownCarriesNothing'
  BY <1>1 DEF LateInv, DownCarriesNothing, TInv, TypeOK, Lost
<1>6. OnceInAir'
  <2>1. AirDistinct' /\ \A n : InAir(n)' <=> InAir(n)
    BY <1>1 DEF LateInv, OnceInAir, AirDistinct, InAir
  <2>2. current'[t] = c
    BY <1>1 DEF TInv, TypeOK
  <2>3. \A u \in Tasks : pc'[u] = "writing" => InFlight(u)'
    BY DEF InFlight
  <2>4. QED
    BY <1>1, <1>2, <1>s, <1>n, <2>1, <2>2, <2>3 DEF OnceInAir, TInv, TypeOK
<1>7. GivenUp => GivenUp'
  BY <1>1, <1>s DEF GivenUp, Abandoned
<1>8. LateExplained'
  <2> SUFFICES ASSUME firmware = "static" PROVE LateExplained'
    BY DEF LateExplained
  <2>1. \A n : InAir(n)' => InAir(n)
    BY <1>1 DEF InAir
  <2>2. \A n : InAir(n) => GivenUp
    BY <1>3, <1>n DEF LateInv, LateExplained
  <2>3. QED
    BY <1>7, <2>1, <2>2 DEF LateExplained
<1>9. AnswersAreOwn'
  <2> SUFFICES ASSUME NEW u \in Tasks, future'[u] \in Positions', future'[u] # current'[u]
               PROVE  /\ future'[u] < current'[u]
                      /\ \/ firmware = "counter" /\ (current'[u] - future'[u]) % RefLimit = 0
                         \/ /\ firmware = "static" /\ sent'[future'[u]].kind = sent'[current'[u]].kind
                            /\ \E m \in 1..(current'[u] - 1) : outcome'[sent'[m].by] \in Abandoned
    BY DEF AnswersAreOwn, Abandoned
  <2>1. u # t /\ future'[u] = future[u] /\ current'[u] = current[u]
    BY <1>1, <1>s DEF TInv, TypeOK, Positions
  <2>2. future[u] \in Positions
    BY <2>1, <1>s DEF TInv, TypeOK, Positions, Lost
  <2>3. current[u] \in Positions /\ 1..(current[u] - 1) \subseteq Positions
    BY <2>1, <2>2, <1>s DEF LateInv, AnswersAreOwn, TInv, TypeOK, Positions
  <2>4. QED
    BY <1>1, <1>s, <2>1, <2>2, <2>3 DEF LateInv, AnswersAreOwn
<1>10. QED
  BY <1>4, <1>5, <1>6, <1>8, <1>9 DEF LateInv

(* A call ends.  If it was in flight, its answer is explained from now on: *)
(* it has been heard, its grace period runs, or the command is given up on.*)
LEMMA EndLate ==
  ASSUME TInv, ExchangeInv, FirmwareFirst, LateInv, NEW t \in Tasks, NEW how \in Endings,
         pc[t] # "done", pc' = [pc EXCEPT ![t] = "done"], outcome' = [outcome EXCEPT ![t] = how],
         UNCHANGED <<overran, sent, current, future>>,
         firmware' = firmware \/ firmware \in {"unread", "old"},
         pending' = IF InFlight(t) THEN NoTask ELSE pending,
         \/ UNCHANGED <<link, toLock, answers>>
         \/ link' = "closed" /\ toLock' = <<>> /\ answers' = <<>>
         \/ /\ pc[t] = "writing" /\ toLock' = Append(toLock, current[t])
            /\ UNCHANGED <<link, answers>> /\ link = "up",
         hold' = hold \/ InFlight(t),
         hold' = "grace" => hold = "grace" \/ (InFlight(t) /\ how = "timeout"),
         hold' # hold => hold = "none",
         InFlight(t) => \/ how \in {"cancelled", "failed"} \/ future[t] # 0
                        \/ firmware = "counter" \/ hold' = "grace"
  PROVE  LateInv'
<1>s. Positions' = Positions /\ Len(sent) \in Nat
  BY LenProperties DEF Positions, TInv, TypeOK
<1>1. \A u \in Tasks : InFlight(u)' <=> InFlight(u) /\ u # t
  BY DEF InFlight, TInv, TypeOK
<1>2. outcome[t] = "none" /\ \A u \in Tasks : outcome[u] # "none" => outcome'[u] = outcome[u]
  BY DEF LateInv, PendingIsLast, TInv, TypeOK
<1>3. pending' # NoTask => pending' = pending /\ InFlight(pending)' /\ pending \in Tasks
  BY <1>1 DEF LateInv, PendingIsLast, TInv, TypeOK
<1>4. InFlight(t) => pending = t /\ current[t] = Len(sent) /\ current[t] \in Positions
                     /\ sent[current[t]].by = t /\ t # NoTask
  BY TasksAssumption DEF ExchangeInv, HolderExchanges, LateInv, PendingIsLast, TInv, PlacedInFlight, Tasks
<1>5. PendingIsLast'
  <2>1. \A u \in Tasks : InFlight(u)' => hold' = "none"
    <3> SUFFICES ASSUME NEW u \in Tasks, InFlight(u)' PROVE hold' = "none"
      OBVIOUS
    <3>1. InFlight(u) /\ u # t
      BY <1>1
    <3>2. pending = u
      BY <3>1 DEF ExchangeInv, HolderExchanges
    <3>3. ~InFlight(t)
      BY <1>4, <3>1, <3>2
    <3>4. QED
      BY <3>1, <3>3 DEF LateInv, PendingIsLast
  <2>2. \A u \in Tasks : pc'[u] = "done" <=> outcome'[u] # "none"
    BY DEF LateInv, PendingIsLast, TInv, TypeOK, Endings
  <2>3. QED
    BY <1>3, <1>s, <2>1, <2>2 DEF LateInv, PendingIsLast
<1>6. DownCarriesNothing'
  BY DEF LateInv, DownCarriesNothing
<1>7. /\ AirDistinct'
      /\ \A n : InAir(n)' => InAir(n) \/ (n = current[t] /\ pc[t] = "writing")
  <2>1. CASE UNCHANGED <<link, toLock, answers>>
    BY <2>1 DEF LateInv, OnceInAir, AirDistinct, InAir
  <2>2. CASE toLock' = <<>> /\ answers' = <<>>
    BY <2>2, AirEmpties
  <2>3. CASE /\ pc[t] = "writing" /\ toLock' = Append(toLock, current[t])
             /\ UNCHANGED <<link, answers>>
    <3>1. ~InAir(current[t]) /\ current[t] \in Positions
      BY <2>3, <1>4 DEF LateInv, OnceInAir, InFlight
    <3>2. QED
      BY <2>3, <3>1, AirAppend DEF LateInv, OnceInAir
  <2>4. QED
    BY <2>1, <2>2, <2>3
<1>8. OnceInAir'
  <2>w. ASSUME NEW u \in Tasks, pc'[u] = "writing" PROVE future[u] # current[u]
    BY <2>w DEF LateInv, OnceInAir, TInv, TypeOK
  <2> SUFFICES ASSUME NEW u \in Tasks,
                      pc'[u] = "writing" \/ (InFlight(u)' /\ future[u] = current[u])
               PROVE  ~InAir(current[u])'
    BY <1>7, <2>w DEF OnceInAir
  <2>1. u # t /\ pc'[u] = pc[u] /\ InFlight(u) /\ InFlight(u)'
    BY <1>1 DEF InFlight, TInv, TypeOK
  <2>2. pending = u
    BY <2>1 DEF ExchangeInv, HolderExchanges
  <2>3. pc[t] # "writing"
    BY <1>4, <2>1, <2>2 DEF InFlight
  <2>4. ~InAir(current[u])
    BY <2>1 DEF LateInv, OnceInAir
  <2>5. QED
    BY <1>7, <2>3, <2>4
<1>9. AnswersAreOwn' /\ (GivenUp => GivenUp')
  BY <1>2, OwnStays DEF LateInv, FirmwareFirst
<1>10. LateExplained'
  <2> SUFFICES ASSUME firmware' = "static", firmware \notin {"unread", "old"} PROVE LateExplained'
    <3>1. CASE firmware \in {"unread", "old"}
      <4>1. Positions' = {} /\ hold = "none"
        BY <3>1, <1>s, EmptySeq DEF FirmwareFirst, Positions
      <4>2. hold' # "grace"
        BY <4>1, <1>4, <1>s
      <4>3. QED
        BY <4>1, <4>2 DEF LateExplained
    <3>2. QED
      BY <3>1 DEF LateExplained
  <2>0. firmware = "static" /\ firmware' = firmware
    OBVIOUS
  <2>1. hold' = "grace" => \E m \in Positions : outcome'[sent[m].by] = "timeout"
    <3>1. CASE hold' = "grace" /\ hold = "grace"
      <4>1. PICK m \in Positions : outcome[sent[m].by] = "timeout"
        BY <2>0, <3>1 DEF LateInv, LateExplained
      <4>2. QED
        BY <4>1, <1>2, SentBy
    <3>2. CASE InFlight(t) /\ how = "timeout"
      BY <3>2, <1>4 DEF TInv, TypeOK
    <3>3. QED
      BY <3>1, <3>2
  <2>2. ASSUME NEW n \in Positions, InAir(n)'
        PROVE  (pending' # NoTask /\ n = Len(sent)) \/ hold' = "grace" \/ GivenUp'
    <3>1. CASE ~InFlight(t)
      <4>1. InAir(n) /\ pending' = pending /\ hold' = hold
        BY <3>1, <2>2, <1>7 DEF InFlight
      <4>2. QED
        BY <4>1, <1>9, <2>0 DEF LateInv, LateExplained
    <3>2. CASE InFlight(t) /\ how \in {"cancelled", "failed"}
      <4>1. outcome'[sent[current[t]].by] \in Abandoned'
        BY <3>2, <1>4 DEF Abandoned, TInv, TypeOK
      <4>2. QED
        BY <4>1, <3>2, <1>4, <1>s DEF GivenUp
    <3>3. CASE InFlight(t) /\ future[t] = Lost
      <4>1. link # "up" /\ toLock = <<>> /\ answers = <<>>
        BY <3>3 DEF LateInv, DownCarriesNothing
      <4>2. toLock' = <<>> /\ answers' = <<>>
        BY <4>1
      <4>3. QED
        BY <4>2, <2>2, AirEmpties
    <3>4. CASE InFlight(t) /\ future[t] \in Positions /\ future[t] # current[t]
      <4>1. PICK m \in 1..(current[t] - 1) : outcome[sent[m].by] \in Abandoned
        BY <3>4, <2>0 DEF LateInv, AnswersAreOwn
      <4>2. m \in Positions
        BY <3>4, <1>4, <1>s DEF Positions
      <4>3. GivenUp
        BY <4>1, <4>2 DEF GivenUp
      <4>4. QED
        BY <4>3, <1>9
    <3>5. CASE InFlight(t) /\ future[t] = current[t] /\ hold' # "grace"
               /\ how \notin {"cancelled", "failed"}
      <4>1. hold = "none"
        BY <3>5 DEF LateInv, PendingIsLast
      <4>2. ~InAir(current[t]) /\ pc[t] # "writing"
        BY <3>5 DEF LateInv, OnceInAir
      <4>3. QED
        BY <4>1, <4>2, <1>4, <1>7, <1>9, <2>0, <2>2 DEF LateInv, LateExplained
    <3>6. future[t] = 0 \/ future[t] = Lost \/ future[t] \in Positions
      BY DEF TInv, TypeOK, Positions
    <3>7. QED
      BY <2>0, <3>1, <3>2, <3>3, <3>4, <3>5, <3>6
  <2>3. QED
    BY <1>s, <2>1, <2>2 DEF LateExplained
<1>11. QED
  BY <1>5, <1>6, <1>8, <1>9, <1>10 DEF LateInv

(* A step that leaves the air, the commands and the endings alone.         *)
LEMMA QuietLate ==
  ASSUME TInv, FirmwareFirst, LateInv,
         UNCHANGED <<overran, sent, current, future, outcome, link, toLock, answers>>,
         firmware' = firmware \/ firmware \in {"unread", "old"},
         \A u \in Tasks : pc'[u] = "done" <=> pc[u] = "done",
         \A u \in Tasks : InFlight(u)' => InFlight(u) /\ pc'[u] = pc[u],
         \/ hold' = hold /\ pending' = pending /\ \A u \in Tasks : InFlight(u) => InFlight(u)'
         \/ /\ pending' = NoTask /\ hold' # "grace" /\ firmware' = "counter"
            /\ \A u \in Tasks : ~InFlight(u)'
  PROVE  LateInv'
<1>s. Positions' = Positions /\ Len(sent) \in Nat
  BY LenProperties DEF Positions, TInv, TypeOK
<1>1. PendingIsLast' /\ DownCarriesNothing'
  BY <1>s DEF LateInv, PendingIsLast, DownCarriesNothing, TInv, TypeOK
<1>2. AirDistinct' /\ \A n : InAir(n)' <=> InAir(n)
  BY DEF LateInv, OnceInAir, AirDistinct, InAir
<1>3. OnceInAir'
  <2>1. \A u \in Tasks : pc'[u] = "writing" => pc[u] = "writing"
    BY DEF InFlight
  <2>2. QED
    BY <1>2, <2>1 DEF LateInv, OnceInAir
<1>4. AnswersAreOwn' /\ (GivenUp => GivenUp')
  BY OwnStays DEF LateInv, FirmwareFirst
<1>5. LateExplained'
  <2>1. CASE firmware \in {"unread", "old"} /\ firmware' # "counter"
    <3>1. Positions' = {} /\ hold' # "grace"
      BY <2>1, <1>s, EmptySeq DEF FirmwareFirst, Positions
    <3>2. QED
      BY <3>1 DEF LateExplained
  <2>2. CASE firmware' = firmware /\ hold' = hold /\ pending' = pending
    BY <2>2, <1>s, <1>2, <1>4 DEF LateInv, LateExplained
  <2>3. CASE firmware' = "counter"
    BY <2>3 DEF LateExplained
  <2>4. QED
    BY <2>1, <2>2, <2>3
<1>6. QED
  BY <1>1, <1>3, <1>4, <1>5 DEF LateInv

(* The timer passes; a late answer still on its way is what overran notes. *)
LEMMA HoldExpiresLate ==
  ASSUME TInv, FirmwareFirst, LateInv, HoldExpires
  PROVE  LateInv'
<1>0. /\ hold # "none" /\ hold' = "none"
      /\ overran' = IF hold = "grace" /\ toLock \o answers # <<>> THEN TRUE ELSE overran
      /\ UNCHANGED <<state, firmware, sent, pending, pc, current, future, outcome, link, toLock, answers>>
  BY DEF HoldExpires, taskVars, linkVars
<1>s. Positions' = Positions /\ Len(sent) \in Nat
  BY <1>0, LenProperties DEF Positions, TInv, TypeOK
<1>1. PendingIsLast' /\ DownCarriesNothing'
  BY <1>0, <1>s DEF LateInv, PendingIsLast, DownCarriesNothing, TInv, TypeOK, InFlight
<1>2. AirDistinct' /\ \A n : InAir(n)' <=> InAir(n)
  BY <1>0 DEF LateInv, OnceInAir, AirDistinct, InAir
<1>3. OnceInAir'
  BY <1>0, <1>2 DEF LateInv, OnceInAir, InFlight
<1>4. AnswersAreOwn' /\ (GivenUp => GivenUp')
  BY <1>0, OwnStays DEF LateInv
<1>5. LateExplained'
  <2> SUFFICES ASSUME firmware = "static", NEW n \in Positions, InAir(n)
               PROVE  (pending # NoTask /\ n = Len(sent)) \/ GivenUp'
    BY <1>0, <1>s, <1>2 DEF LateExplained
  <2>1. CASE hold # "grace"
    BY <2>1, <1>4 DEF LateInv, LateExplained
  <2>2. CASE hold = "grace"
    <3>1. PICK m \in Positions : outcome[sent[m].by] = "timeout"
      BY <2>2 DEF LateInv, LateExplained
    <3>2. toLock \o answers # <<>>
      <4>1. toLock \in Seq(Positions) /\ answers \in Seq(Positions)
        BY DEF TInv, TypeOK
      <4>2. Len(toLock) \in Nat /\ Len(answers) \in Nat /\ Len(toLock) + Len(answers) # 0
        BY <4>1, LenProperties DEF InAir
      <4>3. Len(toLock \o answers) # 0
        BY <4>1, <4>2, ConcatProperties
      <4>4. QED
        BY <4>3, EmptySeq
    <3>3. overran' = TRUE
      BY <1>0, <2>2, <3>2
    <3>4. QED
      BY <1>0, <1>s, <3>1, <3>3 DEF GivenUp, Abandoned
  <2>3. QED
    BY <2>1, <2>2
<1>6. QED
  BY <1>1, <1>3, <1>4, <1>5 DEF LateInv

(* The last frame of a command is handed over. *)
LEMMA WrittenLate ==
  ASSUME TInv, ExchangeInv, FirmwareFirst, LateInv, NEW t \in Tasks, Written(t)
  PROVE  LateInv'
<1>0. /\ pc[t] = "writing" /\ pc' = [pc EXCEPT ![t] = "waiting"]
      /\ toLock' = IF link = "up" THEN Append(toLock, current[t]) ELSE toLock
      /\ UNCHANGED <<firmware, overran, hold, sent, pending, current, future, outcome, link, answers>>
  BY DEF Written, sessionVars
<1>s. Positions' = Positions /\ Len(sent) \in Nat
  BY <1>0, LenProperties DEF Positions, TInv, TypeOK
<1>1. \A u \in Tasks : (InFlight(u)' <=> InFlight(u)) /\ (pc'[u] = "done" <=> pc[u] = "done")
                       /\ (pc'[u] = "writing" => pc[u] = "writing" /\ u # t)
  BY <1>0 DEF InFlight, TInv, TypeOK
<1>2. InFlight(t) /\ pending = t /\ t # NoTask /\ current[t] \in Positions /\ current[t] = Len(sent)
  BY <1>0, TasksAssumption
     DEF ExchangeInv, HolderExchanges, LateInv, PendingIsLast, TInv, PlacedInFlight, InFlight, Tasks
<1>3. PendingIsLast' /\ DownCarriesNothing'
  <2>1. PendingIsLast'
    BY <1>0, <1>1, <1>2, <1>s DEF LateInv, PendingIsLast
  <2>2. DownCarriesNothing'
    BY <1>0 DEF LateInv, DownCarriesNothing
  <2>3. QED
    BY <2>1, <2>2
<1>4. AirDistinct' /\ \A n : InAir(n)' => InAir(n) \/ n = current[t]
  <2>1. CASE link = "up"
    <3>1. ~InAir(current[t])
      BY <1>0 DEF LateInv, OnceInAir
    <3>2. QED
      BY <1>0, <1>2, <2>1, <3>1, AirAppend DEF LateInv, OnceInAir
  <2>2. CASE link # "up"
    BY <1>0, <2>2 DEF LateInv, OnceInAir, AirDistinct, InAir
  <2>3. QED
    BY <2>1, <2>2
<1>5. OnceInAir'
  <2>1. ASSUME NEW u \in Tasks, InFlight(u) PROVE u = t
    BY <2>1, <1>2 DEF ExchangeInv, HolderExchanges
  <2>2. future[t] # current[t]
    BY <1>0 DEF LateInv, OnceInAir
  <2>3. \A u \in Tasks : pc'[u] # "writing" /\ (InFlight(u)' => future[u] # current[u])
    BY <1>1, <2>1, <2>2 DEF InFlight
  <2>4. QED
    BY <1>0, <1>4, <2>3 DEF OnceInAir
<1>6. AnswersAreOwn' /\ (GivenUp => GivenUp')
  BY <1>0, OwnStays DEF LateInv
<1>7. LateExplained'
  BY <1>0, <1>2, <1>4, <1>6, <1>s DEF LateInv, LateExplained
<1>8. QED
  BY <1>3, <1>5, <1>6, <1>7 DEF LateInv

LEMMA LockReadsLate ==
  ASSUME TInv, LateInv, LockReads
  PROVE  LateInv'
<1>0. /\ UNCHANGED <<firmware, overran, hold, sent, pending, pc, current, future, outcome, link>>
      /\ toLock # <<>>
  BY DEF LockReads, sessionVars, taskVars
<1>s. Positions' = Positions
  BY <1>0 DEF Positions
<1>1. PendingIsLast' /\ DownCarriesNothing'
  BY <1>0, <1>s DEF LateInv, PendingIsLast, DownCarriesNothing, InFlight
<1>2. AirDistinct' /\ \A n : InAir(n)' => InAir(n)
  BY AirReads DEF LateInv, OnceInAir
<1>3. OnceInAir'
  BY <1>0, <1>2 DEF LateInv, OnceInAir, InFlight
<1>4. AnswersAreOwn' /\ (GivenUp => GivenUp')
  BY <1>0, OwnStays DEF LateInv
<1>5. LateExplained'
  BY <1>0, <1>s, <1>2, <1>4 DEF LateInv, LateExplained
<1>6. QED
  BY <1>1, <1>3, <1>4, <1>5 DEF LateInv

(* The host hears an answer: it is the one of the command in flight, or    *)
(* what LateExplained says of the late ones holds of it.                   *)
LEMMA NotificationLate ==
  ASSUME TInv, ExchangeInv, RefsInTurn, FirmwareFirst, LateInv, Notification
  PROVE  LateInv'
<1> DEFINE n == Head(answers)
<1>0. /\ UNCHANGED <<firmware, overran, hold, sent, pending, pc, current, outcome, link, toLock>>
      /\ answers # <<>> /\ answers' = Tail(answers)
      /\ \/ /\ pending # NoTask /\ future[pending] = 0 /\ Matches(n, pending)
            /\ future' = [future EXCEPT ![pending] = n]
         \/ UNCHANGED future
  BY DEF Notification, sessionVars
<1>s. Positions' = Positions /\ Len(sent) \in Nat /\ n \in Positions
  BY <1>0, LenProperties, AirHears DEF Positions, TInv, TypeOK, LateInv, OnceInAir
<1>1. PendingIsLast'
  BY <1>0, <1>s DEF LateInv, PendingIsLast, InFlight
<1>3. AirDistinct' /\ InAir(n) /\ \A m : InAir(m)' => InAir(m) /\ m # n
  BY AirHears DEF LateInv, OnceInAir
<1>4. \A u \in Tasks : future'[u] = future[u] \/ (future'[u] = n /\ u = pending)
  BY <1>0 DEF TInv, TypeOK
<1>2. DownCarriesNothing'
  <2>1. link = "up"
    BY <1>0 DEF LateInv, DownCarriesNothing
  <2>2. \A u \in Tasks : future'[u] # Lost
    BY <2>1, <1>4, <1>s DEF LateInv, DownCarriesNothing, Lost, Positions
  <2>3. QED
    BY <2>1, <2>2, <1>0 DEF DownCarriesNothing
<1>5. OnceInAir'
  <2>1. ASSUME NEW u \in Tasks, pc[u] = "writing" PROVE future'[u] # current[u]
    <3>1. future[u] # current[u] /\ ~InAir(current[u])
      BY <2>1 DEF LateInv, OnceInAir
    <3>2. QED
      BY <3>1, <1>3, <1>4
  <2>2. ASSUME NEW u \in Tasks, pc[u] = "writing" \/ (InFlight(u) /\ future'[u] = current[u])
        PROVE  ~InAir(current[u])'
    <3>1. CASE future'[u] = n /\ future'[u] = current[u]
      BY <3>1, <1>0, <1>3 DEF InAir
    <3>2. CASE pc[u] = "writing" \/ (InFlight(u) /\ future[u] = current[u])
      <4>1. ~InAir(current[u])
        BY <3>2 DEF LateInv, OnceInAir
      <4>2. current' = current
        BY <1>0
      <4>3. QED
        BY <4>1, <4>2, <1>3
    <3>3. QED
      BY <2>2, <3>1, <3>2, <1>4
  <2>3. QED
    BY <1>0, <1>3, <2>1, <2>2 DEF OnceInAir, InFlight
<1>6. GivenUp <=> GivenUp'
  BY <1>0, <1>s DEF GivenUp, Abandoned
<1>7. LateExplained'
  BY <1>0, <1>s, <1>3, <1>6 DEF LateInv, LateExplained
<1>8. AnswersAreOwn'
  <2>1. CASE UNCHANGED future
    BY <1>0, <2>1, OwnStays DEF LateInv
  <2>2. CASE /\ pending # NoTask /\ Matches(n, pending)
             /\ future' = [future EXCEPT ![pending] = n]
    <3>1. /\ pending \in Tasks /\ InFlight(pending) /\ current[pending] = Len(sent)
          /\ current[pending] \in Positions /\ sent[current[pending]].by = pending
          /\ hold = "none" /\ outcome[pending] = "none"
      BY <2>2 DEF LateInv, PendingIsLast, TInv, TypeOK, PlacedInFlight, InFlight
    <3> DEFINE c == current[pending]
    <3>2. ASSUME n # c
          PROVE  /\ n < c
                 /\ \/ firmware = "counter" /\ (c - n) % RefLimit = 0
                    \/ /\ firmware = "static" /\ sent[n].kind = sent[c].kind
                       /\ \E m \in 1..(c - 1) : outcome[sent[m].by] \in Abandoned
      <4>1. n < c
        BY <3>1, <3>2, <1>s DEF Positions
      <4>2. firmware \in {"static", "counter"}
        BY <3>1 DEF FirmwareFirst, TInv, TypeOK, InExchange, InFlight
      <4>3. CASE firmware = "counter"
        BY <2>2, <3>1, <4>1, <4>3, <1>s, SameRefFullTurns DEF Matches
      <4>4. CASE firmware = "static"
        <5>1. GivenUp
          BY <4>4, <3>1, <3>2, <1>s, <1>3 DEF LateInv, LateExplained
        <5>2. PICK m \in Positions : outcome[sent[m].by] \in Abandoned
          BY <5>1 DEF GivenUp
        <5>3. m # c
          BY <5>2, <3>1 DEF Abandoned
        <5>4. m \in 1..(c - 1)
          BY <5>3, <3>1, <1>s DEF Positions
        <5>5. QED
          BY <2>2, <4>1, <4>4, <5>2, <5>4 DEF Matches
      <4>5. QED
        BY <4>2, <4>3, <4>4
    <3>3. future'[pending] = n /\ \A u \in Tasks : u # pending => future'[u] = future[u]
      BY <2>2, <3>1 DEF TInv, TypeOK
    <3>4. ASSUME NEW u \in Tasks, future'[u] \in Positions, future'[u] # current[u]
          PROVE  /\ future'[u] < current[u]
                 /\ \/ firmware = "counter" /\ (current[u] - future'[u]) % RefLimit = 0
                    \/ /\ firmware = "static" /\ sent[future'[u]].kind = sent[current[u]].kind
                       /\ \E m \in 1..(current[u] - 1) : outcome[sent[m].by] \in Abandoned
      <4>1. CASE u = pending
        BY <4>1, <3>2, <3>3, <3>4
      <4>2. CASE u # pending
        BY <4>2, <3>3, <3>4 DEF LateInv, AnswersAreOwn
      <4>3. QED
        BY <4>1, <4>2
    <3>5. QED
      BY <1>0, <1>s, <3>4 DEF AnswersAreOwn, Abandoned
  <2>3. QED
    BY <1>0, <2>1, <2>2
<1>9. QED
  BY <1>1, <1>2, <1>5, <1>7, <1>8 DEF LateInv

(* The link drops or the session is closed. *)
LEMMA ClosingLate ==
  ASSUME TInv, ExchangeInv, LateInv, Disconnect \/ Close
  PROVE  LateInv'
<1>0. /\ UNCHANGED <<firmware, overran, hold, sent, pending, pc, current, outcome>>
      /\ link' # "up" /\ toLock' = <<>> /\ answers' = <<>>
      /\ FailPending \/ UNCHANGED future
  BY DEF Disconnect, Close
<1>s. Positions' = Positions
  BY <1>0 DEF Positions
<1>1. \A u \in Tasks : future'[u] = future[u] \/ future'[u] = Lost
  BY <1>0 DEF FailPending, TInv, TypeOK
<1>2. PendingIsLast' /\ DownCarriesNothing'
  BY <1>0, <1>s DEF LateInv, PendingIsLast, DownCarriesNothing, InFlight
<1>3. AirDistinct' /\ \A n : ~InAir(n)'
  BY <1>0, AirEmpties
<1>4. OnceInAir'
  <2>1. \A u \in Tasks : current[u] # Lost
    BY DEF TInv, TypeOK, Lost
  <2>2. QED
    BY <1>0, <1>1, <1>3, <2>1 DEF LateInv, OnceInAir
<1>5. AnswersAreOwn'
  BY <1>0, <1>1, OwnStays DEF LateInv
<1>6. LateExplained'
  BY <1>0, <1>s, <1>3 DEF LateInv, LateExplained
<1>7. QED
  BY <1>2, <1>4, <1>5, <1>6 DEF LateInv

(* Taking the lock: the call is refused, pauses, or sends its command. *)
LEMMA EnterLate ==
  ASSUME TInv, ExchangeInv, FirmwareFirst, LateInv, NEW t \in Tasks, NEW k \in AllKinds,
         Enter(t, k), Alone(t), pc[t] \in {"idle", "subscribing", "queued", "pausing"},
         UNCHANGED <<firmware, overran, cipher, hold>>
  PROVE  LateInv'
<1>0. ~InFlight(t)
  BY DEF InFlight
<1>1. CASE End(t, "refused") /\ UNCHANGED <<sent, pending, current, future>>
  <2>1. /\ pc' = [pc EXCEPT ![t] = "done"] /\ outcome' = [outcome EXCEPT ![t] = "refused"]
        /\ \/ UNCHANGED <<link, toLock, answers>>
           \/ link' = "closed" /\ toLock' = <<>> /\ answers' = <<>>
    BY <1>1 DEF End
  <2>2. "refused" \in Endings
    BY DEF Endings
  <2>3. QED
    BY <1>0, <1>1, <2>1, <2>2, EndLate
<1>2. CASE /\ pc' = [pc EXCEPT ![t] = "pausing"]
           /\ UNCHANGED <<sent, pending, current, future, outcome, linkVars>>
  <2>1. /\ \A u \in Tasks : pc'[u] = "done" <=> pc[u] = "done"
        /\ \A u \in Tasks : InFlight(u)' => InFlight(u) /\ pc'[u] = pc[u]
        /\ \A u \in Tasks : InFlight(u) => InFlight(u)'
    BY <1>2 DEF InFlight, TInv, TypeOK
  <2>2. QED
    BY <1>2, <2>1, QuietLate DEF linkVars
<1>3. CASE hold = "none" /\ Start(t, k)
  BY <1>0, <1>3, StartLate
<1>4. QED
  BY <1>1, <1>2, <1>3 DEF Enter

(* A write or a wait is left early. *)
LEMMA LeaveWritingLate ==
  ASSUME TInv, ExchangeInv, FirmwareFirst, LateInv, NEW t \in Tasks, NEW how \in Endings,
         InFlight(t), LeaveWriting(t, how), UNCHANGED <<firmware, overran, sent, current, future>>,
         \/ how \in {"cancelled", "failed"} /\ hold' = hold
         \/ how = "timeout" /\ hold' = IF firmware = "static" THEN "grace" ELSE hold
  PROVE  LateInv'
<1>1. /\ pc' = [pc EXCEPT ![t] = "done"] /\ outcome' = [outcome EXCEPT ![t] = how]
      /\ pending' = NoTask
      /\ \/ UNCHANGED <<link, toLock, answers>>
         \/ link' = "closed" /\ toLock' = <<>> /\ answers' = <<>>
         \/ /\ pc[t] = "writing" /\ toLock' = Append(toLock, current[t])
            /\ UNCHANGED <<link, answers>> /\ link = "up"
  BY DEF LeaveWriting, Leave, End
<1>2. pc[t] # "done" /\ hold = "none"
  BY DEF InFlight, LateInv, PendingIsLast
<1>3. firmware \in {"static", "counter"}
  BY DEF FirmwareFirst, InFlight, InExchange, TInv, TypeOK
<1>4. QED
  BY <1>1, <1>2, <1>3, EndLate

(* connect() or send() goes on with the answer in the future. *)
LEMMA AnsweredLate ==
  ASSUME TInv, ExchangeInv, FirmwareFirst, LateInv, NEW t \in Tasks, Answered(t)
  PROVE  LateInv'
<1>0. /\ pc[t] = "waiting" /\ future[t] # 0 /\ InFlight(t)
      /\ hold' = "delay" /\ pending' = NoTask
      /\ UNCHANGED <<firmware, overran, sent, current, future>>
  BY DEF Answered, InFlight, Positions
<1>h. hold = "none"
  BY <1>0 DEF LateInv, PendingIsLast
<1>1. ASSUME NEW how \in Endings, pc' = [pc EXCEPT ![t] = "done"],
             outcome' = [outcome EXCEPT ![t] = how],
             \/ UNCHANGED <<link, toLock, answers>>
             \/ link' = "closed" /\ toLock' = <<>> /\ answers' = <<>>
      PROVE  LateInv'
  BY <1>0, <1>1, <1>h, EndLate
<1>2. ASSUME NEW how \in Endings, End(t, how) PROVE LateInv'
  BY <1>1, <1>2 DEF End
<1>3. CASE t = Connector /\ ConnectGoesOn
  <2>1. CASE End(t, "refused")
    BY <1>2, <2>1 DEF Endings
  <2>2. CASE /\ pc' = [pc EXCEPT ![t] = "pausing"] /\ firmware = "counter"
             /\ UNCHANGED <<outcome, linkVars>>
    <3>1. \A u \in Tasks : InFlight(u) => u = t
      BY <1>0 DEF ExchangeInv, HolderExchanges
    <3>2. /\ \A u \in Tasks : pc'[u] = "done" <=> pc[u] = "done"
          /\ \A u \in Tasks : ~InFlight(u)'
      BY <1>0, <2>2, <3>1 DEF InFlight, TInv, TypeOK
    <3>3. QED
      BY <1>0, <2>2, <3>2, QuietLate DEF linkVars
  <2>3. CASE /\ pc' = [pc EXCEPT ![t] = "done"] /\ outcome' = [outcome EXCEPT ![t] = "answered"]
             /\ UNCHANGED linkVars
    BY <1>1, <2>3 DEF Endings, linkVars
  <2>4. QED
    BY <1>3, <2>1, <2>2, <2>3 DEF ConnectGoesOn
<1>4. QED
  BY <1>2, <1>3 DEF Answered, Verdict, Endings

LEMMA NextLateInv == TInv /\ ExchangeInv /\ AnswerInv /\ [Next]_vars => LateInv'
<1> SUFFICES ASSUME TInv, ExchangeInv, FirmwareFirst, RefsInTurn, LateInv, [Next]_vars PROVE LateInv'
  BY DEF AnswerInv
<1> USE ConnectorIsTask
<1>a. HolderExchanges /\ ConnectAlone
  BY DEF ExchangeInv
<1>q. ASSUME NEW t \in Tasks, NEW where \in {"reading", "subscribing", "queued"},
             pc[t] \in {"idle", "reading"}, pc' = [pc EXCEPT ![t] = where],
             UNCHANGED <<overran, hold, sent, pending, current, future, outcome, link, toLock, answers>>,
             firmware' = firmware \/ firmware \in {"unread", "old"}
      PROVE  LateInv'
  <2>1. /\ \A u \in Tasks : pc'[u] = "done" <=> pc[u] = "done"
        /\ \A u \in Tasks : InFlight(u)' => InFlight(u) /\ pc'[u] = pc[u]
        /\ \A u \in Tasks : InFlight(u) => InFlight(u)'
    BY <1>q DEF InFlight, TInv, TypeOK
  <2>2. QED
    BY <1>q, <2>1, QuietLate
<1>e. ASSUME NEW how \in Endings, pc[Connector] \in {"reading", "subscribing"}, End(Connector, how),
             UNCHANGED <<overran, hold, sent, pending, current, future>>,
             firmware' = firmware \/ firmware \in {"unread", "old"}
      PROVE  LateInv'
  <2>1. /\ pc' = [pc EXCEPT ![Connector] = "done"] /\ outcome' = [outcome EXCEPT ![Connector] = how]
        /\ link' = "closed" /\ toLock' = <<>> /\ answers' = <<>>
    BY <1>e DEF End
  <2>2. ~InFlight(Connector) /\ pc[Connector] # "done"
    BY <1>e DEF InFlight
  <2>3. QED
    BY <1>e, <2>1, <2>2, EndLate
<1>1. CASE Connect
  <2>1. pc[Connector] = "idle"
    BY <1>1, <1>a DEF Connect, ConnectAlone
  <2>2. QED
    BY <1>1, <1>q, <2>1 DEF Connect, linkVars
<1>2. ASSUME NEW f \in {"old", "static", "counter"}, FirmwareRead(f) PROVE LateInv'
  <2>1. pc[Connector] = "reading" /\ firmware = "unread"
    BY <1>2 DEF FirmwareRead, FirmwareFirst
  <2>2. CASE f = "old"
    BY <1>2, <1>e, <2>1, <2>2 DEF FirmwareRead, Endings
  <2>3. CASE f # "old"
    BY <1>2, <1>q, <2>1, <2>3 DEF FirmwareRead, linkVars
  <2>4. QED
    BY <2>2, <2>3
<1>3. CASE ConnectFails
  BY <1>3, <1>e DEF ConnectFails, Endings
<1>4. CASE Subscribed
  BY <1>4, <1>a, AloneConnecting, EnterLate DEF Subscribed, AllKinds
<1>5. ASSUME NEW t \in Senders, NEW k \in Kinds, Send(t, k) PROVE LateInv'
  <2>1. CASE LockFree
    BY <2>1, <1>5, <1>a, AloneByLock, EnterLate DEF Send, LockFree, AllKinds
  <2>2. CASE ~LockFree
    BY <2>2, <1>5, <1>q DEF Send, Queue, linkVars
  <2>3. QED
    BY <2>1, <2>2
<1>6. ASSUME NEW t \in Tasks, Acquire(t) \/ PauseOver(t) PROVE LateInv'
  <2>1. holder \in {t, NoTask} /\ Enter(t, asked[t]) /\ pc[t] \in {"queued", "pausing"}
        /\ UNCHANGED <<firmware, overran, cipher, hold>>
    BY <1>6, <1>a DEF Acquire, PauseOver, HolderExchanges
  <2>2. asked[t] \in AllKinds
    BY DEF TInv, TypeOK
  <2>3. QED
    BY <2>1, <2>2, <1>a, AloneByLock, EnterLate
<1>7. ASSUME NEW t \in Tasks, WriteFails(t) \/ TimeOut(t) PROVE LateInv'
  <2>1. CASE WriteFails(t)
    BY <2>1, LeaveWritingLate DEF WriteFails, InFlight, Endings
  <2>2. CASE TimeOut(t)
    BY <2>2, LeaveWritingLate DEF TimeOut, Endings
  <2>3. QED
    BY <1>7, <2>1, <2>2
<1>8. ASSUME NEW t \in Tasks, Cancel(t) PROVE LateInv'
  <2>1. CASE InFlight(t) /\ LeaveWriting(t, "cancelled")
    BY <1>8, <2>1, LeaveWritingLate DEF Cancel, Endings
  <2>2. CASE ~InFlight(t) /\ End(t, "cancelled") /\ UNCHANGED pending
    <3>1. /\ pc' = [pc EXCEPT ![t] = "done"] /\ outcome' = [outcome EXCEPT ![t] = "cancelled"]
          /\ \/ UNCHANGED <<link, toLock, answers>>
             \/ link' = "closed" /\ toLock' = <<>> /\ answers' = <<>>
      BY <2>2 DEF End
    <3>2. pc[t] # "done" /\ UNCHANGED <<firmware, overran, hold, sent, current, future>>
      BY <1>8 DEF Cancel, InExchange
    <3>3. QED
      BY <2>2, <3>1, <3>2, EndLate DEF Endings
  <2>3. QED
    BY <1>8, <2>1, <2>2 DEF Cancel
<1>9. ASSUME NEW t \in Tasks, Failed(t) PROVE LateInv'
  <2>1. /\ pc[t] = "waiting" /\ future[t] = Lost /\ End(t, "disconnected") /\ pending' = NoTask
        /\ UNCHANGED <<firmware, overran, hold, sent, current, future>>
    BY <1>9 DEF Failed, Leave
  <2>2. /\ pc' = [pc EXCEPT ![t] = "done"] /\ outcome' = [outcome EXCEPT ![t] = "disconnected"]
        /\ \/ UNCHANGED <<link, toLock, answers>>
           \/ link' = "closed" /\ toLock' = <<>> /\ answers' = <<>>
    BY <2>1 DEF End
  <2>3. InFlight(t) /\ pc[t] # "done" /\ future[t] # 0 /\ "disconnected" \in Endings
    BY <2>1 DEF InFlight, Lost, Endings
  <2>4. QED
    BY <2>1, <2>2, <2>3, EndLate
<1>10. ASSUME NEW t \in Tasks, Written(t) \/ Answered(t) PROVE LateInv'
  BY <1>10, WrittenLate, AnsweredLate
<1>11. CASE HoldExpires \/ LockReads \/ Notification \/ Disconnect \/ Close
  BY <1>11, HoldExpiresLate, LockReadsLate, NotificationLate, ClosingLate
<1>12. CASE UNCHANGED vars
  BY <1>12, QuietLate DEF vars, sessionVars, taskVars, linkVars, InFlight
<1>13. QED
  BY <1>1, <1>2, <1>3, <1>4, <1>5, <1>6, <1>7, <1>8, <1>9, <1>10, <1>11, <1>12 DEF Next

LEMMA InitAnswerInv == Init => AnswerInv
<1> SUFFICES ASSUME Init PROVE AnswerInv
  OBVIOUS
<1>1. Len(sent) = 0 /\ Len(toLock) = 0 /\ Len(answers) = 0 /\ Positions = {}
  BY EmptySeq DEF Init, Positions
<1>2. FirmwareFirst /\ RefsInTurn
  BY ConnectorIsTask DEF Init, FirmwareFirst, RefsInTurn, InExchange
<1>3. AirDistinct /\ \A n : ~InAir(n)
  BY <1>1 DEF AirDistinct, InAir
<1>4. PendingIsLast /\ DownCarriesNothing /\ OnceInAir
  BY <1>1, <1>3 DEF Init, PendingIsLast, DownCarriesNothing, OnceInAir, InFlight, Lost
<1>5. LateExplained /\ AnswersAreOwn
  BY <1>1 DEF Init, LateExplained, AnswersAreOwn
<1>6. QED
  BY <1>2, <1>4, <1>5 DEF AnswerInv, LateInv

LEMMA SpecAnswerInv == Spec => []AnswerInv
<1>1. TInv /\ ExchangeInv /\ AnswerInv /\ [Next]_vars => AnswerInv'
  BY NextFirmwareFirst, NextRefsInTurn, NextLateInv DEF AnswerInv
<1>2. QED
  BY <1>1, InitAnswerInv, SpecTInv, SpecExchangeInv, PTL DEF Spec

(* Matching an answer to the command that waits (_on_notification) by ref, *)
(* and by id where the ref is static, gives a caller its own answer.  What *)
(* is left is what the wire leaves open: an answer a full turn of          *)
(* CommandRefCounter late, and under the static ref an answer of the same  *)
(* kind after some earlier command was cancelled, failed while it was      *)
(* written, or timed out with an answer that outlasted the grace period.   *)
THEOREM AnswersStayOwn == Spec => []AnswersAreOwn
<1>1. AnswerInv => AnswersAreOwn
  BY DEF AnswerInv, LateInv
<1>2. QED
  BY <1>1, SpecAnswerInv, PTL
=============================================================================
