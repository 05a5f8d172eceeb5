------------------------------ MODULE BlePackets ------------------------------
(***************************************************************************)
(* Layer 1 of the Bluetooth protocol: payloads cut into packets            *)
(* (packetize) and put back together by PacketStream and BlobAssembler     *)
(* (ble/protocol/packet.py and blob.py), over a link that may lose         *)
(* notifications.                                                          *)
(*                                                                         *)
(* A payload is a sequence of bytes <<p, i>>, the i-th byte of the p-th    *)
(* payload the lock sent, so that what is delivered shows where every byte *)
(* of it came from.  The lock cuts its payloads the way packetize does.    *)
(* Nothing in the session resets the stream while the connection lasts, a  *)
(* timeout least of all: the next connection has a stream of its own.      *)
(***************************************************************************)
EXTENDS Integers, Sequences, SequencesExt

CONSTANTS
  Room,         \* the payload bytes a packet carries, _packet_room(mtu)
  PacketHeader, \* PACKET_HEADER_SIZE
  BlobHeader,   \* BLOB_HEADER_SIZE
  SeqValues,    \* the values of the one-byte sequence number, 256
  Lengths,      \* the lengths of the payloads the lock sends
  MaxPayloads,  \* bound: payloads sent
  MaxExtras,    \* bound: packets of the lock that belong to no payload
  MaxDrops      \* bound: times the connection is lost

ASSUME RoomAssumption ==
  /\ {Room, PacketHeader, BlobHeader, SeqValues} \subseteq Nat \ {0}
  /\ Room > BlobHeader /\ BlobHeader >= PacketHeader
ASSUME LengthsAssumption == Lengths \subseteq Nat \ {0}
ASSUME BoundsAssumption  == {MaxPayloads, MaxExtras, MaxDrops} \subseteq Nat

VARIABLES
  air,       \* the notifications on their way, in order
  blob,      \* the BlobAssembler of the stream, or NoBlob
  lastSeq,   \* _last_sequence
  delivered, \* the payloads handed up
  sent,      \* the lengths of the payloads the lock sent, in order
  hurt,      \* those a notification was lost or thrown away of
  headless,  \* those whose first packet was lost
  first,     \* those that came first on their connection
  extras,    \* packets sent that belong to no payload
  drops      \* times the connection was lost

streamVars == <<blob, lastSeq, delivered>>
ghostVars  == <<hurt, headless, first>>
vars       == <<air, streamVars, sent, ghostVars, extras, drops>>

NoBlob   == <<>>
Payloads == 1..Len(sent)
Bytes(p, from, to) == [i \in 1..(to - from + 1) |-> <<p, from + i - 1>>]
Whole(p) == Bytes(p, 1, sent[p])
Owners(data) == {data[i][1] : i \in DOMAIN data}

Init ==
  /\ air = <<>> /\ blob = NoBlob /\ lastSeq = 0 /\ delivered = {}
  /\ sent = <<>> /\ hurt = {} /\ headless = {} /\ first = {1} /\ extras = 0 /\ drops = 0
-----------------------------------------------------------------------------
(***************************************************************************)
(* packetize.                                                              *)
(***************************************************************************)
Fits(n)  == n + PacketHeader <= Room
Start    == Room - BlobHeader
Count(n) == 1 + (n - Start + Room - 1) \div Room

(* The k-th chunk of a blob: the first one shares its packet with the header. *)
Chunk(p, n, k) ==
  IF k = 1 THEN Bytes(p, 1, Start)
  ELSE LET from == Start + (k - 2) * Room + 1
       IN Bytes(p, from, IF from + Room - 1 < n THEN from + Room - 1 ELSE n)

Packet(type, seq, length, data) ==
  [type |-> type, seq |-> seq % SeqValues, length |-> length, data |-> data]

Packetize(p, n) ==
  IF Fits(n) THEN <<Packet("Single", 1, 0, Bytes(p, 1, n))>>
  ELSE [k \in 1..Count(n) |->
          Packet(CASE k = 1 -> "BlobStart" [] k = Count(n) -> "BlobComplete" [] OTHER -> "BlobStream",
                 k, IF k = 1 THEN n ELSE 0, Chunk(p, n, k))]
-----------------------------------------------------------------------------
(***************************************************************************)
(* PacketStream.receive.                                                   *)
(***************************************************************************)
NextInBlob(packet) == blob # NoBlob /\ packet.seq = (lastSeq + 1) % SeqValues
Grown(packet)      == blob.data \o packet.data

(* Variation: the chunks need only fit, whatever length the header declared. *)
Completes_short(packet) ==
  packet.type = "BlobComplete" /\ NextInBlob(packet) /\ Len(Grown(packet)) <= blob.length

(* The packets _receive takes; every other one raises BleProtocolError.    *)
Starts(packet)    == packet.type = "BlobStart" /\ blob = NoBlob /\ Len(packet.data) <= packet.length
Alone(packet)     == packet.type = "Single" /\ blob = NoBlob
Continues(packet) ==
  packet.type = "BlobStream" /\ NextInBlob(packet) /\ Len(Grown(packet)) <= blob.length
Completes(packet) ==
  packet.type = "BlobComplete" /\ NextInBlob(packet) /\ Len(Grown(packet)) = blob.length
IsStatus(packet)  == packet.type = "Status"

Refused(packet) ==
  ~(Starts(packet) \/ Alone(packet) \/ Continues(packet) \/ Completes(packet) \/ IsStatus(packet))

Reset == blob' = NoBlob /\ lastSeq' = 0

(* An error drops the blob in progress, and the packet with it.            *)
Refuse(packet) ==
  /\ Refused(packet) /\ Reset /\ UNCHANGED delivered
  /\ hurt' = hurt \cup IF packet.type = "Unknown" /\ blob # NoBlob THEN Owners(blob.data) ELSE {}

(* Variation: the stream stays in the blob it has handed up. *)
Complete_staysIn(packet) ==
  /\ Completes(packet)
  /\ delivered' = delivered \cup {Grown(packet)}
  /\ UNCHANGED <<blob, lastSeq, hurt>>

(* The last chunk: the payload is handed up and the stream starts over. *)
Complete(packet) ==
  /\ Completes(packet)
  /\ delivered' = delivered \cup {Grown(packet)}
  /\ Reset /\ UNCHANGED hurt

Receive ==
  /\ air # <<>> /\ air' = Tail(air)
  /\ LET packet == Head(air)
     IN \/ Refuse(packet)
        \/ /\ IsStatus(packet)
           /\ UNCHANGED <<streamVars, hurt>>
        \/ /\ Alone(packet)
           /\ delivered' = delivered \cup {packet.data}
           /\ UNCHANGED <<blob, lastSeq, hurt>>
        \/ /\ Starts(packet)
           /\ blob' = [length |-> packet.length, data |-> packet.data] /\ lastSeq' = packet.seq
           /\ UNCHANGED <<delivered, hurt>>
        \/ /\ Continues(packet)
           /\ blob' = [blob EXCEPT !.data = Grown(packet)] /\ lastSeq' = packet.seq
           /\ UNCHANGED <<delivered, hurt>>
        \/ Complete(packet)
  /\ UNCHANGED <<sent, headless, first, extras, drops>>
-----------------------------------------------------------------------------
(***************************************************************************)
(* The lock and the link.                                                  *)
(***************************************************************************)
Send(n) ==
  /\ Len(sent) < MaxPayloads
  /\ sent' = Append(sent, n)
  /\ air' = air \o Packetize(Len(sent) + 1, n)
  /\ UNCHANGED <<streamVars, ghostVars, extras, drops>>

(* An ACK, NAC or ERROR, or a type the code does not know, between any two *)
(* notifications.                                                          *)
SendExtra(type) ==
  /\ extras < MaxExtras /\ extras' = extras + 1
  /\ \E i \in 1..(Len(air) + 1) : air' = InsertAt(air, i, Packet(type, 1, 0, <<>>))
  /\ UNCHANGED <<streamVars, sent, ghostVars, drops>>

(* A notification that never reaches the host. *)
Lose ==
  /\ air # <<>> /\ air' = Tail(air)
  /\ hurt' = hurt \cup Owners(Head(air).data)
  /\ headless' = headless \cup IF Head(air).type = "BlobStart" THEN Owners(Head(air).data) ELSE {}
  /\ UNCHANGED <<streamVars, sent, first, extras, drops>>

(* The link drops.  A Session connects once, so what comes after it has a  *)
(* stream of its own, and what was on its way is gone.                     *)
Reconnect ==
  /\ drops < MaxDrops /\ drops' = drops + 1
  /\ Reset /\ air' = <<>>
  /\ hurt' = hurt \cup UNION {Owners(air[i].data) : i \in DOMAIN air}
  /\ first' = first \cup {Len(sent) + 1}
  /\ UNCHANGED <<delivered, sent, headless, extras>>

Next ==
  \/ Receive \/ Lose \/ Reconnect
  \/ \E n \in Lengths : Send(n)
  \/ \E type \in {"Status", "Unknown"} : SendExtra(type)

Spec == Init /\ [][Next]_vars
-----------------------------------------------------------------------------
(***************************************************************************)
(* Properties.                                                             *)
(***************************************************************************)

(* What the stream hands up is one payload of the lock, whole and in       *)
(* order, whatever got lost between.  It can be glued from two only where  *)
(* the end of one was lost together with the start of the next, whose      *)
(* later packets then carry the sequence numbers and make up the length    *)
(* the stream waits for; nothing in a packet tells the two apart.          *)
WholeOrNothing ==
  \A data \in delivered :
    \/ \E p \in Payloads : data = Whole(p)
    \/ \E p \in Owners(data) \cap headless : p # data[1][1]

(* A lost packet costs its own payload and at most the next one: one that  *)
(* arrives undisturbed is delivered if the payload before it arrived       *)
(* undisturbed too, or none came before it on its connection.              *)
BackInStep ==
  \A p \in Payloads \ hurt :
    (p \in first \/ p - 1 \notin hurt) =>
      \/ Whole(p) \in delivered
      \/ \E i \in DOMAIN air : p \in Owners(air[i].data)
=============================================================================
