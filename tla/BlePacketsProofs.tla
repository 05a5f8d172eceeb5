--------------------------- MODULE BlePacketsProofs ---------------------------
(***************************************************************************)
(* Proofs about the packets of BlePackets, for every packet size, every    *)
(* number of sequence values and every list of payloads: what the stream   *)
(* hands up is one payload whole, and it is back in step by itself.        *)
(***************************************************************************)
EXTENDS BlePackets, SequenceTheorems, TLAPS

-----------------------------------------------------------------------------
(***************************************************************************)
(* What packetize makes of a payload.                                      *)
(***************************************************************************)

(* The packets of a payload of n bytes, and the bytes the k-th carries.    *)
Pieces(n)      == IF Fits(n) THEN 1 ELSE Count(n)
FirstByte(n, k) == IF k = 1 THEN 1 ELSE Start + (k - 2) * Room + 1
LastByte(n, k)  == IF k = Pieces(n) THEN n ELSE Start + (k - 1) * Room

PacketOf(p, k) == Packetize(p, sent[p])[k]

Shapes == [type : {"Single", "BlobStart", "BlobStream", "BlobComplete", "Status", "Unknown"},
           seq : Nat, length : Nat, data : Seq(Nat \X Nat)]

(* A packet the lock sends apart from its payloads. *)
IsExtra(x) == x.type \in {"Status", "Unknown"} /\ x.data = <<>>

(* Arithmetic: the division packetize rounds up with, and the wrap of the  *)
(* sequence number.                                                        *)
LEMMA RoundedUp ==
  ASSUME NEW m \in Nat \ {0}, NEW r \in Nat \ {0}
  PROVE  LET q == (m + r - 1) \div r
         IN  q \in Nat \ {0} /\ q * r >= m /\ (q - 1) * r < m
<1> DEFINE x == m + r - 1
           q == x \div r
<1>1. x \in Nat /\ x >= r
  OBVIOUS
<1>2. q \in Int /\ x % r \in 0..(r - 1) /\ x = q * r + (x % r)
  <2> HIDE DEF x
  <2>1. QED
    BY <1>1, Z3
<1>3. q * r > x - r /\ q * r <= x
  <2> HIDE DEF q
  <2>1. QED
    BY <1>1, <1>2
<1>4. q >= 1
  <2> HIDE DEF q
  <2>1. CASE q <= 0
    <3>1. q * r <= 0
      BY <1>2, <2>1, Z3
    <3>2. q * r > 0
      BY <1>1, <1>2, <1>3
    <3>3. QED
      BY <1>2, <3>1, <3>2
  <2>2. QED
    BY <1>2, <2>1
<1>5. (q - 1) * r = q * r - r
  <2> HIDE DEF q
  <2>1. QED
    BY <1>2
<1>6. QED
  BY <1>2, <1>3, <1>4, <1>5

LEMMA WrapAdds ==
  ASSUME NEW a \in Int, NEW z \in 0..(SeqValues - 1)
  PROVE  (a * SeqValues + z) % SeqValues = z
<1>1. SeqValues \in Nat \ {0}
  BY RoomAssumption
<1>2. QED
  BY <1>1, Z3

LEMMA WrapSteps ==
  ASSUME NEW k \in Nat
  PROVE  /\ k % SeqValues \in Nat
         /\ ((k % SeqValues) + 1) % SeqValues = (k + 1) % SeqValues
<1> DEFINE S == SeqValues
           a == k \div S
           z == k % S
<1>0. S \in Nat \ {0}
  BY RoomAssumption
<1>1. a \in Int /\ z \in 0..(S - 1) /\ k = a * S + z
  BY <1>0, Z3
<1>2. CASE z + 1 < S
  <2>1. k + 1 = a * S + (z + 1) /\ z + 1 \in 0..(S - 1)
    <3> HIDE DEF a, z
    <3>1. QED
      BY <1>0, <1>1, <1>2
  <2>2. (k + 1) % S = z + 1
    <3> HIDE DEF a, z
    <3>1. (a * S + (z + 1)) % S = z + 1
      BY <1>1, <2>1, WrapAdds
    <3>2. QED
      BY <2>1, <3>1
  <2>3. (z + 1) % S = z + 1
    <3> HIDE DEF a, z
    <3>1. (0 * S + (z + 1)) % S = z + 1
      BY <2>1, WrapAdds
    <3>2. 0 * S + (z + 1) = z + 1
      BY <1>0, <2>1
    <3>3. QED
      BY <3>1, <3>2
  <2>4. QED
    BY <1>1, <2>2, <2>3
<1>3. CASE z + 1 = S
  <2>1. k + 1 = (a + 1) * S + 0 /\ a + 1 \in Int
    <3> HIDE DEF a, z
    <3>1. (a + 1) * S = a * S + S
      BY <1>0, <1>1
    <3>2. QED
      BY <1>0, <1>1, <1>3, <3>1
  <2>2. (k + 1) % S = 0
    <3> HIDE DEF a, z
    <3>1. ((a + 1) * S + 0) % S = 0
      BY <1>0, <2>1, WrapAdds
    <3>2. QED
      BY <2>1, <3>1
  <2>3. (z + 1) % S = 0
    <3> HIDE DEF a, z
    <3>1. (1 * S + 0) % S = 0
      BY <1>0, WrapAdds
    <3>2. 1 * S + 0 = z + 1
      BY <1>0, <1>1, <1>3
    <3>3. QED
      BY <3>1, <3>2
  <2>4. QED
    BY <1>1, <2>2, <2>3
<1>4. QED
  BY <1>0, <1>1, <1>2, <1>3

(* The chunks cover the payload: each starts where the one before it ends. *)
LEMMA Cuts ==
  ASSUME NEW n \in Nat \ {0}
  PROVE  /\ Pieces(n) \in Nat \ {0}
         /\ Fits(n) <=> Pieces(n) = 1
         /\ \A k \in 1..Pieces(n) :
              /\ FirstByte(n, k) \in Nat \ {0} /\ LastByte(n, k) \in Nat
              /\ FirstByte(n, k) <= LastByte(n, k) /\ LastByte(n, k) <= n
              /\ k < Pieces(n) => LastByte(n, k) < n /\ FirstByte(n, k + 1) = LastByte(n, k) + 1
<1>0. /\ Room \in Nat \ {0} /\ PacketHeader \in Nat \ {0} /\ BlobHeader \in Nat \ {0}
      /\ Room > BlobHeader /\ BlobHeader >= PacketHeader /\ Start \in Nat \ {0} /\ Start < Room
  BY RoomAssumption DEF Start
<1>1. CASE Fits(n)
  <2>1. Pieces(n) = 1
    BY <1>1 DEF Pieces
  <2>2. QED
    BY <1>1, <2>1 DEF FirstByte, LastByte
<1>2. CASE ~Fits(n)
  <2> DEFINE q == (n - Start + Room - 1) \div Room
  <2>1. n - Start \in Nat \ {0}
    BY <1>0, <1>2 DEF Fits, Start
  <2>2. q \in Nat \ {0} /\ q * Room >= n - Start /\ (q - 1) * Room < n - Start
    BY <1>0, <2>1, RoundedUp
  <2>3. Pieces(n) = q + 1
    <3>1. Pieces(n) = 1 + q
      BY <1>2 DEF Pieces, Count
    <3> HIDE DEF q
    <3>2. QED
      BY <2>2, <3>1
  <2> HIDE DEF q
  <2>4. ASSUME NEW k \in 1..q
        PROVE  /\ (k - 1) * Room \in Nat /\ (k - 1) * Room <= (q - 1) * Room
               /\ k > 1 => (k - 2) * Room = (k - 1) * Room - Room
    <3>1. (q - 1) * Room = (k - 1) * Room + (q - k) * Room
      BY <1>0, <2>2, <2>4, Z3
    <3>2. (q - k) * Room \in Nat /\ (k - 1) * Room \in Nat
      BY <1>0, <2>2, <2>4, Z3
    <3>3. k > 1 => (k - 2) * Room = (k - 1) * Room - Room
      BY <1>0, <2>2, <2>4, Z3
    <3>4. (k - 1) * Room <= (q - 1) * Room
      <4> DEFINE a == (k - 1) * Room
                 b == (q - k) * Room
      <4>1. a \in Nat /\ b \in Nat /\ (q - 1) * Room = a + b
        BY <3>1, <3>2
      <4> HIDE DEF a, b
      <4>2. a <= a + b
        BY <4>1
      <4>3. QED
        BY <4>1, <4>2 DEF a
    <3>5. QED
      BY <3>2, <3>3, <3>4
  <2>5. ASSUME NEW k \in 1..q
        PROVE  /\ FirstByte(n, k) \in Nat \ {0} /\ LastByte(n, k) \in Nat
               /\ FirstByte(n, k) <= LastByte(n, k) /\ LastByte(n, k) < n
               /\ FirstByte(n, k + 1) = LastByte(n, k) + 1
    <3> DEFINE a == (k - 1) * Room
               b == (q - 1) * Room
    <3>1. a \in Nat /\ a <= b /\ b < n - Start /\ (k > 1 => (k - 2) * Room = a - Room)
      BY <2>2, <2>4
    <3>b. b \in Int
      BY <1>0, <2>2
    <3>2. LastByte(n, k) = Start + a
      BY <2>2, <2>3 DEF LastByte
    <3>3. FirstByte(n, k + 1) = Start + a + 1
      <4>1. k + 1 # 1 /\ k + 1 - 2 = k - 1
        BY <2>2
      <4>2. QED
        BY <4>1 DEF FirstByte
    <3>4. FirstByte(n, k) = IF k = 1 THEN 1 ELSE Start + (a - Room) + 1
      BY <3>1, <2>2 DEF FirstByte
    <3>5. k = 1 => a = 0
      BY <1>0
    <3>r. k > 1 => a >= Room
      <4>1. CASE k > 1
        <5>1. (k - 2) * Room >= 0
          BY <1>0, <2>2, <4>1, Z3
        <5>2. (k - 2) * Room = a - Room
          BY <3>1, <4>1
        <5> HIDE DEF a
        <5>3. QED
          BY <1>0, <3>1, <5>1, <5>2
      <4>2. QED
        BY <4>1
    <3> HIDE DEF a, b
    <3>6. QED
      BY <1>0, <2>2, <3>1, <3>b, <3>2, <3>3, <3>4, <3>5, <3>r
  <2>6. /\ FirstByte(n, q + 1) \in Nat \ {0} /\ LastByte(n, q + 1) = n
        /\ FirstByte(n, q + 1) <= n
    <3>1. FirstByte(n, q + 1) = LastByte(n, q) + 1 /\ LastByte(n, q) \in Nat /\ LastByte(n, q) < n
      BY <2>2, <2>5
    <3>2. QED
      BY <3>1, <2>3 DEF LastByte
  <2>7. \A k \in 1..(q + 1) : k \in 1..q \/ k = q + 1
    BY <2>2
  <2>8. QED
    BY <1>2, <2>2, <2>3, <2>5, <2>6, <2>7
<1>3. QED
  BY <1>1, <1>2

LEMMA ChunkEnds ==
  ASSUME NEW n \in Nat \ {0}, ~Fits(n), NEW k \in 1..Pieces(n)
  PROVE  LastByte(n, k) = IF k = 1 THEN Start
                          ELSE IF FirstByte(n, k) + Room - 1 < n THEN FirstByte(n, k) + Room - 1 ELSE n
<1>0. Room \in Nat \ {0} /\ Start \in Nat \ {0}
  BY RoomAssumption DEF Start
<1>1. Pieces(n) \in Nat /\ Pieces(n) > 1 /\ LastByte(n, k) \in Nat /\ FirstByte(n, k) \in Nat
  BY Cuts
<1>2. CASE k = 1
  BY <1>0, <1>1, <1>2 DEF LastByte
<1>3. CASE k > 1
  <2>1. FirstByte(n, k) = Start + (k - 2) * Room + 1
    BY <1>3 DEF FirstByte
  <2>2. (k - 1) * Room = (k - 2) * Room + Room
    BY <1>0, <1>1, Z3
  <2> DEFINE a == (k - 2) * Room
             b == (k - 1) * Room
  <2>3. a \in Int /\ b = a + Room
    BY <1>0, <1>1, <2>2
  <2>4. CASE k < Pieces(n)
    <3>1. LastByte(n, k) = Start + b /\ LastByte(n, k) < n
      BY <2>4, Cuts DEF LastByte
    <3> HIDE DEF a, b
    <3>2. FirstByte(n, k) = Start + a + 1
      BY <2>1 DEF a
    <3>3. QED
      BY <1>0, <1>3, <2>3, <3>1, <3>2
  <2>5. CASE k = Pieces(n)
    <3>1. Pieces(n) = 1 + (n - Start + Room - 1) \div Room
      BY DEF Pieces, Count
    <3>2. n - Start \in Nat \ {0}
      BY RoomAssumption DEF Fits, Start
    <3> DEFINE q == (n - Start + Room - 1) \div Room
    <3>3. q \in Nat /\ q * Room >= n - Start
      BY <1>0, <3>2, RoundedUp
    <3>4. k - 1 = q
      <4> HIDE DEF q
      <4>1. k = 1 + q
        BY <2>5, <3>1 DEF q
      <4>2. QED
        BY <3>3, <4>1
    <3>5. b >= n - Start
      BY <3>3, <3>4
    <3>6. LastByte(n, k) = n
      BY <2>5 DEF LastByte
    <3> HIDE DEF a, b
    <3>7. FirstByte(n, k) = Start + a + 1
      BY <2>1 DEF a
    <3>8. QED
      BY <1>0, <1>3, <2>3, <3>5, <3>6, <3>7
  <2>6. QED
    BY <1>1, <2>4, <2>5
<1>4. QED
  BY <1>1, <1>2, <1>3

LEMMA CutsRise ==
  ASSUME NEW n \in Nat \ {0}, NEW k \in 1..Pieces(n), NEW l \in 1..Pieces(n), k < l
  PROVE  LastByte(n, k) < FirstByte(n, l)
<1>0. Room \in Nat \ {0} /\ Start \in Nat \ {0} /\ Pieces(n) \in Nat
  BY RoomAssumption, Cuts DEF Start
<1>1. LastByte(n, k) = Start + (k - 1) * Room
  BY <1>0 DEF LastByte
<1>2. FirstByte(n, l) = Start + (l - 2) * Room + 1
  BY DEF FirstByte
<1> DEFINE a == (k - 1) * Room
           b == (l - 2) * Room
           e == (l - 1 - k) * Room
<1>3. b = a + e
  BY <1>0, Z3
<1>4. a \in Int /\ e >= 0 /\ e \in Int
  BY <1>0, Z3
<1> HIDE DEF a, b, e
<1>5. LastByte(n, k) = Start + a /\ FirstByte(n, l) = Start + b + 1
  BY <1>1, <1>2 DEF a, b
<1>6. QED
  BY <1>0, <1>3, <1>4, <1>5

LEMMA BytesAre ==
  ASSUME NEW p \in Nat, NEW a \in Nat \ {0}, NEW b \in Nat, a <= b
  PROVE  /\ Bytes(p, a, b) \in Seq({p} \X Nat) \ {<<>>} /\ Bytes(p, a, b) \in Seq(Nat \X Nat)
         /\ Len(Bytes(p, a, b)) = b - a + 1 /\ DOMAIN Bytes(p, a, b) = 1..(b - a + 1)
         /\ \A i \in 1..(b - a + 1) : Bytes(p, a, b)[i] = <<p, a + i - 1>>
         /\ Owners(Bytes(p, a, b)) = {p}
<1>1. b - a + 1 \in Nat \ {0}
  OBVIOUS
<1>2. Bytes(p, a, b) \in [1..(b - a + 1) -> {p} \X Nat] /\ Bytes(p, a, b) \in [1..(b - a + 1) -> Nat \X Nat]
  BY DEF Bytes
<1>3. Bytes(p, a, b) \in Seq({p} \X Nat) /\ Bytes(p, a, b) \in Seq(Nat \X Nat)
  BY <1>1, <1>2, SeqDef
<1>4. /\ Len(Bytes(p, a, b)) = b - a + 1 /\ DOMAIN Bytes(p, a, b) = 1..(b - a + 1)
      /\ \A i \in 1..(b - a + 1) : Bytes(p, a, b)[i] = <<p, a + i - 1>>
  BY <1>1, <1>2, <1>3, LenProperties DEF Bytes
<1>5. Bytes(p, a, b) # <<>>
  BY <1>1, <1>4, EmptySeq
<1>6. Owners(Bytes(p, a, b)) = {p}
  <2>1. \A i \in 1..(b - a + 1) : Bytes(p, a, b)[i][1] = p
    BY <1>4
  <2>2. 1 \in 1..(b - a + 1)
    BY <1>1
  <2>3. QED
    BY <1>4, <2>1, <2>2 DEF Owners
<1>7. QED
  BY <1>3, <1>4, <1>5, <1>6

(* The k-th packet of a payload of n bytes. *)
LEMMA PacketIs ==
  ASSUME NEW p \in Nat, NEW n \in Nat \ {0}, NEW k \in 1..Pieces(n)
  PROVE  LET x == Packetize(p, n)[k]
         IN  /\ x \in Shapes
             /\ x.data = Bytes(p, FirstByte(n, k), LastByte(n, k))
             /\ x.data # <<>> /\ x.data[1] = <<p, FirstByte(n, k)>> /\ Owners(x.data) = {p}
             /\ Len(x.data) = LastByte(n, k) - FirstByte(n, k) + 1
             /\ Fits(n) => x.type = "Single"
             /\ ~Fits(n) => /\ x.type = (CASE k = 1 -> "BlobStart"
                                            [] k = Pieces(n) -> "BlobComplete"
                                            [] OTHER -> "BlobStream")
                            /\ x.seq = k % SeqValues
                            /\ k = 1 => x.length = n
<1> DEFINE x == Packetize(p, n)[k]
<1>0. /\ Pieces(n) \in Nat \ {0} /\ FirstByte(n, k) \in Nat \ {0} /\ LastByte(n, k) \in Nat
      /\ FirstByte(n, k) <= LastByte(n, k)
  BY Cuts
<1>1. k % SeqValues \in Nat /\ 1 % SeqValues \in Nat
  BY WrapSteps
<1> DEFINE a == FirstByte(n, k)
           b == LastByte(n, k)
           d == Bytes(p, a, b)
<1>d. /\ d \in Seq(Nat \X Nat) /\ d # <<>> /\ Owners(d) = {p}
      /\ Len(d) = b - a + 1 /\ d[1] = <<p, a>>
  <2> HIDE DEF a, b
  <2>1. a \in Nat \ {0} /\ b \in Nat /\ a <= b
    BY <1>0 DEF a, b
  <2>2. /\ d \in Seq({p} \X Nat) \ {<<>>} /\ d \in Seq(Nat \X Nat) /\ Owners(d) = {p}
        /\ Len(d) = b - a + 1 /\ \A i \in 1..(b - a + 1) : d[i] = <<p, a + i - 1>>
    BY <2>1, BytesAre
  <2>3. d[1] = <<p, a + 1 - 1>> /\ a + 1 - 1 = a
    BY <2>1, <2>2
  <2>4. QED
    BY <2>2, <2>3
<1> HIDE DEF d
<1>2. CASE Fits(n)
  <2>1. k = 1 /\ Pieces(n) = 1
    BY <1>2 DEF Pieces
  <2>2. x = [type |-> "Single", seq |-> 1 % SeqValues, length |-> 0, data |-> Bytes(p, 1, n)]
    BY <1>2, <2>1 DEF Packetize, Packet
  <2>3. Bytes(p, 1, n) = d
    BY <2>1 DEF FirstByte, LastByte, d
  <2>4. x = [type |-> "Single", seq |-> 1 % SeqValues, length |-> 0, data |-> d]
    BY <2>2, <2>3
  <2> HIDE DEF x
  <2>5. x \in Shapes
    BY <1>1, <1>d, <2>4 DEF Shapes
  <2>6. x.data = d /\ x.type = "Single"
    BY <2>4
  <2>7. QED
    BY <1>2, <1>d, <2>5, <2>6 DEF x, d
<1>3. CASE ~Fits(n)
  <2>1. Pieces(n) = Count(n)
    BY <1>3 DEF Pieces
  <2>2. Chunk(p, n, k) = Bytes(p, FirstByte(n, k), LastByte(n, k))
    BY <1>3, ChunkEnds DEF Chunk, FirstByte
  <2>3. x = [type |-> CASE k = 1 -> "BlobStart" [] k = Count(n) -> "BlobComplete" [] OTHER -> "BlobStream",
             seq |-> k % SeqValues, length |-> IF k = 1 THEN n ELSE 0, data |-> d]
    BY <1>3, <2>1, <2>2 DEF Packetize, Packet, d
  <2> HIDE DEF x
  <2>4. x \in Shapes
    BY <1>1, <1>d, <2>3 DEF Shapes
  <2>5. /\ x.data = d /\ x.seq = k % SeqValues /\ (k = 1 => x.length = n)
        /\ x.type = (CASE k = 1 -> "BlobStart" [] k = Pieces(n) -> "BlobComplete" [] OTHER -> "BlobStream")
    BY <2>1, <2>3
  <2>6. QED
    BY <1>3, <1>d, <2>4, <2>5 DEF x, d
<1>4. QED
  BY <1>2, <1>3

LEMMA PacketizeIs ==
  ASSUME NEW p \in Nat, NEW n \in Nat \ {0}
  PROVE  Packetize(p, n) \in Seq(Shapes) /\ Len(Packetize(p, n)) = Pieces(n)
<1>0. Pieces(n) \in Nat
  BY Cuts
<1>1. Packetize(p, n) \in [1..Pieces(n) -> Shapes]
  <2>1. \A k \in 1..Pieces(n) : Packetize(p, n)[k] \in Shapes
    BY PacketIs
  <2>2. CASE Fits(n)
    <3>1. Pieces(n) = 1 /\ 1 \in 1..Pieces(n)
      BY <2>2 DEF Pieces
    <3>2. Packetize(p, n) = <<Packetize(p, n)[1]>>
      BY <2>2 DEF Packetize
    <3>3. QED
      BY <2>1, <3>1, <3>2
  <2>3. CASE ~Fits(n)
    <3>1. DOMAIN Packetize(p, n) = 1..Pieces(n)
      BY <2>3 DEF Packetize, Pieces
    <3>2. Packetize(p, n) = [k \in 1..Pieces(n) |-> Packetize(p, n)[k]]
      BY <2>3 DEF Packetize, Pieces
    <3>3. QED
      BY <2>1, <3>2
  <2>4. QED
    BY <2>2, <2>3
<1>2. Packetize(p, n) \in Seq(Shapes)
  BY <1>0, <1>1, SeqDef
<1>3. DOMAIN Packetize(p, n) = 1..Pieces(n)
  BY <1>1
<1>4. QED
  BY <1>0, <1>2, <1>3, LenProperties

-----------------------------------------------------------------------------
(***************************************************************************)
(* The notifications on their way.                                         *)
(***************************************************************************)

(* The k-th packet of payload p is on its way. *)
OnAir(p, k) == \E i \in 1..Len(air) : air[i] = PacketOf(p, k)

Parts(p) == 1..Pieces(sent[p])

(* The k-th packet of p was sent before the l-th of q. *)
Before(p, k, q, l) == p < q \/ (p = q /\ k < l)

TypeOK ==
  /\ air \in Seq(Shapes)
  /\ sent \in Seq(Lengths)
  /\ blob = NoBlob \/ blob \in [length : Nat, data : Seq(Payloads \X Nat) \ {<<>>}]
  /\ lastSeq \in Nat
  /\ hurt \subseteq Payloads /\ headless \subseteq Payloads
  /\ first \subseteq 1..(Len(sent) + 1)

AirIsSent ==
  \A i \in 1..Len(air) :
    \/ IsExtra(air[i])
    \/ \E p \in Payloads : \E k \in Parts(p) : air[i] = PacketOf(p, k)

(* Packets keep the order they were sent in, and those lost or received    *)
(* are the earliest ones.                                                  *)
AirInOrder ==
  \A i, j \in 1..Len(air) : \A p, q \in Payloads : \A k \in Parts(p), l \in Parts(q) :
    air[i] = PacketOf(p, k) /\ air[j] = PacketOf(q, l) /\ i < j => Before(p, k, q, l)

AirIsSuffix ==
  \A p, q \in Payloads : \A k \in Parts(p), l \in Parts(q) :
    OnAir(p, k) /\ Before(p, k, q, l) => OnAir(q, l)

AirInv == TypeOK /\ AirIsSent /\ AirInOrder /\ AirIsSuffix

LEMMA SentLengths ==
  ASSUME sent \in Seq(Lengths)
  PROVE  /\ Len(sent) \in Nat /\ Payloads \subseteq Nat \ {0}
         /\ \A p \in Payloads : sent[p] \in Nat \ {0}
<1>1. Len(sent) \in Nat
  BY LenProperties
<1>2. \A p \in Payloads : sent[p] \in Lengths
  BY ElementOfSeq DEF Payloads
<1>3. \A p \in Payloads : sent[p] \in Nat \ {0}
  BY <1>2, LengthsAssumption
<1>4. QED
  BY <1>1, <1>3 DEF Payloads

(* A packet tells the payload it belongs to and its place in it. *)
LEMMA PacketsDiffer ==
  ASSUME NEW p \in Nat, NEW q \in Nat, NEW m \in Nat \ {0}, NEW n \in Nat \ {0},
         NEW k \in 1..Pieces(m), NEW l \in 1..Pieces(n), Packetize(p, m)[k] = Packetize(q, n)[l]
  PROVE  p = q /\ (m = n => k = l)
<1> DEFINE x == Packetize(p, m)[k]
           y == Packetize(q, n)[l]
<1>1. x.data[1] = <<p, FirstByte(m, k)>> /\ y.data[1] = <<q, FirstByte(n, l)>>
  BY PacketIs
<1>2. p = q /\ FirstByte(m, k) = FirstByte(n, l)
  BY <1>1
<1>3. ASSUME m = n PROVE k = l
  <2>0. Pieces(n) \in Nat
    BY Cuts
  <2>1. ~(k < l)
    <3>1. /\ FirstByte(m, k) \in Nat /\ LastByte(m, k) \in Nat /\ FirstByte(n, l) \in Nat
          /\ FirstByte(m, k) <= LastByte(m, k)
      BY Cuts
    <3>2. k < l => LastByte(m, k) < FirstByte(n, l)
      BY <1>3, CutsRise
    <3>3. QED
      BY <1>2, <3>1, <3>2
  <2>2. ~(l < k)
    <3>1. /\ FirstByte(n, l) \in Nat /\ LastByte(n, l) \in Nat /\ FirstByte(m, k) \in Nat
          /\ FirstByte(n, l) <= LastByte(n, l)
      BY Cuts
    <3>2. l < k => LastByte(n, l) < FirstByte(m, k)
      BY <1>3, CutsRise
    <3>3. QED
      BY <1>2, <3>1, <3>2
  <2>3. QED
    BY <1>3, <2>0, <2>1, <2>2
<1>4. QED
  BY <1>2, <1>3

LEMMA OneNumber ==
  ASSUME sent \in Seq(Lengths), NEW p \in Payloads, NEW q \in Payloads,
         NEW k \in Parts(p), NEW l \in Parts(q), PacketOf(p, k) = PacketOf(q, l)
  PROVE  p = q /\ k = l
<1> DEFINE m == sent[p]
           n == sent[q]
<1>1. p \in Nat /\ q \in Nat /\ m \in Nat \ {0} /\ n \in Nat \ {0}
  BY SentLengths
<1>2. k \in 1..Pieces(m) /\ l \in 1..Pieces(n)
  BY DEF Parts
<1>3. Packetize(p, m)[k] = Packetize(q, n)[l]
  BY DEF PacketOf
<1>4. p = q => m = n
  OBVIOUS
<1> HIDE DEF m, n
<1>5. p = q /\ (m = n => k = l)
  BY <1>1, <1>2, <1>3, PacketsDiffer
<1>6. QED
  BY <1>4, <1>5

LEMMA PacketIsNoExtra ==
  ASSUME NEW p \in Nat, NEW n \in Nat \ {0}, NEW k \in 1..Pieces(n)
  PROVE  ~IsExtra(Packetize(p, n)[k])
BY PacketIs DEF IsExtra

(* The earliest packet goes: received or lost. *)
LEMMA AirTail ==
  ASSUME AirInv, air # <<>>, air' = Tail(air), sent' = sent
  PROVE  /\ air' \in Seq(Shapes) /\ AirIsSent' /\ AirInOrder' /\ AirIsSuffix'
         /\ \A p \in Payloads : \A k \in Parts(p) :
              OnAir(p, k)' <=> OnAir(p, k) /\ Head(air) # PacketOf(p, k)
<1>1. /\ Len(air) \in Nat /\ Len(air') = Len(air) - 1 /\ 1 \in 1..Len(air)
      /\ \A i \in 1..Len(air') : air'[i] = air[i + 1] /\ i + 1 \in 2..Len(air)
      /\ Head(air) = air[1] /\ air' \in Seq(Shapes)
  BY HeadTailProperties, LenProperties, EmptySeq DEF AirInv, TypeOK
<1>2. Payloads' = Payloads /\ \A p, k : PacketOf(p, k)' = PacketOf(p, k) /\ Parts(p)' = Parts(p)
  BY DEF Payloads, PacketOf, Parts
<1>3. AirIsSent'
  <2> SUFFICES ASSUME NEW i \in 1..Len(air')
               PROVE  IsExtra(air'[i]) \/ \E p \in Payloads : \E k \in Parts(p) : air'[i] = PacketOf(p, k)
    BY <1>2 DEF AirIsSent, IsExtra
  <2>1. air'[i] = air[i + 1] /\ i + 1 \in 1..Len(air)
    BY <1>1
  <2>2. QED
    BY <2>1 DEF AirInv, AirIsSent
<1>4. AirInOrder'
  <2> SUFFICES ASSUME NEW i \in 1..Len(air'), NEW j \in 1..Len(air'), NEW p \in Payloads, NEW q \in Payloads,
                      NEW k \in Parts(p), NEW l \in Parts(q),
                      air'[i] = PacketOf(p, k), air'[j] = PacketOf(q, l), i < j
               PROVE  Before(p, k, q, l)
    BY <1>2 DEF AirInOrder, Before
  <2>1. air[i + 1] = PacketOf(p, k) /\ air[j + 1] = PacketOf(q, l) /\ i + 1 < j + 1
        /\ i + 1 \in 1..Len(air) /\ j + 1 \in 1..Len(air)
    BY <1>1
  <2>2. QED
    BY <2>1 DEF AirInv, AirInOrder
<1>5. ASSUME NEW p \in Payloads, NEW k \in Parts(p)
      PROVE  OnAir(p, k)' <=> OnAir(p, k) /\ Head(air) # PacketOf(p, k)
  <2>0. p \in Nat /\ k \in Int
    BY SentLengths DEF AirInv, TypeOK, Parts
  <2>1. ASSUME OnAir(p, k)' PROVE OnAir(p, k) /\ Head(air) # PacketOf(p, k)
    <3>1. PICK i \in 1..Len(air') : air'[i] = PacketOf(p, k)
      BY <2>1, <1>2 DEF OnAir
    <3>2. air[i + 1] = PacketOf(p, k) /\ i + 1 \in 1..Len(air) /\ 1 < i + 1
      BY <1>1, <3>1
    <3>3. air[1] # PacketOf(p, k)
      BY <1>1, <2>0, <3>2 DEF AirInv, AirInOrder, Before
    <3>4. QED
      BY <1>1, <3>2, <3>3 DEF OnAir
  <2>2. ASSUME OnAir(p, k), Head(air) # PacketOf(p, k) PROVE OnAir(p, k)'
    <3>1. PICK i \in 1..Len(air) : air[i] = PacketOf(p, k)
      BY <2>2 DEF OnAir
    <3>2. i # 1
      BY <1>1, <2>2, <3>1
    <3>3. i - 1 \in 1..Len(air') /\ air'[i - 1] = air[i]
      BY <1>1, <3>2
    <3>4. QED
      BY <1>2, <3>1, <3>3 DEF OnAir
  <2>3. QED
    BY <2>1, <2>2
<1>6. AirIsSuffix'
  <2> SUFFICES ASSUME NEW p \in Payloads, NEW q \in Payloads, NEW k \in Parts(p), NEW l \in Parts(q),
                      OnAir(p, k)', Before(p, k, q, l)
               PROVE  OnAir(q, l)'
    BY <1>2 DEF AirIsSuffix, Before
  <2>0. p \in Nat /\ k \in Int /\ q \in Nat /\ l \in Int
    BY SentLengths DEF AirInv, TypeOK, Parts
  <2>1. OnAir(p, k) /\ OnAir(q, l)
    BY <1>5 DEF AirInv, AirIsSuffix
  <2>2. PICK i \in 1..Len(air') : air'[i] = PacketOf(p, k)
    BY <1>2 DEF OnAir
  <2>3. air[i + 1] = PacketOf(p, k) /\ i + 1 \in 1..Len(air) /\ 1 < i + 1
    BY <1>1, <2>2
  <2>4. air[1] = PacketOf(q, l) => Before(q, l, p, k)
    BY <1>1, <2>3 DEF AirInv, AirInOrder
  <2>5. Head(air) # PacketOf(q, l)
    BY <1>1, <2>0, <2>4 DEF Before
  <2>6. QED
    BY <1>5, <2>1, <2>5
<1>7. QED
  BY <1>1, <1>3, <1>4, <1>5, <1>6

(* The earliest packet belongs to no payload or comes before all the rest. *)
LEMMA AirHead ==
  ASSUME AirInv, air # <<>>
  PROVE  /\ Head(air) \in Shapes
         /\ \/ IsExtra(Head(air))
            \/ \E p \in Payloads : \E k \in Parts(p) :
                 /\ Head(air) = PacketOf(p, k) /\ OnAir(p, k)
                 /\ \A q \in Payloads : \A l \in Parts(q) :
                      OnAir(q, l) => (q = p /\ l = k) \/ Before(p, k, q, l)
<1>1. 1 \in 1..Len(air) /\ Len(air) \in Nat /\ Head(air) = air[1] /\ air[1] \in Shapes
  BY HeadTailProperties, LenProperties, EmptySeq, ElementOfSeq DEF AirInv, TypeOK
<1>2. CASE ~IsExtra(air[1])
  <2>1. PICK p \in Payloads : \E k \in Parts(p) : air[1] = PacketOf(p, k)
    BY <1>1, <1>2 DEF AirInv, AirIsSent
  <2>2. PICK k \in Parts(p) : air[1] = PacketOf(p, k)
    BY <2>1
  <2>3. ASSUME NEW q \in Payloads, NEW l \in Parts(q), OnAir(q, l)
        PROVE  (q = p /\ l = k) \/ Before(p, k, q, l)
    <3>1. PICK i \in 1..Len(air) : air[i] = PacketOf(q, l)
      BY <2>3 DEF OnAir
    <3>2. CASE i = 1
      <4>1. PacketOf(p, k) = PacketOf(q, l) /\ sent \in Seq(Lengths)
        BY <2>2, <3>1, <3>2 DEF AirInv, TypeOK
      <4>2. QED
        BY <4>1, OneNumber
    <3>3. CASE i # 1
      BY <1>1, <2>2, <3>1, <3>3 DEF AirInv, AirInOrder
    <3>4. QED
      BY <3>2, <3>3
  <2>4. OnAir(p, k)
    BY <1>1, <2>2 DEF OnAir
  <2>5. QED
    BY <1>1, <2>2, <2>3, <2>4
<1>3. QED
  BY <1>1, <1>2

(* A packet that belongs to no payload goes between any two. *)
LEMMA AirInserted ==
  ASSUME AirInv, NEW e \in Shapes, IsExtra(e), NEW i \in 1..(Len(air) + 1),
         air' = InsertAt(air, i, e), sent' = sent
  PROVE  /\ air' \in Seq(Shapes) /\ AirIsSent' /\ AirInOrder' /\ AirIsSuffix'
         /\ \A p \in Payloads : \A k \in Parts(p) : OnAir(p, k)' <=> OnAir(p, k)
<1>0. Len(air) \in Nat /\ air \in Seq(Shapes) /\ \A j \in 1..Len(air) : air[j] \in Shapes
  BY LenProperties, ElementOfSeq DEF AirInv, TypeOK
<1>1. /\ air' \in Seq(Shapes) /\ Len(air') = Len(air) + 1
      /\ \A j \in 1..Len(air') : air'[j] = IF j < i THEN air[j] ELSE IF j = i THEN e ELSE air[j - 1]
  <2> DEFINE a == SubSeq(air, 1, i - 1)
             b == SubSeq(air, i, Len(air))
  <2>1. /\ a \in Seq(Shapes) /\ Len(a) = i - 1 /\ \A j \in 1..(i - 1) : a[j] = air[j]
    <3>1. \A j \in 1..(i - 1) : air[j] \in Shapes
      BY <1>0
    <3>2. /\ a \in Seq(Shapes) /\ Len(a) = IF 1 <= i - 1 THEN (i - 1) - 1 + 1 ELSE 0
          /\ \A j \in 1..(i - 1) - 1 + 1 : a[j] = air[1 + j - 1]
      BY <1>0, <3>1, SubSeqProperties
    <3> HIDE DEF a
    <3>3. Len(a) = i - 1
      BY <1>0, <3>2
    <3>4. \A j \in 1..(i - 1) : a[j] = air[j]
      BY <1>0, <3>2
    <3>5. QED
      BY <3>2, <3>3, <3>4
  <2>2. /\ b \in Seq(Shapes) /\ Len(b) = Len(air) - i + 1
        /\ \A j \in 1..(Len(air) - i + 1) : b[j] = air[i + j - 1]
    <3>1. \A j \in i..Len(air) : air[j] \in Shapes
      BY <1>0
    <3>2. /\ b \in Seq(Shapes) /\ Len(b) = IF i <= Len(air) THEN Len(air) - i + 1 ELSE 0
          /\ \A j \in 1..(Len(air) - i + 1) : b[j] = air[i + j - 1]
      BY <1>0, <3>1, SubSeqProperties
    <3> HIDE DEF b
    <3>3. QED
      BY <1>0, <3>2
  <2>3. air' = (a \o <<e>>) \o b
    BY DEF InsertAt
  <2> HIDE DEF a, b
  <2>4. <<e>> \in Seq(Shapes) /\ Len(<<e>>) = 1 /\ <<e>>[1] = e
    OBVIOUS
  <2> DEFINE ae == a \o <<e>>
  <2>5. /\ ae \in Seq(Shapes) /\ Len(ae) = i
        /\ \A j \in 1..i : ae[j] = IF j < i THEN air[j] ELSE e
    <3>1. /\ ae \in Seq(Shapes) /\ Len(ae) = (i - 1) + 1
          /\ \A j \in 1..((i - 1) + 1) : ae[j] = IF j <= i - 1 THEN a[j] ELSE <<e>>[j - (i - 1)]
      BY <2>1, <2>4, ConcatProperties
    <3> HIDE DEF ae
    <3>2. QED
      BY <2>1, <2>4, <3>1
  <2> HIDE DEF ae
  <2>6. /\ air' \in Seq(Shapes) /\ Len(air') = i + Len(b)
        /\ \A j \in 1..(i + Len(b)) : air'[j] = IF j <= i THEN ae[j] ELSE b[j - i]
    <3>1. air' = ae \o b
      BY <2>3 DEF ae
    <3>2. /\ ae \o b \in Seq(Shapes) /\ Len(ae \o b) = Len(ae) + Len(b)
          /\ \A j \in 1..(Len(ae) + Len(b)) : (ae \o b)[j] = IF j <= Len(ae) THEN ae[j] ELSE b[j - Len(ae)]
      BY <2>2, <2>5, ConcatProperties
    <3>3. Len(ae) = i
      BY <2>5
    <3>4. QED
      BY <3>1, <3>2, <3>3
  <2>7. Len(air') = Len(air) + 1
    BY <1>0, <2>2, <2>6
  <2>8. ASSUME NEW j \in 1..Len(air')
        PROVE  air'[j] = IF j < i THEN air[j] ELSE IF j = i THEN e ELSE air[j - 1]
    <3>1. CASE j <= i
      BY <1>0, <2>5, <2>6, <2>7, <3>1
    <3>2. CASE j > i
      <4>1. air'[j] = b[j - i] /\ j - i \in 1..(Len(air) - i + 1)
        BY <1>0, <2>2, <2>6, <2>7, <3>2
      <4>2. b[j - i] = air[i + (j - i) - 1] /\ i + (j - i) - 1 = j - 1
        BY <1>0, <2>2, <2>7, <4>1
      <4>3. QED
        BY <3>2, <4>1, <4>2
    <3>3. QED
      BY <2>7, <1>0, <3>1, <3>2
  <2>9. QED
    BY <2>6, <2>7, <2>8
<1>2. Payloads' = Payloads /\ \A p, k : PacketOf(p, k)' = PacketOf(p, k) /\ Parts(p)' = Parts(p)
  BY DEF Payloads, PacketOf, Parts
<1> DEFINE Old(j) == IF j < i THEN j ELSE j - 1
<1>3. ASSUME NEW j \in 1..Len(air') PROVE j = i \/ (Old(j) \in 1..Len(air) /\ air'[j] = air[Old(j)])
  BY <1>0, <1>1
<1>4. ASSUME NEW p \in Payloads, NEW k \in Parts(p) PROVE PacketOf(p, k) # e
  <2> DEFINE n == sent[p]
  <2>1. p \in Nat /\ n \in Nat \ {0} /\ k \in 1..Pieces(n)
    BY SentLengths DEF AirInv, TypeOK, Parts
  <2>2. PacketOf(p, k) = Packetize(p, n)[k]
    BY DEF PacketOf
  <2> HIDE DEF n
  <2>3. QED
    BY <2>1, <2>2, PacketIsNoExtra
<1>5. ASSUME NEW j \in 1..Len(air'), NEW p \in Payloads, NEW k \in Parts(p), air'[j] = PacketOf(p, k)
      PROVE  j # i /\ Old(j) \in 1..Len(air) /\ air[Old(j)] = PacketOf(p, k)
  <2>1. j # i
    BY <1>0, <1>1, <1>4, <1>5
  <2>2. QED
    BY <2>1, <1>3, <1>5
<1>6. AirIsSent'
  <2> SUFFICES ASSUME NEW j \in 1..Len(air')
               PROVE  IsExtra(air'[j]) \/ \E p \in Payloads : \E k \in Parts(p) : air'[j] = PacketOf(p, k)
    BY <1>2 DEF AirIsSent, IsExtra
  <2>1. CASE j = i
    BY <1>0, <1>1, <2>1
  <2>2. CASE j # i
    <3>1. Old(j) \in 1..Len(air) /\ air'[j] = air[Old(j)]
      BY <1>3, <2>2
    <3> HIDE DEF Old
    <3>2. QED
      BY <3>1 DEF AirInv, AirIsSent
  <2>3. QED
    BY <2>1, <2>2
<1>7. AirInOrder'
  <2> SUFFICES ASSUME NEW j \in 1..Len(air'), NEW m \in 1..Len(air'), NEW p \in Payloads, NEW q \in Payloads,
                      NEW k \in Parts(p), NEW l \in Parts(q),
                      air'[j] = PacketOf(p, k), air'[m] = PacketOf(q, l), j < m
               PROVE  Before(p, k, q, l)
    BY <1>2 DEF AirInOrder, Before
  <2>1. /\ j # i /\ Old(j) \in 1..Len(air) /\ air[Old(j)] = PacketOf(p, k)
        /\ m # i /\ Old(m) \in 1..Len(air) /\ air[Old(m)] = PacketOf(q, l)
    BY <1>5
  <2>2. Old(j) < Old(m)
    BY <1>0, <1>1, <2>1
  <2> HIDE DEF Old
  <2>3. QED
    BY <2>1, <2>2 DEF AirInv, AirInOrder
<1>8. ASSUME NEW p \in Payloads, NEW k \in Parts(p)
      PROVE  OnAir(p, k)' <=> OnAir(p, k)
  <2>1. ASSUME OnAir(p, k)' PROVE OnAir(p, k)
    <3>1. PICK j \in 1..Len(air') : air'[j] = PacketOf(p, k)
      BY <2>1, <1>2 DEF OnAir
    <3>2. Old(j) \in 1..Len(air) /\ air[Old(j)] = PacketOf(p, k)
      BY <3>1, <1>5
    <3> HIDE DEF Old
    <3>3. QED
      BY <3>2 DEF OnAir
  <2>2. ASSUME OnAir(p, k) PROVE OnAir(p, k)'
    <3>1. PICK j \in 1..Len(air) : air[j] = PacketOf(p, k)
      BY <2>2 DEF OnAir
    <3> DEFINE m == IF j < i THEN j ELSE j + 1
    <3>2. m \in 1..Len(air') /\ air'[m] = air[j]
      BY <1>0, <1>1
    <3> HIDE DEF m
    <3>3. QED
      BY <1>2, <3>1, <3>2 DEF OnAir
  <2>3. QED
    BY <2>1, <2>2
<1>9. AirIsSuffix'
  BY <1>2, <1>8 DEF AirInv, AirIsSuffix, Before
<1>10. QED
  BY <1>1, <1>6, <1>7, <1>8, <1>9

(* Everything on its way is gone with the link. *)
LEMMA AirCleared ==
  ASSUME air' = <<>>
  PROVE  /\ air' \in Seq(Shapes) /\ AirIsSent' /\ AirInOrder' /\ AirIsSuffix'
         /\ \A p, k : ~OnAir(p, k)'
<1>1. Len(air') = 0 /\ air' \in Seq(Shapes)
  BY EmptySeq
<1>2. QED
  BY <1>1 DEF AirIsSent, AirInOrder, AirIsSuffix, OnAir

(* The packets of a new payload go behind the others. *)
LEMMA AirExtended ==
  ASSUME AirInv, NEW n \in Lengths, Send(n), NEW c, c = Len(sent) + 1
  PROVE  /\ Len(sent) \in Nat /\ c \in Nat \ {0} /\ n \in Nat \ {0} /\ c \notin Payloads
         /\ sent' \in Seq(Lengths) /\ Len(sent') = c /\ Payloads' = Payloads \cup {c}
         /\ sent'[c] = n /\ \A p \in Payloads : sent'[p] = sent[p]
         /\ air' \in Seq(Shapes) /\ AirIsSent' /\ AirInOrder' /\ AirIsSuffix'
         /\ \A p \in Payloads : \A k : PacketOf(p, k)' = PacketOf(p, k) /\ Parts(p)' = Parts(p)
         /\ \A p \in Payloads : \A k \in Parts(p) : OnAir(p, k)' <=> OnAir(p, k)
         /\ \A k \in Parts(c)' : OnAir(c, k)'
<1>1. /\ Len(sent) \in Nat /\ c \in Nat \ {0} /\ n \in Nat \ {0}
      /\ sent' \in Seq(Lengths) /\ Len(sent') = c /\ sent'[c] = n
      /\ \A p \in 1..Len(sent) : sent'[p] = sent[p]
  BY AppendProperties, LenProperties, LengthsAssumption DEF Send, AirInv, TypeOK
<1>2. Payloads' = Payloads \cup {c} /\ c \notin Payloads
  BY <1>1 DEF Payloads
<1>3. \A p \in Payloads : \A k : PacketOf(p, k)' = PacketOf(p, k) /\ Parts(p)' = Parts(p)
  <2>1. \A p \in Payloads : sent'[p] = sent[p]
    BY <1>1 DEF Payloads
  <2>2. QED
    BY <2>1 DEF PacketOf, Parts
<1>4. \A k : PacketOf(c, k)' = Packetize(c, n)[k]
  BY <1>1 DEF PacketOf
<1>5. Parts(c)' = 1..Pieces(n) /\ Pieces(n) \in Nat
  BY <1>1, Cuts DEF Parts
<1> DEFINE s == Len(air)
<1>6. /\ s \in Nat /\ air' \in Seq(Shapes) /\ Len(air') = s + Pieces(n)
      /\ \A i \in 1..(s + Pieces(n)) : air'[i] = IF i <= s THEN air[i] ELSE Packetize(c, n)[i - s]
  <2>1. air' = air \o Packetize(c, n)
    BY DEF Send
  <2>2. Packetize(c, n) \in Seq(Shapes) /\ Len(Packetize(c, n)) = Pieces(n)
    BY <1>1, PacketizeIs
  <2>3. air \in Seq(Shapes) /\ s \in Nat
    BY LenProperties DEF AirInv, TypeOK
  <2>4. QED
    BY <2>1, <2>2, <2>3, ConcatProperties
<1> HIDE DEF s
<1>7. ASSUME NEW p \in Payloads, NEW k \in Parts(p), NEW l \in 1..Pieces(n)
      PROVE  PacketOf(p, k) # Packetize(c, n)[l]
  <2> DEFINE m == sent[p]
  <2>1. p \in Nat /\ p # c /\ m \in Nat \ {0} /\ k \in 1..Pieces(m)
    BY <1>2, SentLengths DEF AirInv, TypeOK, Parts
  <2>2. PacketOf(p, k) = Packetize(p, m)[k]
    BY DEF PacketOf
  <2> HIDE DEF m
  <2>3. QED
    BY <1>1, <2>1, <2>2, PacketsDiffer
<1>8. ASSUME NEW i \in 1..Len(air'), NEW p \in Payloads', NEW k \in Parts(p)', air'[i] = PacketOf(p, k)'
      PROVE  \/ i <= s /\ p \in Payloads /\ k \in Parts(p) /\ air[i] = PacketOf(p, k)
             \/ i > s /\ p = c /\ k = i - s
  <2>1. CASE i <= s
    <3>1. i \in 1..Len(air) /\ air'[i] = air[i]
      BY <1>6, <2>1 DEF s
    <3>2. CASE p \in Payloads
      BY <1>3, <1>8, <2>1, <3>1, <3>2
    <3>3. CASE p = c
      <4>1. k \in 1..Pieces(n) /\ air[i] = Packetize(c, n)[k]
        BY <1>4, <1>5, <1>8, <3>1, <3>3
      <4>2. ~IsExtra(air[i])
        BY <1>1, <4>1, PacketIsNoExtra
      <4>3. QED
        BY <1>7, <3>1, <4>1, <4>2 DEF AirInv, AirIsSent
    <3>4. QED
      BY <1>2, <3>2, <3>3
  <2>2. CASE i > s
    <3>1. i - s \in 1..Pieces(n) /\ air'[i] = Packetize(c, n)[i - s]
      BY <1>5, <1>6, <2>2
    <3>2. p = c
      <4>1. p \in Payloads => PacketOf(p, k) = Packetize(c, n)[i - s] /\ k \in Parts(p)
        BY <1>3, <1>8, <3>1
      <4>2. QED
        BY <1>2, <1>7, <3>1, <4>1
    <3>3. k \in 1..Pieces(n) /\ Packetize(c, n)[k] = Packetize(c, n)[i - s]
      BY <1>4, <1>5, <1>8, <3>1, <3>2
    <3>4. k = i - s
      BY <1>1, <3>1, <3>3, PacketsDiffer
    <3>5. QED
      BY <2>2, <3>2, <3>4
  <2>3. QED
    BY <1>6, <2>1, <2>2
<1>9. AirIsSent'
  <2> SUFFICES ASSUME NEW i \in 1..Len(air')
               PROVE  IsExtra(air'[i]) \/ \E p \in Payloads' : \E k \in Parts(p)' : air'[i] = PacketOf(p, k)'
    BY DEF AirIsSent, IsExtra
  <2>1. CASE i <= s
    <3>1. i \in 1..Len(air) /\ air'[i] = air[i]
      BY <1>6, <2>1 DEF s
    <3>2. QED
      BY <1>2, <1>3, <3>1 DEF AirInv, AirIsSent, IsExtra
  <2>2. CASE i > s
    <3>1. i - s \in 1..Pieces(n) /\ air'[i] = Packetize(c, n)[i - s]
      BY <1>5, <1>6, <2>2
    <3>2. QED
      BY <1>2, <1>4, <1>5, <3>1
  <2>3. QED
    BY <1>6, <2>1, <2>2
<1>10. AirInOrder'
  <2> SUFFICES ASSUME NEW i \in 1..Len(air'), NEW j \in 1..Len(air'), NEW p \in Payloads', NEW q \in Payloads',
                      NEW k \in Parts(p)', NEW l \in Parts(q)',
                      air'[i] = PacketOf(p, k)', air'[j] = PacketOf(q, l)', i < j
               PROVE  Before(p, k, q, l)
    BY DEF AirInOrder, Before
  <2>1. /\ \/ i <= s /\ p \in Payloads /\ k \in Parts(p) /\ air[i] = PacketOf(p, k)
           \/ i > s /\ p = c /\ k = i - s
        /\ \/ j <= s /\ q \in Payloads /\ l \in Parts(q) /\ air[j] = PacketOf(q, l)
           \/ j > s /\ q = c /\ l = j - s
    BY <1>8
  <2>2. CASE j <= s
    <3>1. i \in 1..Len(air) /\ j \in 1..Len(air)
      BY <1>6, <2>2 DEF s
    <3>2. QED
      BY <1>6, <2>1, <2>2, <3>1 DEF AirInv, AirInOrder
  <2>3. CASE i <= s /\ j > s
    BY <1>1, <1>6, <2>1, <2>3 DEF Before, Payloads
  <2>4. CASE i > s
    BY <1>6, <2>1, <2>4 DEF Before
  <2>5. QED
    BY <1>6, <2>2, <2>3, <2>4
<1>11. ASSUME NEW p \in Payloads, NEW k \in Parts(p)
       PROVE  OnAir(p, k)' <=> OnAir(p, k)
  <2>1. p \in Payloads' /\ k \in Parts(p)'
    BY <1>2, <1>3
  <2>2. ASSUME OnAir(p, k)' PROVE OnAir(p, k)
    <3>1. PICK i \in 1..Len(air') : air'[i] = PacketOf(p, k)'
      BY <2>2 DEF OnAir
    <3>2. i <= s /\ air[i] = PacketOf(p, k)
      BY <1>2, <1>8, <2>1, <3>1
    <3>3. i \in 1..Len(air)
      BY <1>6, <3>2 DEF s
    <3>4. QED
      BY <3>2, <3>3 DEF OnAir
  <2>3. ASSUME OnAir(p, k) PROVE OnAir(p, k)'
    <3>1. PICK i \in 1..Len(air) : air[i] = PacketOf(p, k)
      BY <2>3 DEF OnAir
    <3>2. i \in 1..Len(air') /\ air'[i] = air[i]
      BY <1>5, <1>6, <3>1 DEF s
    <3>3. QED
      BY <1>3, <3>1, <3>2 DEF OnAir
  <2>4. QED
    BY <2>2, <2>3
<1>12. ASSUME NEW k \in Parts(c)' PROVE OnAir(c, k)'
  <2>1. s + k \in 1..Len(air') /\ air'[s + k] = Packetize(c, n)[k]
    <3>1. k \in 1..Pieces(n)
      BY <1>5
    <3>2. s + k \in 1..Len(air') /\ ~(s + k <= s) /\ (s + k) - s = k
      BY <1>5, <1>6, <3>1
    <3>3. QED
      BY <1>6, <3>2
  <2>2. QED
    BY <1>4, <2>1 DEF OnAir
<1>13. AirIsSuffix'
  <2> SUFFICES ASSUME NEW p \in Payloads', NEW q \in Payloads', NEW k \in Parts(p)', NEW l \in Parts(q)',
                      OnAir(p, k)', Before(p, k, q, l)
               PROVE  OnAir(q, l)'
    BY DEF AirIsSuffix, Before
  <2>1. CASE q = c
    BY <1>12, <2>1
  <2>2. CASE q # c
    <3>1. q \in Payloads /\ p \in Payloads
      BY <1>1, <1>2, <2>2 DEF Before, Payloads
    <3>2. QED
      BY <1>3, <1>11, <3>1 DEF AirInv, AirIsSuffix
  <2>3. QED
    BY <2>1, <2>2
<1>14. QED
  BY <1>1, <1>2, <1>3, <1>6, <1>9, <1>10, <1>11, <1>12, <1>13 DEF Payloads

LEMMA OwnersAre ==
  ASSUME NEW P, NEW d \in Seq(P \X Nat)
  PROVE  Owners(d) \subseteq P
<1>1. DOMAIN d = 1..Len(d) /\ \A i \in 1..Len(d) : d[i] \in P \X Nat
  BY LenProperties, ElementOfSeq
<1>2. QED
  BY <1>1 DEF Owners

(* What the packet at position i carries. *)
LEMMA AirCarries ==
  ASSUME AirInv, NEW i \in 1..Len(air)
  PROVE  /\ air[i].data \in Seq(Payloads \X Nat) /\ Owners(air[i].data) \subseteq Payloads
         /\ air[i].type \notin {"Status", "Unknown"} => air[i].data # <<>>
<1>1. CASE IsExtra(air[i])
  <2>1. air[i].data \in Seq(Payloads \X Nat)
    BY <1>1, EmptySeq DEF IsExtra
  <2>2. QED
    BY <1>1, <2>1, OwnersAre DEF IsExtra
<1>2. ASSUME NEW p \in Payloads, NEW k \in Parts(p), air[i] = PacketOf(p, k)
      PROVE  /\ air[i].data \in Seq(Payloads \X Nat) /\ Owners(air[i].data) \subseteq Payloads
             /\ air[i].data # <<>>
  <2> DEFINE n == sent[p]
  <2>1. p \in Nat /\ n \in Nat \ {0} /\ k \in 1..Pieces(n)
    BY SentLengths DEF AirInv, TypeOK, Parts
  <2>2. air[i] = Packetize(p, n)[k]
    BY <1>2 DEF PacketOf
  <2> HIDE DEF n
  <2> DEFINE a == FirstByte(n, k)
             b == LastByte(n, k)
  <2>3. air[i].data = Bytes(p, a, b) /\ a \in Nat \ {0} /\ b \in Nat /\ a <= b
    BY <2>1, <2>2, PacketIs, Cuts
  <2> HIDE DEF a, b
  <2>4. air[i].data \in Seq({p} \X Nat) /\ air[i].data # <<>>
    <3>1. Bytes(p, a, b) \in Seq({p} \X Nat) \ {<<>>}
      BY <2>1, <2>3, BytesAre
    <3>2. QED
      BY <2>3, <3>1
  <2>5. {p} \X Nat \subseteq Payloads \X Nat
    OBVIOUS
  <2>6. air[i].data \in Seq(Payloads \X Nat)
    BY <2>4, <2>5, SeqMonotonic
  <2>7. QED
    BY <2>4, <2>6, OwnersAre
<1>3. QED
  BY <1>1, <1>2 DEF AirInv, AirIsSent

LEMMA HeadCarries ==
  ASSUME AirInv, air # <<>>
  PROVE  /\ Head(air) \in Shapes /\ Head(air).data \in Seq(Payloads \X Nat)
         /\ Owners(Head(air).data) \subseteq Payloads
         /\ Head(air).type \notin {"Status", "Unknown"} => Head(air).data # <<>>
<1>1. 1 \in 1..Len(air) /\ Head(air) = air[1] /\ Head(air) \in Shapes
  BY HeadTailProperties, LenProperties, EmptySeq DEF AirInv, TypeOK
<1>2. QED
  BY <1>1, AirCarries

(* What the stream makes of a packet, for the blob in progress. *)
LEMMA ReceiveBlob ==
  ASSUME Receive
  PROVE  LET x == Head(air)
         IN  \/ Reset
             \/ UNCHANGED <<blob, lastSeq>> /\ (IsStatus(x) \/ Alone(x))
             \/ Starts(x) /\ blob' = [length |-> x.length, data |-> x.data] /\ lastSeq' = x.seq
             \/ Continues(x) /\ blob' = [blob EXCEPT !.data = Grown(x)] /\ lastSeq' = x.seq
BY DEF Receive, Refuse, Complete, streamVars

LEMMA ExtraIs ==
  ASSUME NEW type \in {"Status", "Unknown"}
  PROVE  Packet(type, 1, 0, <<>>) \in Shapes /\ IsExtra(Packet(type, 1, 0, <<>>))
<1>1. <<>> \in Seq(Nat \X Nat) /\ 1 % SeqValues \in Nat
  BY EmptySeq, WrapSteps
<1>2. QED
  BY <1>1 DEF Packet, Shapes, IsExtra

LEMMA NextAirInv == AirInv /\ [Next]_vars => AirInv'
<1> SUFFICES ASSUME AirInv, [Next]_vars PROVE AirInv'
  OBVIOUS
<1>t. /\ air \in Seq(Shapes) /\ sent \in Seq(Lengths) /\ lastSeq \in Nat
      /\ blob = NoBlob \/ blob \in [length : Nat, data : Seq(Payloads \X Nat) \ {<<>>}]
      /\ hurt \subseteq Payloads /\ headless \subseteq Payloads /\ first \subseteq 1..(Len(sent) + 1)
  BY DEF AirInv, TypeOK
<1>p. sent' = sent => Payloads' = Payloads
  BY DEF Payloads
<1>1. CASE Receive
  <2> DEFINE x == Head(air)
  <2>1. air # <<>> /\ air' = Tail(air) /\ UNCHANGED <<sent, headless, first>>
    BY <1>1 DEF Receive
  <2>2. x \in Shapes /\ x.data \in Seq(Payloads \X Nat)
        /\ (x.type \notin {"Status", "Unknown"} => x.data # <<>>)
    BY <2>1, HeadCarries
  <2>3. \/ Reset
        \/ UNCHANGED <<blob, lastSeq>>
        \/ Starts(x) /\ blob' = [length |-> x.length, data |-> x.data] /\ lastSeq' = x.seq
        \/ Continues(x) /\ blob' = [blob EXCEPT !.data = Grown(x)] /\ lastSeq' = x.seq
    BY <1>1, ReceiveBlob
  <2>h. hurt' = hurt \/ (blob # NoBlob /\ hurt' = hurt \cup Owners(blob.data))
    BY <1>1 DEF Receive, Refuse, Complete
  <2> HIDE DEF x
  <2>4. lastSeq' \in Nat /\ (blob' = NoBlob \/ blob' \in [length : Nat, data : Seq(Payloads \X Nat) \ {<<>>}])
    <3>1. CASE Reset
      BY <3>1 DEF Reset
    <3>2. CASE UNCHANGED <<blob, lastSeq>>
      BY <1>t, <3>2
    <3>3. CASE Starts(x) /\ blob' = [length |-> x.length, data |-> x.data] /\ lastSeq' = x.seq
      BY <2>2, <3>3 DEF Starts, Shapes
    <3>4. CASE Continues(x) /\ blob' = [blob EXCEPT !.data = Grown(x)] /\ lastSeq' = x.seq
      <4>1. blob \in [length : Nat, data : Seq(Payloads \X Nat) \ {<<>>}]
        BY <1>t, <3>4 DEF Continues, NextInBlob
      <4>2. blob.data \in Seq(Payloads \X Nat) /\ blob.data # <<>>
        BY <4>1
      <4>3. Grown(x) \in Seq(Payloads \X Nat) /\ Grown(x) # <<>>
        BY <2>2, <4>2, ConcatProperties, ConcatEqualIffEmpty DEF Grown
      <4>4. x.seq \in Nat
        BY <2>2 DEF Shapes
      <4>5. QED
        BY <3>4, <4>1, <4>3, <4>4
    <3>5. QED
      BY <2>3, <3>1, <3>2, <3>3, <3>4
  <2>5. hurt' \subseteq Payloads
    <3>1. blob # NoBlob => Owners(blob.data) \subseteq Payloads
      <4>1. blob # NoBlob => blob.data \in Seq(Payloads \X Nat)
        BY <1>t
      <4>2. QED
        BY <4>1, OwnersAre
    <3>2. QED
      BY <1>t, <2>h, <3>1
  <2>6. air' \in Seq(Shapes) /\ AirIsSent' /\ AirInOrder' /\ AirIsSuffix'
    BY <2>1, AirTail
  <2>7. TypeOK'
    BY <1>t, <1>p, <2>1, <2>4, <2>5, <2>6 DEF TypeOK
  <2>8. QED
    BY <2>6, <2>7 DEF AirInv
<1>2. CASE Lose
  <2>1. /\ air # <<>> /\ air' = Tail(air) /\ UNCHANGED <<sent, blob, lastSeq, first>>
        /\ hurt' = hurt \cup Owners(Head(air).data)
        /\ headless' = headless \/ headless' = headless \cup Owners(Head(air).data)
    BY <1>2 DEF Lose, streamVars
  <2>2. Owners(Head(air).data) \subseteq Payloads
    BY <2>1, HeadCarries
  <2>3. air' \in Seq(Shapes) /\ AirIsSent' /\ AirInOrder' /\ AirIsSuffix'
    BY <2>1, AirTail
  <2>4. TypeOK'
    BY <1>t, <1>p, <2>1, <2>2, <2>3 DEF TypeOK
  <2>5. QED
    BY <2>3, <2>4 DEF AirInv
<1>3. CASE Reconnect
  <2>1. /\ air' = <<>> /\ UNCHANGED <<sent, headless>> /\ blob' = NoBlob /\ lastSeq' = 0
        /\ hurt' = hurt \cup UNION {Owners(air[i].data) : i \in DOMAIN air}
        /\ first' = first \cup {Len(sent) + 1}
    BY <1>3 DEF Reconnect, Reset
  <2>2. DOMAIN air = 1..Len(air) /\ Len(sent) \in Nat
    BY <1>t, LenProperties
  <2>3. UNION {Owners(air[i].data) : i \in DOMAIN air} \subseteq Payloads
    BY <2>2, AirCarries
  <2>4. air' \in Seq(Shapes) /\ AirIsSent' /\ AirInOrder' /\ AirIsSuffix'
    BY <2>1, AirCleared
  <2>5. first' \subseteq 1..(Len(sent') + 1)
    <3>1. Len(sent') = Len(sent) /\ Len(sent) + 1 \in 1..(Len(sent) + 1)
      BY <2>1, <2>2
    <3>2. QED
      BY <1>t, <2>1, <3>1
  <2>6. hurt' \subseteq Payloads'
    BY <1>t, <1>p, <2>1, <2>3
  <2>7. TypeOK'
    BY <1>t, <1>p, <2>1, <2>4, <2>5, <2>6 DEF TypeOK
  <2>8. QED
    BY <2>4, <2>7 DEF AirInv
<1>4. ASSUME NEW n \in Lengths, Send(n) PROVE AirInv'
  <2> DEFINE c == Len(sent) + 1
  <2>1. /\ Len(sent) \in Nat /\ sent' \in Seq(Lengths) /\ Len(sent') = c /\ Payloads' = Payloads \cup {c}
        /\ air' \in Seq(Shapes) /\ AirIsSent' /\ AirInOrder' /\ AirIsSuffix'
    BY <1>4, AirExtended
  <2>2. UNCHANGED <<blob, lastSeq, hurt, headless, first>>
    BY <1>4 DEF Send, streamVars, ghostVars
  <2>3. blob = NoBlob \/ blob \in [length : Nat, data : Seq(Payloads' \X Nat) \ {<<>>}]
    <3>1. CASE blob # NoBlob
      <4>1. blob.data \in Seq(Payloads \X Nat) /\ Payloads \X Nat \subseteq Payloads' \X Nat
        BY <1>t, <2>1, <3>1
      <4>2. blob.data \in Seq(Payloads' \X Nat)
        BY <4>1, SeqMonotonic
      <4>3. QED
        BY <1>t, <3>1, <4>2
    <3>2. QED
      BY <3>1
  <2>4. TypeOK'
    BY <1>t, <2>1, <2>2, <2>3 DEF TypeOK
  <2>5. QED
    BY <2>1, <2>4 DEF AirInv
<1>5. ASSUME NEW type \in {"Status", "Unknown"}, SendExtra(type) PROVE AirInv'
  <2> DEFINE e == Packet(type, 1, 0, <<>>)
  <2>1. PICK i \in 1..(Len(air) + 1) : air' = InsertAt(air, i, e)
    BY <1>5 DEF SendExtra
  <2>2. UNCHANGED <<sent, blob, lastSeq, hurt, headless, first>>
    BY <1>5 DEF SendExtra, streamVars, ghostVars
  <2>3. e \in Shapes /\ IsExtra(e)
    BY ExtraIs
  <2> HIDE DEF e
  <2>4. air' \in Seq(Shapes) /\ AirIsSent' /\ AirInOrder' /\ AirIsSuffix'
    BY <2>1, <2>2, <2>3, AirInserted
  <2>5. TypeOK'
    BY <1>t, <1>p, <2>2, <2>4 DEF TypeOK
  <2>6. QED
    BY <2>4, <2>5 DEF AirInv
<1>6. CASE UNCHANGED vars
  <2>1. UNCHANGED <<air, sent, blob, lastSeq, hurt, headless, first>>
    BY <1>6 DEF vars, streamVars, ghostVars
  <2>2. TypeOK'
    BY <1>t, <2>1 DEF TypeOK, Payloads
  <2>3. AirIsSent'
    BY <2>1 DEF AirInv, AirIsSent, PacketOf, Payloads, Parts
  <2>4. AirInOrder'
    BY <2>1 DEF AirInv, AirInOrder, PacketOf, Payloads, Parts
  <2>5. AirIsSuffix'
    BY <2>1 DEF AirInv, AirIsSuffix, OnAir, PacketOf, Payloads, Parts
  <2>6. QED
    BY <2>2, <2>3, <2>4, <2>5 DEF AirInv
<1>7. QED
  BY <1>1, <1>2, <1>3, <1>4, <1>5, <1>6 DEF Next

LEMMA SpecAirInv == Spec => []AirInv
<1>1. Init => AirInv
  <2> SUFFICES ASSUME Init PROVE AirInv
    OBVIOUS
  <2>1. air \in Seq(Shapes) /\ sent \in Seq(Lengths) /\ Len(air) = 0 /\ Len(sent) = 0
    BY EmptySeq DEF Init
  <2>2. QED
    BY <2>1 DEF Init, AirInv, TypeOK, AirIsSent, AirInOrder, AirIsSuffix, OnAir, Payloads
<1>2. QED
  BY <1>1, NextAirInv, PTL DEF Spec

-----------------------------------------------------------------------------
(***************************************************************************)
(* Whole or nothing.                                                       *)
(***************************************************************************)
HeadOf == blob.data[1][1]

(* While the blob in progress has packets of one payload alone, it has     *)
(* them from the start, and has as many bytes as the last one ends at only *)
(* if it has them all.                                                     *)
BlobSound ==
  blob # NoBlob =>
    /\ ~Fits(sent[HeadOf]) /\ blob.length = sent[HeadOf]
    /\ \/ \E q \in Owners(blob.data) : q # HeadOf /\ q \in headless
       \/ \E k \in 1..(Pieces(sent[HeadOf]) - 1) :
            /\ \A l \in Parts(HeadOf) : OnAir(HeadOf, l) => k < l
            /\ Len(blob.data) <= LastByte(sent[HeadOf], k)
            /\ Len(blob.data) = LastByte(sent[HeadOf], k)
                 => blob.data = Bytes(HeadOf, 1, LastByte(sent[HeadOf], k))

(* A packet that continues a payload finds the blob of its own, or none,   *)
(* or its first packet was lost.                                           *)
HeadKnown ==
  \A q \in Payloads : \A l \in Parts(q) :
    l > 1 /\ OnAir(q, l) =>
      q \in headless \/ blob = NoBlob \/ HeadOf = q \/ OnAir(q, 1)

WholeInv == BlobSound /\ HeadKnown /\ WholeOrNothing

(* The k-th packet of a payload that was sent. *)
LEMMA PartIs ==
  ASSUME sent \in Seq(Lengths), NEW p \in Payloads, NEW k \in Parts(p)
  PROVE  LET n == sent[p]
             x == PacketOf(p, k)
         IN  /\ p \in Nat \ {0} /\ n \in Nat \ {0} /\ k \in Nat \ {0} /\ Pieces(n) \in Nat \ {0} /\ k <= Pieces(n)
             /\ Fits(n) <=> Pieces(n) = 1
             /\ 1 \in Parts(p) /\ Pieces(n) \in Parts(p)
             /\ FirstByte(n, k) \in Nat \ {0} /\ LastByte(n, k) \in Nat /\ FirstByte(n, k) <= LastByte(n, k)
             /\ LastByte(n, k) <= n
             /\ k < Pieces(n) => LastByte(n, k) < n /\ FirstByte(n, k + 1) = LastByte(n, k) + 1
             /\ x \in Shapes /\ x.data = Bytes(p, FirstByte(n, k), LastByte(n, k))
             /\ x.data # <<>> /\ x.data[1] = <<p, FirstByte(n, k)>> /\ Owners(x.data) = {p}
             /\ Len(x.data) = LastByte(n, k) - FirstByte(n, k) + 1
             /\ x.type = (CASE Pieces(n) = 1 -> "Single"
                            [] Pieces(n) # 1 /\ k = 1 -> "BlobStart"
                            [] Pieces(n) # 1 /\ k # 1 /\ k = Pieces(n) -> "BlobComplete"
                            [] OTHER -> "BlobStream")
             /\ Pieces(n) # 1 => x.seq = k % SeqValues
             /\ Pieces(n) # 1 /\ k = 1 => x.length = n
<1> DEFINE n == sent[p]
           x == PacketOf(p, k)
<1>1. p \in Nat \ {0} /\ n \in Nat \ {0}
  BY SentLengths
<1>2. k \in 1..Pieces(n) /\ Parts(p) = 1..Pieces(n)
  BY DEF Parts
<1>3. x = Packetize(p, n)[k]
  BY DEF PacketOf
<1> HIDE DEF n, x
<1>4. /\ Pieces(n) \in Nat \ {0} /\ (Fits(n) <=> Pieces(n) = 1)
      /\ FirstByte(n, k) \in Nat \ {0} /\ LastByte(n, k) \in Nat /\ FirstByte(n, k) <= LastByte(n, k)
      /\ LastByte(n, k) <= n
      /\ k < Pieces(n) => LastByte(n, k) < n /\ FirstByte(n, k + 1) = LastByte(n, k) + 1
  BY <1>1, <1>2, Cuts
<1>5. /\ x \in Shapes /\ x.data = Bytes(p, FirstByte(n, k), LastByte(n, k))
      /\ x.data # <<>> /\ x.data[1] = <<p, FirstByte(n, k)>> /\ Owners(x.data) = {p}
      /\ Len(x.data) = LastByte(n, k) - FirstByte(n, k) + 1
      /\ Fits(n) => x.type = "Single"
      /\ ~Fits(n) => /\ x.type = (CASE k = 1 -> "BlobStart"
                                     [] k = Pieces(n) -> "BlobComplete"
                                     [] OTHER -> "BlobStream")
                     /\ x.seq = k % SeqValues
                     /\ k = 1 => x.length = n
  <2> DEFINE y == Packetize(p, n)[k]
  <2>1. /\ y \in Shapes /\ y.data = Bytes(p, FirstByte(n, k), LastByte(n, k))
        /\ y.data # <<>> /\ y.data[1] = <<p, FirstByte(n, k)>> /\ Owners(y.data) = {p}
        /\ Len(y.data) = LastByte(n, k) - FirstByte(n, k) + 1
    BY <1>1, <1>2, PacketIs
  <2>2. /\ Fits(n) => y.type = "Single"
        /\ ~Fits(n) => /\ y.type = (CASE k = 1 -> "BlobStart"
                                       [] k = Pieces(n) -> "BlobComplete"
                                       [] OTHER -> "BlobStream")
                       /\ y.seq = k % SeqValues
                       /\ k = 1 => y.length = n
    BY <1>1, <1>2, PacketIs
  <2>3. x = y
    BY <1>3
  <2> HIDE DEF y
  <2>4. QED
    BY <2>1, <2>2, <2>3
<1>6. x.type = (CASE Pieces(n) = 1 -> "Single"
                  [] Pieces(n) # 1 /\ k = 1 -> "BlobStart"
                  [] Pieces(n) # 1 /\ k # 1 /\ k = Pieces(n) -> "BlobComplete"
                  [] OTHER -> "BlobStream")
  BY <1>4, <1>5
<1>7. k \in Nat \ {0} /\ k <= Pieces(n) /\ 1 \in Parts(p) /\ Pieces(n) \in Parts(p)
  BY <1>2, <1>4
<1>8. QED
  BY <1>1, <1>4, <1>5, <1>6, <1>7 DEF n, x

(* Adjoining pieces of a payload make one. *)
LEMMA BytesSpan ==
  ASSUME NEW p \in Nat, NEW a \in Nat, NEW n \in Nat \ {0}
  PROVE  /\ Bytes(p, a + 1, a + n) \in Seq(Nat \X Nat) /\ Len(Bytes(p, a + 1, a + n)) = n
         /\ \A i \in 1..n : Bytes(p, a + 1, a + n)[i] = <<p, a + i>>
<1>1. (a + n) - (a + 1) + 1 = n
  OBVIOUS
<1>2. Bytes(p, a + 1, a + n) = [i \in 1..n |-> <<p, (a + 1) + i - 1>>]
  BY <1>1 DEF Bytes
<1>3. \A i \in 1..n : (a + 1) + i - 1 = a + i
  OBVIOUS
<1>4. Bytes(p, a + 1, a + n) = [i \in 1..n |-> <<p, a + i>>]
  BY <1>2, <1>3
<1>5. [i \in 1..n |-> <<p, a + i>>] \in [1..n -> Nat \X Nat]
  OBVIOUS
<1>f. Bytes(p, a + 1, a + n) \in [1..n -> Nat \X Nat]
  BY <1>4, <1>5
<1>6. Bytes(p, a + 1, a + n) \in Seq(Nat \X Nat)
  <2> DEFINE s == Bytes(p, a + 1, a + n)
  <2>1. s \in [1..n -> Nat \X Nat] /\ n \in Nat
    BY <1>f
  <2> HIDE DEF s
  <2>2. s \in Seq(Nat \X Nat)
    BY <2>1, SeqDef
  <2>3. QED
    BY <2>2 DEF s
<1>7. DOMAIN Bytes(p, a + 1, a + n) = 1..n
  BY <1>4
<1>8. Len(Bytes(p, a + 1, a + n)) = n
  BY <1>6, <1>7, LenProperties
<1>9. QED
  BY <1>4, <1>6, <1>8

LEMMA BytesLen ==
  ASSUME NEW p \in Nat, NEW n \in Nat \ {0}
  PROVE  Len(Bytes(p, 1, n)) = n /\ Owners(Bytes(p, 1, n)) = {p}
<1>1. PICK a \in Nat \ {0} : a = 1
  OBVIOUS
<1>2. a <= n /\ n - a + 1 = n
  BY <1>1
<1>3. Len(Bytes(p, a, n)) = n - a + 1 /\ Owners(Bytes(p, a, n)) = {p}
  BY <1>2, BytesAre
<1>4. QED
  BY <1>1, <1>2, <1>3

LEMMA BytesJoin ==
  ASSUME NEW p \in Nat, NEW a \in Nat \ {0}, NEW m \in Nat \ {0}
  PROVE  Bytes(p, 1, a) \o Bytes(p, a + 1, a + m) = Bytes(p, 1, a + m)
<1> DEFINE s == Bytes(p, 1, a)
           t == Bytes(p, a + 1, a + m)
           u == Bytes(p, 1, a + m)
           S == Nat \X Nat
<1>1. s \in Seq(S) /\ Len(s) = a /\ \A i \in 1..a : s[i] = <<p, i>>
  <2>1. /\ Bytes(p, 0 + 1, 0 + a) \in Seq(S) /\ Len(Bytes(p, 0 + 1, 0 + a)) = a
        /\ \A i \in 1..a : Bytes(p, 0 + 1, 0 + a)[i] = <<p, 0 + i>>
    BY BytesSpan
  <2>2. 0 + 1 = 1 /\ 0 + a = a /\ \A i \in 1..a : 0 + i = i
    OBVIOUS
  <2>3. QED
    BY <2>1, <2>2
<1>2. t \in Seq(S) /\ Len(t) = m /\ \A i \in 1..m : t[i] = <<p, a + i>>
  BY BytesSpan
<1>3. u \in Seq(S) /\ Len(u) = a + m /\ \A i \in 1..(a + m) : u[i] = <<p, i>>
  <2>1. /\ Bytes(p, 0 + 1, 0 + (a + m)) \in Seq(S) /\ Len(Bytes(p, 0 + 1, 0 + (a + m))) = a + m
        /\ \A i \in 1..(a + m) : Bytes(p, 0 + 1, 0 + (a + m))[i] = <<p, 0 + i>>
    BY BytesSpan, a + m \in Nat \ {0}
  <2>2. 0 + 1 = 1 /\ 0 + (a + m) = a + m /\ \A i \in 1..(a + m) : 0 + i = i
    OBVIOUS
  <2>3. QED
    BY <2>1, <2>2
<1> HIDE DEF s, t, u, S
<1>4. /\ s \o t \in Seq(S) /\ Len(s \o t) = a + m
      /\ \A i \in 1..(a + m) : (s \o t)[i] = IF i <= a THEN s[i] ELSE t[i - a]
  <2>1. /\ s \o t \in Seq(S) /\ Len(s \o t) = Len(s) + Len(t)
        /\ \A i \in 1..(Len(s) + Len(t)) : (s \o t)[i] = IF i <= Len(s) THEN s[i] ELSE t[i - Len(s)]
    BY <1>1, <1>2, ConcatProperties
  <2>2. QED
    BY <1>1, <1>2, <2>1
<1>5. ASSUME NEW i \in 1..(a + m) PROVE (s \o t)[i] = u[i]
  <2>1. CASE i <= a
    <3>1. i \in 1..a
      BY <2>1
    <3>2. QED
      BY <1>1, <1>3, <1>4, <2>1, <3>1
  <2>2. CASE i > a
    <3>1. (s \o t)[i] = t[i - a] /\ i - a \in 1..m
      BY <1>4, <2>2
    <3>2. t[i - a] = <<p, a + (i - a)>> /\ a + (i - a) = i
      BY <1>2, <3>1
    <3>3. QED
      BY <1>3, <3>1, <3>2
  <2>3. i <= a \/ i > a
    OBVIOUS
  <2>4. QED
    BY <2>1, <2>2, <2>3
<1>6. s \o t = u
  BY <1>3, <1>4, <1>5, SeqEqual
<1>7. QED
  BY <1>6 DEF s, t, u

LEMMA BlobHead ==
  ASSUME AirInv, blob # NoBlob
  PROVE  /\ blob \in [length : Nat, data : Seq(Payloads \X Nat) \ {<<>>}]
         /\ blob.data \in Seq(Payloads \X Nat) /\ Len(blob.data) \in Nat \ {0} /\ HeadOf \in Payloads
<1>1. blob \in [length : Nat, data : Seq(Payloads \X Nat) \ {<<>>}]
  BY DEF AirInv, TypeOK
<1>2. blob.data \in Seq(Payloads \X Nat) /\ blob.data # <<>>
  BY <1>1
<1>3. Len(blob.data) \in Nat \ {0}
  BY <1>2, EmptySeq
<1>4. blob.data[1] \in Payloads \X Nat
  BY <1>2, <1>3, ElementOfSeq
<1>5. QED
  BY <1>1, <1>2, <1>3, <1>4 DEF HeadOf

(* A chunk that begins behind the bytes there are: it fills up to its end  *)
(* at most, and exactly if nothing is missing between.                     *)
LEMMA FillsUp ==
  ASSUME NEW d \in Nat \ {0}, NEW b \in Nat, NEW f \in Nat \ {0}, NEW e \in Nat,
         f <= e, b < f, d <= b
  PROVE  /\ d + (e - f + 1) <= e
         /\ d + (e - f + 1) = e => d = b /\ f = b + 1 /\ b \in Nat \ {0} /\ e - b \in Nat \ {0} /\ b + (e - b) = e
OBVIOUS

(* A packet added to the blob: the first byte stays, and so do the owners. *)
LEMMA GrownIs ==
  ASSUME AirInv, blob # NoBlob, NEW x, x.data \in Seq(Payloads \X Nat)
  PROVE  /\ Len(Grown(x)) = Len(blob.data) + Len(x.data) /\ Grown(x)[1][1] = HeadOf
         /\ Owners(Grown(x)) = Owners(blob.data) \cup Owners(x.data)
<1> DEFINE s == blob.data
           t == x.data
           g == Grown(x)
           S == Payloads \X Nat
<1>1. s \in Seq(S) /\ Len(s) \in Nat \ {0} /\ t \in Seq(S) /\ Len(t) \in Nat
  BY BlobHead, LenProperties
<1>2. g = s \o t
  BY DEF Grown
<1>3. HeadOf = s[1][1]
  BY DEF HeadOf
<1> HIDE DEF s, t, g, S
<1>4. /\ g \in Seq(S) /\ Len(g) = Len(s) + Len(t)
      /\ \A i \in 1..(Len(s) + Len(t)) : g[i] = IF i <= Len(s) THEN s[i] ELSE t[i - Len(s)]
  BY <1>1, <1>2, ConcatProperties
<1>5. g[1] = s[1]
  BY <1>1, <1>4
<1>6. DOMAIN g = 1..(Len(s) + Len(t)) /\ DOMAIN s = 1..Len(s) /\ DOMAIN t = 1..Len(t)
  BY <1>1, <1>4, LenProperties
<1>7. Owners(g) \subseteq Owners(s) \cup Owners(t)
  <2> SUFFICES ASSUME NEW i \in 1..(Len(s) + Len(t)) PROVE g[i][1] \in Owners(s) \cup Owners(t)
    BY <1>6 DEF Owners
  <2>1. CASE i <= Len(s)
    <3>1. i \in 1..Len(s) /\ g[i] = s[i]
      BY <1>1, <1>4, <2>1
    <3>2. QED
      BY <1>6, <3>1 DEF Owners
  <2>2. CASE i > Len(s)
    <3>1. i - Len(s) \in 1..Len(t) /\ g[i] = t[i - Len(s)]
      BY <1>1, <1>4, <2>2
    <3>2. QED
      BY <1>6, <3>1 DEF Owners
  <2>3. QED
    BY <1>1, <2>1, <2>2
<1>8. Owners(s) \subseteq Owners(g)
  BY <1>1, <1>4, <1>6 DEF Owners
<1>9. Owners(t) \subseteq Owners(g)
  <2> SUFFICES ASSUME NEW j \in 1..Len(t) PROVE t[j][1] \in Owners(g)
    BY <1>6 DEF Owners
  <2>1. Len(s) + j \in 1..(Len(s) + Len(t)) /\ ~(Len(s) + j <= Len(s)) /\ (Len(s) + j) - Len(s) = j
    BY <1>1
  <2>2. g[Len(s) + j] = t[j]
    BY <1>4, <2>1
  <2>3. QED
    BY <1>6, <2>1, <2>2 DEF Owners
<1>10. QED
  BY <1>3, <1>4, <1>5, <1>7, <1>8, <1>9 DEF s, t, g

(* A packet that continues a payload, added to a sound blob. *)
LEMMA GrownSound ==
  ASSUME AirInv, BlobSound, HeadKnown, blob # NoBlob, air # <<>>,
         NEW q \in Payloads, NEW l \in Parts(q), l > 1, Head(air) = PacketOf(q, l), OnAir(q, l),
         \A r \in Payloads : \A m \in Parts(r) : OnAir(r, m) => (r = q /\ m = l) \/ Before(q, l, r, m)
  PROVE  LET g == Grown(Head(air))
             e == LastByte(sent[q], l)
         IN  /\ g[1][1] = HeadOf
             /\ \/ \E r \in Owners(g) : r # HeadOf /\ r \in headless
                \/ q = HeadOf /\ Len(g) <= e /\ (Len(g) = e => g = Bytes(q, 1, e))
<1> DEFINE x == PacketOf(q, l)
           n == sent[q]
           f == FirstByte(n, l)
           e == LastByte(n, l)
           g == Grown(x)
<1>0. sent \in Seq(Lengths) /\ x = Head(air)
  BY DEF AirInv, TypeOK
<1>1. /\ q \in Nat /\ f \in Nat \ {0} /\ e \in Nat /\ f <= e /\ x.data = Bytes(q, f, e) /\ Len(x.data) = e - f + 1
      /\ Owners(x.data) = {q} /\ l \in Nat /\ n \in Nat \ {0} /\ Pieces(n) \in Nat
  BY <1>0, PartIs
<1>2. x.data \in Seq(Payloads \X Nat)
  BY <1>0, HeadCarries
<1> HIDE DEF x
<1>3. /\ Len(g) = Len(blob.data) + Len(x.data) /\ g[1][1] = HeadOf
      /\ Owners(g) = Owners(blob.data) \cup {q}
  BY <1>1, <1>2, GrownIs
<1>4. CASE q # HeadOf
  <2>1. q \in headless \/ OnAir(q, 1)
    BY <1>4 DEF HeadKnown
  <2>2. 1 \in Parts(q)
    BY <1>0, PartIs
  <2>3. ~OnAir(q, 1)
    BY <1>1, <2>2 DEF Before
  <2>4. QED
    BY <1>0, <1>3, <1>4, <2>1, <2>3
<1>5. CASE q = HeadOf
  <2>1. CASE \E r \in Owners(blob.data) : r # HeadOf /\ r \in headless
    BY <1>0, <1>3, <2>1
  <2>2. ASSUME NEW k \in 1..(Pieces(n) - 1), k < l,
               Len(blob.data) <= LastByte(n, k),
               Len(blob.data) = LastByte(n, k) => blob.data = Bytes(q, 1, LastByte(n, k))
        PROVE  Len(g) <= e /\ (Len(g) = e => g = Bytes(q, 1, e))
    <3> DEFINE b == LastByte(n, k)
    <3>1. k \in 1..Pieces(n) /\ l \in 1..Pieces(n)
      BY <1>1 DEF Parts
    <3>2. b < f
      BY <1>1, <2>2, <3>1, CutsRise
    <3>3. b \in Nat /\ Len(blob.data) \in Nat \ {0}
      BY <1>1, <3>1, Cuts, BlobHead
    <3>z. f \in Nat \ {0} /\ e \in Nat /\ f <= e
      BY <1>1
    <3>g. g = blob.data \o Bytes(q, f, e)
      BY <1>1 DEF Grown
    <3>4. Len(g) = Len(blob.data) + (e - f + 1) /\ Len(blob.data) <= b
      BY <1>1, <1>3, <2>2
    <3>d. Len(blob.data) = b => blob.data = Bytes(q, 1, b)
      BY <2>2
    <3> HIDE DEF b, f, e, g
    <3> DEFINE d == Len(blob.data)
    <3>a. d \in Nat \ {0} /\ d <= b /\ Len(g) = d + (e - f + 1)
      BY <3>3, <3>4
    <3> HIDE DEF d
    <3>f. /\ d + (e - f + 1) <= e
          /\ d + (e - f + 1) = e
               => d = b /\ f = b + 1 /\ b \in Nat \ {0} /\ e - b \in Nat \ {0} /\ b + (e - b) = e
      BY <3>2, <3>3, <3>a, <3>z, FillsUp
    <3>5. Len(g) <= e
      BY <3>a, <3>f
    <3>6. ASSUME Len(g) = e PROVE g = Bytes(q, 1, e)
      <4>1. Len(blob.data) = b /\ f = b + 1 /\ b \in Nat \ {0} /\ e - b \in Nat \ {0} /\ b + (e - b) = e
        BY <3>6, <3>a, <3>f DEF d
      <4>2. g = Bytes(q, 1, b) \o Bytes(q, b + 1, e)
        BY <3>d, <3>g, <4>1
      <4>3. PICK m \in Nat \ {0} : e = b + m
        BY <4>1
      <4>4. Bytes(q, 1, b) \o Bytes(q, b + 1, b + m) = Bytes(q, 1, b + m)
        <5>1. q \in Nat /\ b \in Nat \ {0}
          BY <1>1, <4>1
        <5>2. QED
          BY <5>1, BytesJoin
      <4>5. QED
        BY <4>2, <4>3, <4>4
    <3>7. QED
      BY <3>5, <3>6
  <2>3. \/ \E r \in Owners(blob.data) : r # HeadOf /\ r \in headless
        \/ \E k \in 1..(Pieces(n) - 1) :
             /\ k < l
             /\ Len(blob.data) <= LastByte(n, k)
             /\ Len(blob.data) = LastByte(n, k) => blob.data = Bytes(q, 1, LastByte(n, k))
    BY <1>5 DEF BlobSound
  <2>4. CASE \E k \in 1..(Pieces(n) - 1) :
               /\ k < l
               /\ Len(blob.data) <= LastByte(n, k)
               /\ Len(blob.data) = LastByte(n, k) => blob.data = Bytes(q, 1, LastByte(n, k))
    <3>1. Len(g) <= e /\ (Len(g) = e => g = Bytes(q, 1, e))
      BY <2>2, <2>4
    <3>2. QED
      BY <1>0, <1>3, <1>5, <3>1
  <2>5. QED
    BY <2>1, <2>3, <2>4
<1>6. QED
  BY <1>4, <1>5

(* A step that leaves the stream alone, and takes a first packet off the   *)
(* air only by losing it.                                                  *)
LEMMA QuietWhole ==
  ASSUME AirInv, WholeInv, UNCHANGED <<blob, delivered>>,
         Payloads \subseteq Payloads', \A p \in Payloads : sent'[p] = sent[p], headless \subseteq headless',
         \A p \in Payloads : \A k \in Parts(p) : OnAir(p, k)' => OnAir(p, k),
         \A p \in Payloads : OnAir(p, 1) /\ Pieces(sent[p]) > 1 => OnAir(p, 1)' \/ p \in headless',
         \A p \in Payloads' : p \notin Payloads => OnAir(p, 1)'
  PROVE  WholeInv'
<1>1. \A p \in Payloads : Parts(p)' = Parts(p) /\ Whole(p)' = Whole(p)
  BY DEF Parts, Whole
<1>h. HeadOf' = HeadOf /\ (blob # NoBlob => HeadOf \in Payloads)
  BY BlobHead DEF HeadOf
<1>2. BlobSound'
  <2> SUFFICES ASSUME blob # NoBlob PROVE BlobSound'
    BY DEF BlobSound
  <2>h. PICK h \in Payloads : h = HeadOf
    BY <1>h
  <2> DEFINE n == sent[h]
  <2>0. sent'[h] = n /\ Parts(h)' = Parts(h) /\ HeadOf' = h
    BY <1>1, <1>h, <2>h
  <2>1. ~Fits(n) /\ blob.length = n
    BY <2>h DEF WholeInv, BlobSound
  <2>2. CASE \E q \in Owners(blob.data) : q # h /\ q \in headless
    BY <2>0, <2>1, <2>2 DEF BlobSound
  <2>3. CASE \E k \in 1..(Pieces(n) - 1) :
               /\ \A l \in Parts(h) : OnAir(h, l) => k < l
               /\ Len(blob.data) <= LastByte(n, k)
               /\ Len(blob.data) = LastByte(n, k) => blob.data = Bytes(h, 1, LastByte(n, k))
    <3>1. PICK k \in 1..(Pieces(n) - 1) :
               /\ \A l \in Parts(h) : OnAir(h, l) => k < l
               /\ Len(blob.data) <= LastByte(n, k)
               /\ Len(blob.data) = LastByte(n, k) => blob.data = Bytes(h, 1, LastByte(n, k))
      BY <2>3
    <3>2. \A l \in Parts(h)' : OnAir(h, l)' => k < l
      BY <2>0, <3>1
    <3>3. QED
      BY <2>0, <2>1, <3>1, <3>2 DEF BlobSound
  <2>4. QED
    BY <2>h, <2>2, <2>3 DEF WholeInv, BlobSound
<1>3. HeadKnown'
  <2> SUFFICES ASSUME NEW q \in Payloads', NEW l \in Parts(q)', l > 1, OnAir(q, l)'
               PROVE  q \in headless' \/ blob = NoBlob \/ HeadOf = q \/ OnAir(q, 1)'
    BY <1>h DEF HeadKnown
  <2>1. CASE q \in Payloads
    <3>1. l \in Parts(q) /\ OnAir(q, l)
      BY <1>1, <2>1
    <3>2. Pieces(sent[q]) > 1
      <4>1. sent \in Seq(Lengths)
        BY DEF AirInv, TypeOK
      <4>2. Pieces(sent[q]) \in Nat
        BY <2>1, <3>1, <4>1, PartIs
      <4>3. QED
        BY <3>1, <4>2 DEF Parts
    <3>3. QED
      BY <2>1, <3>1, <3>2 DEF WholeInv, HeadKnown
  <2>2. QED
    BY <2>1
<1>4. WholeOrNothing'
  BY <1>1 DEF WholeInv, WholeOrNothing
<1>5. QED
  BY <1>2, <1>3, <1>4 DEF WholeInv

LEMMA ReceiveWhole ==
  ASSUME AirInv, WholeInv, Receive
  PROVE  WholeInv'
<1> DEFINE x == Head(air)
<1>0. /\ air # <<>> /\ air' = Tail(air) /\ UNCHANGED <<sent, headless>> /\ sent \in Seq(Lengths)
      /\ BlobSound /\ HeadKnown /\ WholeOrNothing
  BY DEF Receive, AirInv, TypeOK, WholeInv
<1>1. /\ Payloads' = Payloads /\ \A p : Parts(p)' = Parts(p) /\ Whole(p)' = Whole(p)
      /\ \A p \in Payloads : \A k \in Parts(p) : OnAir(p, k)' <=> OnAir(p, k) /\ x # PacketOf(p, k)
  BY <1>0, AirTail DEF Payloads, Parts, Whole
<1>2. \/ Reset
      \/ UNCHANGED <<blob, lastSeq>> /\ (IsStatus(x) \/ Alone(x))
      \/ Starts(x) /\ blob' = [length |-> x.length, data |-> x.data] /\ lastSeq' = x.seq
      \/ Continues(x) /\ blob' = [blob EXCEPT !.data = Grown(x)] /\ lastSeq' = x.seq
  BY ReceiveBlob
<1>3. ASSUME x.type \notin {"Status", "Unknown"}
      PROVE  \E q \in Payloads : \E l \in Parts(q) :
               /\ x = PacketOf(q, l) /\ OnAir(q, l)
               /\ \A r \in Payloads : \A m \in Parts(r) :
                    OnAir(r, m) => (r = q /\ m = l) \/ Before(q, l, r, m)
  BY <1>0, <1>3, AirHead DEF IsExtra
<1>4. ASSUME NEW q \in Payloads, NEW l \in Parts(q), x = PacketOf(q, l)
      PROVE  /\ x.type = "Single" => l = 1 /\ Pieces(sent[q]) = 1
             /\ x.type = "BlobStart" => l = 1 /\ Pieces(sent[q]) > 1
             /\ x.type = "BlobStream" => l > 1 /\ l < Pieces(sent[q])
             /\ x.type = "BlobComplete" => l > 1 /\ l = Pieces(sent[q])
  <2> DEFINE n == sent[q]
             y == PacketOf(q, l)
  <2>a. /\ l \in Nat \ {0} /\ Pieces(n) \in Nat \ {0} /\ l <= Pieces(n)
        /\ y.type = (CASE Pieces(n) = 1 -> "Single"
                       [] Pieces(n) # 1 /\ l = 1 -> "BlobStart"
                       [] Pieces(n) # 1 /\ l # 1 /\ l = Pieces(n) -> "BlobComplete"
                       [] OTHER -> "BlobStream")
    BY <1>0, PartIs
  <2>b. x = y
    BY <1>4
  <2> HIDE DEF y
  <2>1. /\ l \in Nat \ {0} /\ Pieces(n) \in Nat \ {0} /\ l <= Pieces(n)
        /\ x.type = (CASE Pieces(n) = 1 -> "Single"
                       [] Pieces(n) # 1 /\ l = 1 -> "BlobStart"
                       [] Pieces(n) # 1 /\ l # 1 /\ l = Pieces(n) -> "BlobComplete"
                       [] OTHER -> "BlobStream")
    BY <2>a, <2>b
  <2> HIDE DEF n, x
  <2>2. CASE Pieces(n) = 1
    BY <2>1, <2>2 DEF n
  <2>3. CASE Pieces(n) # 1 /\ l = 1
    BY <2>1, <2>3 DEF n
  <2>4. CASE Pieces(n) # 1 /\ l # 1 /\ l = Pieces(n)
    BY <2>1, <2>4 DEF n
  <2>5. CASE Pieces(n) # 1 /\ l # 1 /\ l # Pieces(n)
    BY <2>1, <2>5 DEF n
  <2>6. QED
    BY <2>2, <2>3, <2>4, <2>5
<1> HIDE DEF x
<1>5. BlobSound'
  <2>1. CASE Reset
    BY <2>1 DEF Reset, BlobSound
  <2>2. CASE UNCHANGED blob
    <3>1. HeadOf' = HeadOf /\ (blob # NoBlob => HeadOf \in Payloads)
      BY <2>2, BlobHead DEF HeadOf
    <3>2. ASSUME NEW k PROVE (\A l \in Parts(HeadOf) : OnAir(HeadOf, l) => k < l)
                          /\ HeadOf \in Payloads
                             => \A l \in Parts(HeadOf)' : OnAir(HeadOf, l)' => k < l
      BY <1>1, <3>1
    <3>3. QED
      BY <1>0, <2>2, <3>1, <3>2 DEF BlobSound
  <2>3. CASE Starts(x) /\ blob' = [length |-> x.length, data |-> x.data]
    <3>1. PICK q \in Payloads : \E l \in Parts(q) : x = PacketOf(q, l)
      BY <1>3, <2>3 DEF Starts
    <3>2. PICK l \in Parts(q) : x = PacketOf(q, l)
      BY <3>1
    <3> DEFINE n == sent[q]
               e == LastByte(n, 1)
    <3>3. l = 1 /\ Pieces(n) > 1
      BY <1>4, <2>3, <3>2 DEF Starts
    <3>4. /\ q \in Nat /\ Pieces(n) \in Nat /\ (Fits(n) <=> Pieces(n) = 1) /\ x.length = n
          /\ x.data = Bytes(q, FirstByte(n, 1), e) /\ x.data[1] = <<q, FirstByte(n, 1)>>
          /\ Len(x.data) = e - FirstByte(n, 1) + 1 /\ e \in Nat
      <4> DEFINE y == PacketOf(q, 1)
      <4>1. 1 \in Parts(q) /\ y = x
        BY <3>2, <3>3
      <4>2. /\ q \in Nat /\ Pieces(n) \in Nat /\ (Fits(n) <=> Pieces(n) = 1) /\ e \in Nat
            /\ y.data = Bytes(q, FirstByte(n, 1), e) /\ y.data[1] = <<q, FirstByte(n, 1)>>
            /\ Len(y.data) = e - FirstByte(n, 1) + 1
        BY <1>0, <4>1, PartIs
      <4>3. Pieces(n) # 1 => y.length = n
        BY <1>0, <4>1, PartIs
      <4>4. Pieces(n) # 1
        BY <3>3, <4>2
      <4> HIDE DEF y, n, e
      <4>5. QED
        BY <4>1, <4>2, <4>3, <4>4
    <3>5. FirstByte(n, 1) = 1 /\ Len(x.data) = e /\ x.data = Bytes(q, 1, e)
      <4>1. FirstByte(n, 1) = 1
        BY DEF FirstByte
      <4> HIDE DEF e
      <4>2. QED
        BY <3>4, <4>1
    <3>6. HeadOf' = q /\ blob'.length = n /\ blob'.data = x.data /\ ~Fits(n)
      <4>1. blob'.length = x.length /\ blob'.data = x.data
        BY <2>3
      <4>2. Pieces(n) # 1
        BY <3>3, <3>4
      <4>3. QED
        BY <3>4, <4>1, <4>2 DEF HeadOf
    <3>7. \A m \in Parts(q)' : OnAir(q, m)' => 1 < m
      <4>1. \A m \in Parts(q) : m \in Nat \ {0}
        BY <1>0, PartIs
      <4>2. ~OnAir(q, 1)'
        BY <1>1, <3>2, <3>3
      <4>3. QED
        BY <1>1, <4>1, <4>2
    <3>8. 1 \in 1..(Pieces(n) - 1)
      BY <3>3, <3>4
    <3>9. sent'[q] = n /\ Len(blob'.data) <= e /\ blob'.data = Bytes(q, 1, e)
      BY <1>0, <3>4, <3>5, <3>6
    <3> HIDE DEF n
    <3>10. QED
      BY <3>6, <3>7, <3>8, <3>9 DEF BlobSound
  <2>4. CASE Continues(x) /\ blob' = [blob EXCEPT !.data = Grown(x)]
    <3>1. PICK q \in Payloads : \E l \in Parts(q) :
               /\ x = PacketOf(q, l) /\ OnAir(q, l)
               /\ \A r \in Payloads : \A m \in Parts(r) :
                    OnAir(r, m) => (r = q /\ m = l) \/ Before(q, l, r, m)
      BY <1>3, <2>4 DEF Continues
    <3>2. PICK l \in Parts(q) :
               /\ x = PacketOf(q, l) /\ OnAir(q, l)
               /\ \A r \in Payloads : \A m \in Parts(r) :
                    OnAir(r, m) => (r = q /\ m = l) \/ Before(q, l, r, m)
      BY <3>1
    <3> DEFINE n == sent[q]
               g == Grown(x)
               e == LastByte(n, l)
    <3>3. l > 1 /\ l < Pieces(n) /\ blob # NoBlob
      BY <1>4, <2>4, <3>2 DEF Continues, NextInBlob
    <3>4. /\ g[1][1] = HeadOf
          /\ \/ \E r \in Owners(g) : r # HeadOf /\ r \in headless
             \/ q = HeadOf /\ Len(g) <= e /\ (Len(g) = e => g = Bytes(q, 1, e))
      BY <1>0, <3>2, <3>3, GrownSound DEF x
    <3>5. /\ blob'.data = g /\ blob'.length = blob.length /\ HeadOf' = HeadOf
          /\ ~Fits(sent[HeadOf]) /\ blob.length = sent[HeadOf]
      <4>1. blob'.data = g /\ blob'.length = blob.length
        BY <2>4, <3>3, BlobHead
      <4>2. QED
        BY <1>0, <3>3, <3>4, <4>1 DEF HeadOf, BlobSound
    <3>6. CASE \E r \in Owners(g) : r # HeadOf /\ r \in headless
      BY <1>0, <3>5, <3>6 DEF BlobSound
    <3>7. CASE q = HeadOf /\ Len(g) <= e /\ (Len(g) = e => g = Bytes(q, 1, e))
      <4>1. l \in Nat /\ Pieces(n) \in Nat
        BY <1>0, PartIs
      <4>2. l \in 1..(Pieces(n) - 1)
        BY <3>3, <4>1
      <4>3. \A m \in Parts(q)' : OnAir(q, m)' => l < m
        <5> SUFFICES ASSUME NEW m \in Parts(q), OnAir(q, m)' PROVE l < m
          BY <1>1
        <5>1. OnAir(q, m) /\ m # l
          BY <1>1, <3>2
        <5>2. Before(q, l, q, m)
          BY <3>2, <5>1
        <5>3. q \in Nat
          BY <1>0, PartIs
        <5>4. QED
          BY <5>2, <5>3 DEF Before
      <4>4. QED
        BY <1>0, <3>5, <3>7, <4>2, <4>3 DEF BlobSound
    <3>8. QED
      BY <3>4, <3>6, <3>7
  <2>5. QED
    BY <1>2, <2>1, <2>2, <2>3, <2>4
<1>6. HeadKnown'
  <2> SUFFICES ASSUME NEW q \in Payloads, NEW l \in Parts(q), l > 1, OnAir(q, l)', q \notin headless,
                      blob' # NoBlob
               PROVE  HeadOf' = q \/ OnAir(q, 1)'
    BY <1>0, <1>1 DEF HeadKnown
  <2>0. /\ OnAir(q, l) /\ q \in Nat /\ 1 \in Parts(q) /\ l \in Nat /\ Pieces(sent[q]) > 1
        /\ (OnAir(q, 1)' <=> OnAir(q, 1) /\ x # PacketOf(q, 1))
    <3>1. /\ q \in Nat /\ 1 \in Parts(q) /\ l \in Nat /\ Pieces(sent[q]) \in Nat /\ l <= Pieces(sent[q])
      BY <1>0, PartIs
    <3>2. Pieces(sent[q]) > 1
      BY <3>1
    <3>3. QED
      BY <1>1, <3>1, <3>2
  <2>1. CASE x = PacketOf(q, 1)
    <3>1. x.type = "BlobStart"
      <4> DEFINE n == sent[q]
      <4>1. x.type = (CASE Pieces(n) = 1 -> "Single"
                       [] Pieces(n) # 1 /\ 1 = 1 -> "BlobStart"
                       [] Pieces(n) # 1 /\ 1 # 1 /\ 1 = Pieces(n) -> "BlobComplete"
                       [] OTHER -> "BlobStream")
        BY <1>0, <2>0, <2>1, PartIs
      <4>2. Pieces(n) # 1
        BY <2>0
      <4> HIDE DEF n
      <4>3. QED
        BY <4>1, <4>2
    <3>2. blob'.data = x.data /\ x.data[1] = <<q, FirstByte(sent[q], 1)>>
      <4>1. blob' = [length |-> x.length, data |-> x.data]
        BY <1>2, <3>1 DEF Reset, IsStatus, Alone, Continues
      <4>2. x.data[1] = <<q, FirstByte(sent[q], 1)>>
        BY <1>0, <2>0, <2>1, PartIs
      <4>3. QED
        BY <4>1, <4>2
    <3>3. QED
      BY <3>2 DEF HeadOf
  <2>2. CASE x # PacketOf(q, 1) /\ OnAir(q, 1)
    BY <2>0, <2>2
  <2>3. CASE HeadOf = q /\ blob # NoBlob
    <3>1. CASE UNCHANGED blob
      BY <2>3, <3>1 DEF HeadOf
    <3>2. CASE Continues(x) /\ blob' = [blob EXCEPT !.data = Grown(x)]
      <4>1. blob'.data = Grown(x) /\ x.data \in Seq(Payloads \X Nat)
        BY <1>0, <2>3, <3>2, BlobHead, HeadCarries DEF x
      <4>2. Grown(x)[1][1] = HeadOf
        BY <2>3, <4>1, GrownIs
      <4>3. QED
        BY <2>3, <4>1, <4>2 DEF HeadOf
    <3>3. QED
      BY <1>2, <2>3, <3>1, <3>2 DEF Reset, Starts
  <2>4. CASE blob = NoBlob
    <3>1. Starts(x) /\ blob' = [length |-> x.length, data |-> x.data]
      BY <1>2, <2>4 DEF Reset, Continues, NextInBlob
    <3>2. PICK r \in Payloads : \E m \in Parts(r) :
               /\ x = PacketOf(r, m) /\ OnAir(r, m)
               /\ \A s \in Payloads : \A j \in Parts(s) :
                    OnAir(s, j) => (s = r /\ j = m) \/ Before(r, m, s, j)
      BY <1>3, <3>1 DEF Starts
    <3>3. PICK m \in Parts(r) :
               /\ x = PacketOf(r, m) /\ OnAir(r, m)
               /\ \A s \in Payloads : \A j \in Parts(s) :
                    OnAir(s, j) => (s = r /\ j = m) \/ Before(r, m, s, j)
      BY <3>2
    <3>4. m = 1 /\ r \in Nat
      BY <1>0, <1>4, <3>1, <3>3, PartIs DEF Starts
    <3>5. CASE r = q
      <4>1. x.data[1] = <<q, FirstByte(sent[q], 1)>> /\ blob'.data = x.data
        BY <1>0, <2>0, <3>1, <3>3, <3>4, <3>5, PartIs
      <4>2. QED
        BY <4>1 DEF HeadOf
    <3>6. CASE r # q
      <4>1. Before(r, 1, q, l)
        BY <2>0, <3>3, <3>4, <3>6
      <4>2. Before(r, 1, q, 1)
        BY <3>6, <4>1 DEF Before
      <4>3. OnAir(q, 1)
        BY <2>0, <3>3, <3>4, <4>2 DEF AirInv, AirIsSuffix
      <4>4. x # PacketOf(q, 1)
        <5>1. 1 \in Parts(r)
          BY <3>3, <3>4
        <5>2. PacketOf(r, 1) = PacketOf(q, 1) => r = q
          BY <1>0, <2>0, <5>1, OneNumber
        <5>3. QED
          BY <3>3, <3>4, <3>6, <5>2
      <4>5. QED
        BY <2>0, <4>3, <4>4
    <3>7. QED
      BY <3>5, <3>6
  <2>5. QED
    BY <1>0, <2>0, <2>1, <2>2, <2>3, <2>4 DEF HeadKnown
<1>7. WholeOrNothing'
  <2> SUFFICES ASSUME NEW data \in delivered'
               PROVE  \/ \E p \in Payloads : data = Whole(p)
                      \/ \E p \in Owners(data) \cap headless : p # data[1][1]
    BY <1>0, <1>1 DEF WholeOrNothing
  <2>1. CASE data \in delivered
    BY <1>0, <2>1 DEF WholeOrNothing
  <2>2. CASE Alone(x) /\ data = x.data
    <3>1. PICK q \in Payloads : \E l \in Parts(q) : x = PacketOf(q, l)
      BY <1>3, <2>2 DEF Alone
    <3>2. PICK l \in Parts(q) : x = PacketOf(q, l)
      BY <3>1
    <3> DEFINE n == sent[q]
    <3>3. l = 1 /\ Pieces(n) = 1
      BY <1>4, <2>2, <3>2 DEF Alone
    <3>4. x.data = Bytes(q, FirstByte(n, 1), LastByte(n, 1))
      BY <1>0, <3>2, <3>3, PartIs
    <3>5. FirstByte(n, 1) = 1 /\ LastByte(n, 1) = n
      BY <3>3 DEF FirstByte, LastByte
    <3>6. QED
      BY <2>2, <3>4, <3>5 DEF Whole
  <2>3. CASE Completes(x) /\ data = Grown(x)
    <3>1. PICK q \in Payloads : \E l \in Parts(q) :
               /\ x = PacketOf(q, l) /\ OnAir(q, l)
               /\ \A r \in Payloads : \A m \in Parts(r) :
                    OnAir(r, m) => (r = q /\ m = l) \/ Before(q, l, r, m)
      BY <1>3, <2>3 DEF Completes
    <3>2. PICK l \in Parts(q) :
               /\ x = PacketOf(q, l) /\ OnAir(q, l)
               /\ \A r \in Payloads : \A m \in Parts(r) :
                    OnAir(r, m) => (r = q /\ m = l) \/ Before(q, l, r, m)
      BY <3>1
    <3> DEFINE n == sent[q]
               g == Grown(x)
               e == LastByte(n, l)
    <3>3. l > 1 /\ l = Pieces(n) /\ blob # NoBlob /\ Len(g) = blob.length
      BY <1>4, <2>3, <3>2 DEF Completes, NextInBlob
    <3>4. /\ g[1][1] = HeadOf
          /\ \/ \E r \in Owners(g) : r # HeadOf /\ r \in headless
             \/ q = HeadOf /\ Len(g) <= e /\ (Len(g) = e => g = Bytes(q, 1, e))
      BY <1>0, <3>2, <3>3, GrownSound DEF x
    <3>5. blob.length = sent[HeadOf] /\ e = n
      BY <1>0, <3>3 DEF BlobSound, LastByte
    <3>6. QED
      BY <2>3, <3>3, <3>4, <3>5 DEF Whole
  <2>4. delivered' = delivered \/ (Alone(x) /\ delivered' = delivered \cup {x.data})
        \/ (Completes(x) /\ delivered' = delivered \cup {Grown(x)})
    BY DEF Receive, Refuse, Complete, streamVars, x
  <2>5. QED
    BY <2>1, <2>2, <2>3, <2>4
<1>8. QED
  BY <1>5, <1>6, <1>7 DEF WholeInv

LEMMA NextWholeInv == AirInv /\ WholeInv /\ [Next]_vars => WholeInv'
<1> SUFFICES ASSUME AirInv, WholeInv, [Next]_vars PROVE WholeInv'
  OBVIOUS
<1>s. sent \in Seq(Lengths)
  BY DEF AirInv, TypeOK
<1>1. CASE Receive
  BY <1>1, ReceiveWhole
<1>2. CASE Lose
  <2> DEFINE x == Head(air)
  <2>1. /\ air # <<>> /\ air' = Tail(air) /\ UNCHANGED <<sent, blob, delivered>>
        /\ headless' = headless \cup IF x.type = "BlobStart" THEN Owners(x.data) ELSE {}
    BY <1>2 DEF Lose, streamVars
  <2>2. /\ Payloads' = Payloads
        /\ \A p \in Payloads : \A k \in Parts(p) : OnAir(p, k)' <=> OnAir(p, k) /\ x # PacketOf(p, k)
    BY <2>1, AirTail DEF Payloads
  <2> HIDE DEF x
  <2>3. ASSUME NEW p \in Payloads, OnAir(p, 1), Pieces(sent[p]) > 1 PROVE OnAir(p, 1)' \/ p \in headless'
    <3>1. 1 \in Parts(p)
      <4>1. Pieces(sent[p]) \in Nat
        BY <1>s, SentLengths, Cuts
      <4>2. QED
        BY <2>3, <4>1 DEF Parts
    <3>2. CASE x = PacketOf(p, 1)
      <4> DEFINE n == sent[p]
      <4>1. /\ Owners(x.data) = {p}
            /\ x.type = (CASE Pieces(n) = 1 -> "Single"
                       [] Pieces(n) # 1 /\ 1 = 1 -> "BlobStart"
                       [] Pieces(n) # 1 /\ 1 # 1 /\ 1 = Pieces(n) -> "BlobComplete"
                       [] OTHER -> "BlobStream")
        BY <1>s, <3>1, <3>2, PartIs
      <4>2. Pieces(n) # 1
        BY <2>3
      <4> HIDE DEF n
      <4>3. x.type = "BlobStart"
        BY <4>1, <4>2
      <4>4. QED
        BY <2>1, <4>1, <4>3
    <3>3. QED
      BY <2>2, <2>3, <3>1, <3>2
  <2>4. headless \subseteq headless'
    BY <2>1
  <2>5. QED
    BY <2>1, <2>2, <2>3, <2>4, QuietWhole
<1>3. CASE Reconnect
  <2>1. /\ air' = <<>> /\ UNCHANGED <<sent, headless, delivered>> /\ blob' = NoBlob
    BY <1>3 DEF Reconnect, Reset
  <2>2. \A p, k : ~OnAir(p, k)'
    BY <2>1, AirCleared
  <2>3. QED
    BY <2>1, <2>2 DEF WholeInv, BlobSound, HeadKnown, WholeOrNothing, Payloads, Whole
<1>4. ASSUME NEW n \in Lengths, Send(n) PROVE WholeInv'
  <2>c. PICK c : c = Len(sent) + 1
    OBVIOUS
  <2>1. /\ n \in Nat \ {0} /\ Payloads' = Payloads \cup {c} /\ sent'[c] = n
        /\ \A p \in Payloads : sent'[p] = sent[p]
        /\ \A p \in Payloads : \A k \in Parts(p) : OnAir(p, k)' <=> OnAir(p, k)
        /\ \A k \in Parts(c)' : OnAir(c, k)'
    BY <1>4, <2>c, AirExtended
  <2>2. UNCHANGED <<blob, delivered, headless>>
    BY <1>4 DEF Send, streamVars, ghostVars
  <2>3. \A p \in Payloads : 1 \in Parts(p)
    BY <1>s, PartIs, SentLengths, Cuts DEF Parts
  <2>4. OnAir(c, 1)'
    <3>1. 1 \in Parts(c)'
      BY <2>1, Cuts DEF Parts
    <3>2. QED
      BY <2>1, <3>1
  <2>5. QED
    BY <2>1, <2>2, <2>3, <2>4, QuietWhole
<1>5. ASSUME NEW type \in {"Status", "Unknown"}, SendExtra(type) PROVE WholeInv'
  <2> DEFINE e == Packet(type, 1, 0, <<>>)
  <2>1. PICK i \in 1..(Len(air) + 1) : air' = InsertAt(air, i, e)
    BY <1>5 DEF SendExtra
  <2>2. UNCHANGED <<sent, blob, delivered, headless>>
    BY <1>5 DEF SendExtra, streamVars, ghostVars
  <2>3. e \in Shapes /\ IsExtra(e)
    BY ExtraIs
  <2> HIDE DEF e
  <2>4. \A p \in Payloads : \A k \in Parts(p) : OnAir(p, k)' <=> OnAir(p, k)
    BY <2>1, <2>2, <2>3, AirInserted
  <2>5. \A p \in Payloads : 1 \in Parts(p)
    BY <1>s, SentLengths, Cuts DEF Parts
  <2>6. Payloads' = Payloads
    BY <2>2 DEF Payloads
  <2>7. QED
    BY <2>2, <2>4, <2>5, <2>6, QuietWhole
<1>6. CASE UNCHANGED vars
  <2>1. UNCHANGED <<air, sent, blob, delivered, headless>>
    BY <1>6 DEF vars, streamVars, ghostVars
  <2>2. Payloads' = Payloads /\ \A p, k : OnAir(p, k)' <=> OnAir(p, k)
    BY <2>1 DEF Payloads, OnAir, PacketOf
  <2>3. QED
    BY <2>1, <2>2, QuietWhole
<1>7. QED
  BY <1>1, <1>2, <1>3, <1>4, <1>5, <1>6 DEF Next

LEMMA SpecWholeInv == Spec => []WholeInv
<1>1. Init => WholeInv
  <2> SUFFICES ASSUME Init PROVE WholeInv
    OBVIOUS
  <2>1. Payloads = {}
    BY EmptySeq DEF Init, Payloads
  <2>2. QED
    BY <2>1 DEF Init, WholeInv, BlobSound, HeadKnown, WholeOrNothing
<1>2. QED
  BY <1>1, NextWholeInv, SpecAirInv, PTL DEF Spec

(* Whatever the link loses, and whatever ACKs and unknown packets come     *)
(* between: what PacketStream.receive hands up is a payload of the lock,   *)
(* byte for byte, or the glue of two of which the first packet of the      *)
(* later one was lost.  The sequence number plays no part in it: the       *)
(* declared length does, for every packet size and every length.           *)
THEOREM HandsUpWholePayloads == Spec => []WholeOrNothing
<1>1. WholeInv => WholeOrNothing
  BY DEF WholeInv
<1>2. QED
  BY <1>1, SpecWholeInv, PTL
-----------------------------------------------------------------------------
(***************************************************************************)
(* Back in step.                                                           *)
(***************************************************************************)

(* Nothing keeps payload p from finding the stream in step. *)
Clear(p) == p \in first \/ p - 1 \notin hurt

(* Whatever was sent before payload p is no longer on its way. *)
Gone(p) == \A q \in Payloads : \A k \in Parts(q) : q < p => ~OnAir(q, k)

FirstFresh == \A p \in first : Gone(p)

(* Once the packets before a clear payload are gone, no blob is open. *)
ReadyForNext ==
  \A p \in 1..(Len(sent) + 1) : Clear(p) /\ Gone(p) /\ (p \in Payloads => OnAir(p, 1)) => blob = NoBlob

(* Payload p has come in up to its k-th packet, and the rest is to come. *)
InProgress(p, k) ==
  /\ blob = [length |-> sent[p], data |-> Bytes(p, 1, LastByte(sent[p], k))]
  /\ lastSeq = k % SeqValues
  /\ OnAir(p, k + 1)
  /\ \A l \in 1..k : ~OnAir(p, l)

(* An undisturbed payload is delivered, not begun, or under way. *)
InStep ==
  \A p \in Payloads \ hurt :
    Clear(p) => \/ Whole(p) \in delivered
                \/ OnAir(p, 1)
                \/ \E k \in 1..(Pieces(sent[p]) - 1) : InProgress(p, k)

StepInv == FirstFresh /\ ReadyForNext /\ InStep

LEMMA OpenIsNoBlob == ASSUME NEW a, NEW d PROVE [length |-> a, data |-> d] # NoBlob
<1>1. "length" \in DOMAIN [length |-> a, data |-> d]
  OBVIOUS
<1>2. DOMAIN NoBlob = {}
  BY EmptySeq DEF NoBlob
<1>3. QED
  BY <1>1, <1>2

LEMMA StillInProgress ==
  ASSUME NEW p \in Payloads, NEW k, InProgress(p, k), UNCHANGED <<blob, lastSeq>>, sent'[p] = sent[p],
         OnAir(p, k + 1)', \A l \in 1..k : OnAir(p, l)' => OnAir(p, l)
  PROVE  InProgress(p, k)'
BY DEF InProgress

(* The parts of a payload in progress. *)
LEMMA PartsOf ==
  ASSUME sent \in Seq(Lengths), NEW p \in Payloads
  PROVE  /\ p \in Nat \ {0} /\ sent[p] \in Nat \ {0} /\ Pieces(sent[p]) \in Nat \ {0}
         /\ 1 \in Parts(p) /\ Pieces(sent[p]) \in Parts(p)
         /\ \A k \in 1..(Pieces(sent[p]) - 1) : /\ k \in Parts(p) /\ k + 1 \in Parts(p)
                                                /\ \A l \in 1..k : l \in Parts(p)
<1>1. p \in Nat \ {0} /\ sent[p] \in Nat \ {0} /\ Pieces(sent[p]) \in Nat \ {0}
  BY SentLengths, Cuts
<1>2. QED
  BY <1>1 DEF Parts

(* A step of the lock, which touches neither the stream nor what is lost. *)
LEMMA QuietStep ==
  ASSUME AirInv, StepInv, UNCHANGED <<blob, lastSeq, delivered, hurt, first, sent>>,
         \A p \in Payloads : \A k \in Parts(p) : OnAir(p, k)' <=> OnAir(p, k)
  PROVE  StepInv'
<1>0. sent \in Seq(Lengths)
  BY DEF AirInv, TypeOK
<1>1. Payloads' = Payloads /\ \A p : Parts(p)' = Parts(p) /\ Whole(p)' = Whole(p) /\ (Clear(p)' <=> Clear(p))
  BY DEF Payloads, Parts, Whole, Clear
<1>2. \A p : Gone(p)' <=> Gone(p)
  BY <1>1 DEF Gone
<1>3. FirstFresh' /\ ReadyForNext'
  <2>1. \A p \in Payloads : OnAir(p, 1)' <=> OnAir(p, 1)
    BY <1>0, PartsOf
  <2>2. QED
    BY <1>1, <1>2, <2>1 DEF StepInv, FirstFresh, ReadyForNext
<1>4. InStep'
  <2> SUFFICES ASSUME NEW p \in Payloads \ hurt, Clear(p)
               PROVE  \/ Whole(p) \in delivered \/ OnAir(p, 1)'
                      \/ \E k \in 1..(Pieces(sent[p]) - 1) : InProgress(p, k)'
    BY <1>1 DEF InStep
  <2>1. OnAir(p, 1)' <=> OnAir(p, 1)
    BY <1>0, PartsOf
  <2>2. ASSUME NEW k \in 1..(Pieces(sent[p]) - 1), InProgress(p, k) PROVE InProgress(p, k)'
    <3>1. k + 1 \in Parts(p) /\ \A l \in 1..k : l \in Parts(p)
      BY <1>0, PartsOf
    <3>2. OnAir(p, k + 1)' /\ \A l \in 1..k : OnAir(p, l)' => OnAir(p, l)
      BY <2>2, <3>1 DEF InProgress
    <3>3. QED
      BY <2>2, <3>2, StillInProgress
  <2>3. QED
    BY <2>1, <2>2 DEF StepInv, InStep
<1>5. QED
  BY <1>3, <1>4 DEF StepInv

(* What is left on its way once the earliest packet is gone. *)
LEMMA HeadGoes ==
  ASSUME AirInv, air # <<>>, air' = Tail(air), sent' = sent
  PROVE  /\ sent \in Seq(Lengths) /\ Payloads' = Payloads
         /\ \A p : Parts(p)' = Parts(p) /\ Whole(p)' = Whole(p)
         /\ \A p : Gone(p) => Gone(p)'
         /\ \A p \in Payloads : \A k \in Parts(p) : OnAir(p, k)' <=> OnAir(p, k) /\ Head(air) # PacketOf(p, k)
<1>1. \A p \in Payloads : \A k \in Parts(p) : OnAir(p, k)' <=> OnAir(p, k) /\ Head(air) # PacketOf(p, k)
  BY AirTail
<1>2. sent \in Seq(Lengths) /\ Payloads' = Payloads /\ \A p : Parts(p)' = Parts(p) /\ Whole(p)' = Whole(p)
  BY DEF AirInv, TypeOK, Payloads, Parts, Whole
<1>3. ASSUME NEW p, Gone(p) PROVE Gone(p)'
  BY <1>1, <1>2, <1>3 DEF Gone
<1>4. QED
  BY <1>1, <1>2, <1>3

(* The packet that leaves none of the payloads before p on its way is the  *)
(* last of the payload before p.                                           *)
LEMMA LastOfPrevious ==
  ASSUME AirInv, air # <<>>, air' = Tail(air), sent' = sent, NEW p \in 1..(Len(sent) + 1),
         Gone(p)', p \in Payloads => OnAir(p, 1)', ~IsExtra(Head(air))
  PROVE  /\ p - 1 \in Payloads /\ OnAir(p - 1, Pieces(sent[p - 1]))
         /\ Head(air) = PacketOf(p - 1, Pieces(sent[p - 1]))
<1> DEFINE x == Head(air)
<1>q. PICK q \in Payloads : \E l \in Parts(q) :
           /\ x = PacketOf(q, l) /\ OnAir(q, l)
           /\ \A r \in Payloads : \A m \in Parts(r) :
                OnAir(r, m) => (r = q /\ m = l) \/ Before(q, l, r, m)
  BY AirHead
<1>1. PICK l \in Parts(q) :
           /\ x = PacketOf(q, l) /\ OnAir(q, l)
           /\ \A r \in Payloads : \A m \in Parts(r) :
                OnAir(r, m) => (r = q /\ m = l) \/ Before(q, l, r, m)
  BY <1>q
<1>2. /\ sent \in Seq(Lengths) /\ Payloads' = Payloads /\ \A r : Parts(r)' = Parts(r)
      /\ \A r \in Payloads : \A m \in Parts(r) : OnAir(r, m)' <=> OnAir(r, m) /\ x # PacketOf(r, m)
  BY HeadGoes
<1> HIDE DEF x
<1>3. /\ Len(sent) \in Nat /\ p \in Nat \ {0} /\ q \in Nat \ {0} /\ l \in Nat \ {0}
      /\ Pieces(sent[q]) \in Nat \ {0} /\ l <= Pieces(sent[q])
  BY <1>2, SentLengths, PartsOf DEF Parts
<1>4. q < p
  <2> SUFFICES ASSUME q >= p PROVE FALSE
    BY <1>3
  <2>1. p \in Payloads /\ 1 \in Parts(p)
    <3>1. p \in Payloads
      BY <1>3 DEF Payloads
    <3>2. QED
      BY <1>2, <3>1, PartsOf
  <2>2. OnAir(p, 1) /\ x # PacketOf(p, 1)
    BY <1>2, <2>1
  <2>3. Before(q, l, p, 1)
    BY <1>1, <2>1, <2>2
  <2>4. QED
    BY <1>3, <2>3 DEF Before
<1>5. ASSUME NEW r \in Payloads, NEW m \in Parts(r), Before(q, l, r, m) PROVE OnAir(r, m)'
  <2>1. OnAir(r, m)
    BY <1>1, <1>5 DEF AirInv, AirIsSuffix
  <2>2. x # PacketOf(r, m)
    <3>1. x = PacketOf(r, m) => q = r /\ l = m
      BY <1>1, <1>2, OneNumber
    <3>2. m \in Nat /\ r \in Nat
      BY <1>2, PartIs
    <3>3. QED
      BY <1>3, <1>5, <3>1, <3>2 DEF Before
  <2>3. QED
    BY <1>2, <2>1, <2>2
<1>6. q = p - 1
  <2> SUFFICES ASSUME q < p - 1 PROVE FALSE
    BY <1>3, <1>4
  <2>1. p - 1 \in Payloads
    BY <1>3 DEF Payloads
  <2>2. OnAir(p - 1, 1)' /\ 1 \in Parts(p - 1)
    BY <1>2, <1>5, <2>1, PartsOf DEF Before
  <2>3. QED
    BY <1>2, <1>3, <2>1, <2>2 DEF Gone
<1>7. l = Pieces(sent[q])
  <2> SUFFICES ASSUME l < Pieces(sent[q]) PROVE FALSE
    BY <1>3
  <2>1. l + 1 \in Parts(q)
    BY <1>3 DEF Parts
  <2>2. Before(q, l, q, l + 1)
    BY <1>3 DEF Before
  <2>3. OnAir(q, l + 1)'
    BY <1>5, <2>1, <2>2
  <2>4. QED
    BY <1>2, <1>4, <2>1, <2>3 DEF Gone
<1>8. QED
  BY <1>1, <1>6, <1>7 DEF x

LEMMA ReceiveReady ==
  ASSUME AirInv, StepInv, Receive
  PROVE  FirstFresh' /\ ReadyForNext'
<1> DEFINE x == Head(air)
<1>1. /\ air # <<>> /\ air' = Tail(air) /\ UNCHANGED <<sent, first>> /\ hurt \subseteq hurt'
  BY DEF Receive, Refuse, Complete
<1>2. /\ sent \in Seq(Lengths) /\ Payloads' = Payloads /\ \A p : Parts(p)' = Parts(p)
      /\ \A p : Gone(p) => Gone(p)'
      /\ \A p \in Payloads : \A k \in Parts(p) : OnAir(p, k)' <=> OnAir(p, k) /\ x # PacketOf(p, k)
  BY <1>1, HeadGoes
<1>3. FirstFresh'
  BY <1>1, <1>2 DEF StepInv, FirstFresh
<1>4. ReadyForNext'
  <2> SUFFICES ASSUME NEW p \in 1..(Len(sent) + 1), Clear(p)', Gone(p)', p \in Payloads => OnAir(p, 1)'
               PROVE  blob' = NoBlob
    BY <1>1, <1>2 DEF ReadyForNext
  <2>1. \/ Reset
        \/ UNCHANGED <<blob, lastSeq>> /\ (IsStatus(x) \/ Alone(x))
        \/ Starts(x) \/ Continues(x)
    BY ReceiveBlob
  <2>2. CASE IsExtra(x)
    <3>1. \A q \in Payloads : \A k \in Parts(q) : x # PacketOf(q, k)
      <4>1. \A q \in Payloads : \A k \in Parts(q) : PacketOf(q, k).data # <<>>
        BY <1>2, PartIs
      <4>2. QED
        BY <2>2, <4>1 DEF IsExtra
    <3>2. Gone(p)
      BY <1>2, <3>1 DEF Gone
    <3>3. p \in Payloads => OnAir(p, 1)
      BY <1>2, PartsOf
    <3>4. Clear(p)
      BY <1>1 DEF Clear
    <3>5. blob = NoBlob
      BY <3>2, <3>3, <3>4 DEF StepInv, ReadyForNext
    <3>6. QED
      BY <2>1, <2>2, <3>5 DEF IsExtra, Reset, Starts, Continues
  <2>3. CASE ~IsExtra(x)
    <3> DEFINE q == p - 1
               n == sent[q]
               l == Pieces(n)
               y == PacketOf(q, l)
    <3>1. q \in Payloads /\ x = y
      BY <1>1, <2>3, LastOfPrevious
    <3>2. l \in Parts(q)
      BY <1>2, <3>1, PartsOf
    <3>3. y.type = (CASE Pieces(n) = 1 -> "Single"
                      [] Pieces(n) # 1 /\ l = 1 -> "BlobStart"
                      [] Pieces(n) # 1 /\ l # 1 /\ l = Pieces(n) -> "BlobComplete"
                      [] OTHER -> "BlobStream")
      BY <1>2, <3>1, <3>2, PartIs
    <3>x. x = y
      BY <3>1
    <3> HIDE DEF y, n, x, q
    <3>4. y.type \in {"Single", "BlobComplete"}
      BY <3>3
    <3>5. QED
      BY <2>1, <3>x, <3>4 DEF IsStatus, Alone, Starts, Continues, Reset
  <2>4. QED
    BY <2>2, <2>3
<1>5. QED
  BY <1>3, <1>4

(* The first packet of a clear payload arrives. *)
LEMMA FirstArrives ==
  ASSUME AirInv, StepInv, Receive, NEW p \in Payloads, Clear(p), Head(air) = PacketOf(p, 1), OnAir(p, 1),
         \A r \in Payloads : \A m \in Parts(r) : OnAir(r, m) => (r = p /\ m = 1) \/ Before(p, 1, r, m)
  PROVE  \/ Whole(p) \in delivered'
         \/ 1 \in 1..(Pieces(sent[p]) - 1) /\ InProgress(p, 1)'
<1> DEFINE x == Head(air)
           n == sent[p]
           e == LastByte(n, 1)
<1>1. /\ air # <<>> /\ air' = Tail(air) /\ UNCHANGED sent
  BY DEF Receive
<1>2. /\ sent \in Seq(Lengths)
      /\ \A q \in Payloads : \A k \in Parts(q) : OnAir(q, k)' <=> OnAir(q, k) /\ x # PacketOf(q, k)
  BY <1>1, HeadGoes
<1>3. /\ p \in Nat \ {0} /\ n \in Nat \ {0} /\ Pieces(n) \in Nat \ {0} /\ 1 \in Parts(p)
      /\ p \in 1..(Len(sent) + 1)
  BY <1>2, PartsOf, SentLengths DEF Payloads
<1>4. Gone(p)
  <2> SUFFICES ASSUME NEW q \in Payloads, NEW k \in Parts(q), q < p, OnAir(q, k) PROVE FALSE
    BY DEF Gone
  <2>1. q \in Nat
    BY <1>2, PartsOf
  <2>2. (q = p /\ k = 1) \/ Before(p, 1, q, k)
    OBVIOUS
  <2>3. QED
    BY <1>3, <2>1, <2>2 DEF Before
<1>5. blob = NoBlob
  BY <1>3, <1>4 DEF StepInv, ReadyForNext
<1>6. /\ e \in Nat /\ e <= n /\ x.data = Bytes(p, 1, e) /\ Len(x.data) = e
      /\ Pieces(n) = 1 => x.type = "Single"
      /\ Pieces(n) # 1 => x.type = "BlobStart" /\ x.length = n /\ x.seq = 1 % SeqValues
  <2> DEFINE y == PacketOf(p, 1)
  <2>1. /\ e \in Nat /\ e <= n
        /\ y.data = Bytes(p, FirstByte(n, 1), e) /\ Len(y.data) = e - FirstByte(n, 1) + 1
        /\ Pieces(n) # 1 => y.seq = 1 % SeqValues
    BY <1>2, <1>3, PartIs
  <2>2. y.type = (CASE Pieces(n) = 1 -> "Single"
                    [] Pieces(n) # 1 /\ 1 = 1 -> "BlobStart"
                    [] Pieces(n) # 1 /\ 1 # 1 /\ 1 = Pieces(n) -> "BlobComplete"
                    [] OTHER -> "BlobStream")
    BY <1>2, <1>3, PartIs
  <2>3. Pieces(n) # 1 => y.length = n
    BY <1>2, <1>3, PartIs
  <2>4. FirstByte(n, 1) = 1 /\ x = y
    BY DEF FirstByte
  <2> HIDE DEF x, y, n, e
  <2>5. QED
    BY <2>1, <2>2, <2>3, <2>4
<1>7. CASE Pieces(n) = 1
  <2>1. Alone(x)
    BY <1>5, <1>6, <1>7 DEF Alone
  <2>2. x.data \in delivered'
    BY <1>6, <1>7, <2>1 DEF Receive, Refuse, Refused, IsStatus, Starts, Continues, Complete, Completes
  <2>3. e = n
    BY <1>7 DEF LastByte
  <2>4. QED
    BY <1>6, <2>2, <2>3 DEF Whole
<1>8. CASE Pieces(n) # 1
  <2>1. Starts(x)
    BY <1>5, <1>6, <1>8 DEF Starts
  <2>2. blob' = [length |-> x.length, data |-> x.data] /\ lastSeq' = x.seq
    BY <1>6, <1>8, <2>1 DEF Receive, Refuse, Refused, IsStatus, Alone, Continues, Complete, Completes
  <2>3. 1 \in 1..(Pieces(n) - 1) /\ 1 + 1 \in Parts(p)
    BY <1>3, <1>8 DEF Parts
  <2>4. OnAir(p, 1 + 1)
    <3>1. Before(p, 1, p, 1 + 1)
      BY DEF Before
    <3>2. QED
      BY <1>3, <2>3, <3>1 DEF AirInv, AirIsSuffix
  <2>5. x # PacketOf(p, 1 + 1)
    <3>1. PacketOf(p, 1) = PacketOf(p, 1 + 1) => 1 = 1 + 1
      BY <1>2, <1>3, <2>3, OneNumber
    <3>2. QED
      BY <3>1
  <2>6. OnAir(p, 1 + 1)' /\ ~OnAir(p, 1)'
    BY <1>2, <1>3, <2>3, <2>4, <2>5
  <2>7. blob' = [length |-> n, data |-> Bytes(p, 1, e)] /\ lastSeq' = 1 % SeqValues /\ sent' = sent
    BY <1>1, <1>6, <1>8, <2>2
  <2>8. InProgress(p, 1)'
    BY <2>6, <2>7 DEF InProgress
  <2>9. QED
    BY <2>3, <2>8
<1>9. QED
  BY <1>7, <1>8

(* The next packet of a payload in progress arrives. *)
LEMMA NextArrives ==
  ASSUME AirInv, Receive, NEW p \in Payloads, NEW k \in 1..(Pieces(sent[p]) - 1), InProgress(p, k),
         Head(air) = PacketOf(p, k + 1)
  PROVE  \/ Whole(p) \in delivered'
         \/ k + 1 \in 1..(Pieces(sent[p]) - 1) /\ InProgress(p, k + 1)'
<1> DEFINE x == Head(air)
           n == sent[p]
           b == LastByte(n, k)
           e == LastByte(n, k + 1)
<1>1. /\ air # <<>> /\ air' = Tail(air) /\ UNCHANGED sent
  BY DEF Receive
<1>2. /\ sent \in Seq(Lengths)
      /\ \A q \in Payloads : \A l \in Parts(q) : OnAir(q, l)' <=> OnAir(q, l) /\ x # PacketOf(q, l)
  BY <1>1, HeadGoes
<1>3. /\ p \in Nat \ {0} /\ n \in Nat \ {0} /\ Pieces(n) \in Nat \ {0} /\ k \in Parts(p) /\ k + 1 \in Parts(p)
      /\ \A l \in 1..k : l \in Parts(p)
  BY <1>2, PartsOf
<1>4. k \in Nat \ {0} /\ k + 1 <= Pieces(n) /\ k < Pieces(n)
  BY <1>3
<1>b. /\ b \in Nat \ {0} /\ FirstByte(n, k + 1) = b + 1
  <2>1. /\ FirstByte(n, k) \in Nat \ {0} /\ b \in Nat /\ FirstByte(n, k) <= b
        /\ FirstByte(n, k + 1) = b + 1
    BY <1>2, <1>3, <1>4, PartIs
  <2> HIDE DEF b
  <2>2. QED
    BY <2>1
<1>5. /\ e \in Nat /\ b + 1 <= e /\ e <= n /\ x.data = Bytes(p, b + 1, e)
      /\ k + 1 = Pieces(n) => x.type = "BlobComplete"
      /\ k + 1 < Pieces(n) => x.type = "BlobStream" /\ e < n
      /\ x.seq = (k + 1) % SeqValues
  <2> DEFINE m == k + 1
             y == PacketOf(p, m)
  <2>1. /\ e \in Nat /\ FirstByte(n, m) <= e /\ e <= n
        /\ y.data = Bytes(p, FirstByte(n, m), e)
        /\ Pieces(n) # 1 => y.seq = m % SeqValues
        /\ m < Pieces(n) => e < n
    BY <1>2, <1>3, PartIs
  <2>2. y.type = (CASE Pieces(n) = 1 -> "Single"
                    [] Pieces(n) # 1 /\ m = 1 -> "BlobStart"
                    [] Pieces(n) # 1 /\ m # 1 /\ m = Pieces(n) -> "BlobComplete"
                    [] OTHER -> "BlobStream")
    BY <1>2, <1>3, PartIs
  <2>3. Pieces(n) # 1 /\ m # 1 /\ x = y /\ FirstByte(n, m) = b + 1 /\ Pieces(n) \in Nat /\ m \in Nat
    BY <1>3, <1>4, <1>b
  <2>4. QED
    <3> HIDE DEF x, y, n, e, b
    <3>1. /\ m = Pieces(n) => y.type = "BlobComplete"
          /\ m < Pieces(n) => y.type = "BlobStream"
      <4> HIDE DEF m
      <4>1. QED
        BY <2>2, <2>3
    <3>2. QED
      BY <2>1, <2>3, <3>1
<1>6. NextInBlob(x)
  <2>1. blob # NoBlob
    BY OpenIsNoBlob DEF InProgress
  <2>2. ((k % SeqValues) + 1) % SeqValues = (k + 1) % SeqValues
    BY <1>4, WrapSteps
  <2>3. (lastSeq + 1) % SeqValues = (k + 1) % SeqValues
    BY <2>2 DEF InProgress
  <2>4. QED
    BY <1>5, <2>1, <2>3 DEF NextInBlob
<1>7. blob.length = n /\ Grown(x) = Bytes(p, 1, e) /\ Len(Grown(x)) = e
  <2>1. blob.length = n /\ blob.data = Bytes(p, 1, b)
    BY DEF InProgress
  <2>2. Grown(x) = Bytes(p, 1, b) \o Bytes(p, b + 1, e)
    BY <1>5, <2>1 DEF Grown
  <2> HIDE DEF b, e, n, x
  <2>3. e - b \in Nat \ {0} /\ b + (e - b) = e
    BY <1>b, <1>5
  <2>4. Bytes(p, 1, b) \o Bytes(p, b + 1, e) = Bytes(p, 1, e)
    <3>1. PICK m \in Nat \ {0} : e = b + m
      BY <2>3
    <3>2. p \in Nat /\ b \in Nat \ {0}
      BY <1>3, <1>b
    <3>3. Bytes(p, 1, b) \o Bytes(p, b + 1, b + m) = Bytes(p, 1, b + m)
      BY <3>2, BytesJoin
    <3>4. QED
      BY <3>1, <3>3
  <2>5. Len(Bytes(p, 1, e)) = e
    <3>1. e \in Nat \ {0} /\ p \in Nat
      BY <1>3, <1>b, <1>5
    <3>2. QED
      BY <3>1, BytesLen
  <2>6. QED
    BY <2>1, <2>2, <2>3, <2>4, <2>5
<1>8. CASE k + 1 = Pieces(n)
  <2>1. e = n
    BY <1>8 DEF LastByte
  <2>2. Completes(x)
    BY <1>5, <1>6, <1>7, <1>8, <2>1 DEF Completes
  <2>3. Grown(x) \in delivered'
    BY <1>5, <1>8, <2>2 DEF Receive, Refuse, Refused, IsStatus, Starts, Alone, Continues, Complete
  <2>4. QED
    BY <1>7, <2>1, <2>3 DEF Whole
<1>9. CASE k + 1 < Pieces(n)
  <2>1. Continues(x)
    BY <1>5, <1>6, <1>7, <1>9 DEF Continues
  <2>2. blob' = [blob EXCEPT !.data = Grown(x)] /\ lastSeq' = x.seq
    BY <1>5, <1>9, <2>1 DEF Receive, Refuse, Refused, IsStatus, Starts, Alone, Complete, Completes
  <2>3. blob' = [length |-> n, data |-> Bytes(p, 1, e)]
    <3>1. blob = [length |-> n, data |-> Bytes(p, 1, b)]
      BY DEF InProgress
    <3> HIDE DEF x, n, b, e
    <3>2. QED
      BY <1>7, <2>2, <3>1
  <2>4. k + 1 \in 1..(Pieces(n) - 1) /\ (k + 1) + 1 \in Parts(p)
    BY <1>3, <1>4, <1>9 DEF Parts
  <2>5. OnAir(p, (k + 1) + 1)
    <3>1. Before(p, k + 1, p, (k + 1) + 1)
      BY <1>4 DEF Before
    <3>2. QED
      BY <1>3, <2>4, <3>1 DEF AirInv, AirIsSuffix, InProgress
  <2>6. x # PacketOf(p, (k + 1) + 1)
    <3>1. PacketOf(p, k + 1) = PacketOf(p, (k + 1) + 1) => k + 1 = (k + 1) + 1
      BY <1>2, <1>3, <2>4, OneNumber
    <3>2. QED
      BY <1>4, <3>1
  <2>7. OnAir(p, (k + 1) + 1)' /\ \A l \in 1..(k + 1) : ~OnAir(p, l)'
    <3>1. \A l \in 1..(k + 1) : l \in 1..k \/ l = k + 1
      BY <1>4
    <3>2. QED
      BY <1>2, <1>3, <2>4, <2>5, <2>6, <3>1 DEF InProgress
  <2>8. InProgress(p, k + 1)'
    BY <1>1, <1>5, <2>2, <2>3, <2>7 DEF InProgress
  <2>9. QED
    BY <2>4, <2>8
<1>10. QED
  BY <1>3, <1>4, <1>8, <1>9

LEMMA ReceiveInStep ==
  ASSUME AirInv, StepInv, Receive
  PROVE  InStep'
<1> DEFINE x == Head(air)
<1>1. /\ air # <<>> /\ air' = Tail(air) /\ UNCHANGED <<sent, first>> /\ hurt \subseteq hurt'
      /\ delivered \subseteq delivered'
  BY DEF Receive, Refuse, Complete, streamVars
<1>2. /\ sent \in Seq(Lengths) /\ Payloads' = Payloads
      /\ \A p : Parts(p)' = Parts(p) /\ Whole(p)' = Whole(p)
      /\ \A p \in Payloads : \A k \in Parts(p) : OnAir(p, k)' <=> OnAir(p, k) /\ x # PacketOf(p, k)
  BY <1>1, HeadGoes
<1>3. \/ IsExtra(x)
      \/ \E q \in Payloads : \E l \in Parts(q) :
           /\ x = PacketOf(q, l) /\ OnAir(q, l)
           /\ \A r \in Payloads : \A m \in Parts(r) :
                OnAir(r, m) => (r = q /\ m = l) \/ Before(q, l, r, m)
  BY <1>1, AirHead
<1> HIDE DEF x
<1> SUFFICES ASSUME NEW p \in Payloads, p \notin hurt', Clear(p)'
             PROVE  \/ Whole(p) \in delivered' \/ OnAir(p, 1)'
                    \/ \E k \in 1..(Pieces(sent[p]) - 1) : InProgress(p, k)'
  BY <1>1, <1>2 DEF InStep
<1>4. p \notin hurt /\ Clear(p)
  BY <1>1 DEF Clear
<1>5. /\ p \in Nat \ {0} /\ 1 \in Parts(p) /\ Pieces(sent[p]) \in Nat \ {0}
      /\ \A k \in 1..(Pieces(sent[p]) - 1) : k + 1 \in Parts(p) /\ \A l \in 1..k : l \in Parts(p)
  BY <1>2, PartsOf
<1>6. CASE Whole(p) \in delivered
  BY <1>1, <1>6
<1>7. CASE OnAir(p, 1)
  <2>1. CASE x # PacketOf(p, 1)
    BY <1>2, <1>5, <1>7, <2>1
  <2>2. CASE x = PacketOf(p, 1)
    <3>1. ~IsExtra(x)
      BY <1>2, <1>5, <2>2, PartIs DEF IsExtra
    <3>2. PICK q \in Payloads : \E l \in Parts(q) :
             /\ x = PacketOf(q, l) /\ OnAir(q, l)
             /\ \A r \in Payloads : \A m \in Parts(r) :
                  OnAir(r, m) => (r = q /\ m = l) \/ Before(q, l, r, m)
      BY <1>3, <3>1
    <3>3. PICK l \in Parts(q) :
             /\ x = PacketOf(q, l) /\ OnAir(q, l)
             /\ \A r \in Payloads : \A m \in Parts(r) :
                  OnAir(r, m) => (r = q /\ m = l) \/ Before(q, l, r, m)
      BY <3>2
    <3>4. q = p /\ l = 1
      BY <1>2, <1>5, <2>2, <3>3, OneNumber
    <3>5. \A r \in Payloads : \A m \in Parts(r) : OnAir(r, m) => (r = p /\ m = 1) \/ Before(p, 1, r, m)
      BY <3>3, <3>4
    <3>6. QED
      BY <1>4, <1>7, <2>2, <3>5, FirstArrives DEF x
  <2>3. QED
    BY <2>1, <2>2
<1>8. ASSUME NEW k \in 1..(Pieces(sent[p]) - 1), InProgress(p, k)
      PROVE  \/ Whole(p) \in delivered'
             \/ \E j \in 1..(Pieces(sent[p]) - 1) : InProgress(p, j)'
  <2>0. k + 1 \in Parts(p) /\ k \in Nat \ {0} /\ 1 \in 1..k /\ \A l \in 1..k : l \in Parts(p) /\ ~OnAir(p, l)
    BY <1>5, <1>8 DEF InProgress
  <2>1. CASE IsExtra(x)
    <3>1. CASE x.type = "Unknown"
      <4>1. Refuse(x)
        BY <3>1 DEF Receive, x, IsStatus, Alone, Starts, Continues, Complete, Completes
      <4>2. blob # NoBlob /\ blob.data = Bytes(p, 1, LastByte(sent[p], k))
        BY <1>8, OpenIsNoBlob DEF InProgress
      <4>3. hurt' = hurt \cup Owners(blob.data)
        BY <3>1, <4>1, <4>2 DEF Refuse
      <4>4. Owners(blob.data) = {p}
        <5> DEFINE e == LastByte(sent[p], k)
        <5>1. FirstByte(sent[p], k) \in Nat \ {0} /\ e \in Nat /\ FirstByte(sent[p], k) <= e
          <6>1. k \in Parts(p)
            BY <2>0
          <6>2. QED
            BY <1>2, <6>1, PartIs
        <5> HIDE DEF e
        <5>2. e \in Nat \ {0} /\ p \in Nat
          BY <1>5, <5>1
        <5>3. Owners(Bytes(p, 1, e)) = {p}
          BY <5>2, BytesLen
        <5>4. QED
          BY <4>2, <5>3 DEF e
      <4>5. QED
        BY <4>3, <4>4
    <3>2. CASE x.type = "Status"
      <4>1. UNCHANGED <<blob, lastSeq>>
        BY <3>2 DEF Receive, x, Refuse, Refused, IsStatus, Alone, Starts, Continues, Complete, Completes, streamVars
      <4>2. x # PacketOf(p, k + 1)
        BY <1>2, <2>0, <2>1, PartIs DEF IsExtra
      <4>3. OnAir(p, k + 1)' /\ \A l \in 1..k : OnAir(p, l)' => OnAir(p, l)
        BY <1>2, <1>8, <2>0, <4>2 DEF InProgress
      <4>4. InProgress(p, k)'
        BY <1>1, <1>8, <4>1, <4>3, StillInProgress
      <4>5. QED
        BY <4>4
    <3>3. QED
      BY <2>1, <3>1, <3>2 DEF IsExtra
  <2>2. ASSUME NEW q \in Payloads, NEW l \in Parts(q), x = PacketOf(q, l), OnAir(q, l),
               \A r \in Payloads : \A m \in Parts(r) : OnAir(r, m) => (r = q /\ m = l) \/ Before(q, l, r, m)
        PROVE  x = PacketOf(p, k + 1)
    <3>1. (p = q /\ k + 1 = l) \/ Before(q, l, p, k + 1)
      BY <1>8, <2>0, <2>2 DEF InProgress
    <3>2. q \in Nat /\ l \in Nat \ {0}
      BY <1>2, PartIs
    <3>3. CASE q < p
      <4>1. OnAir(p, 1)
        BY <1>5, <2>2, <3>3 DEF AirInv, AirIsSuffix, Before
      <4>2. QED
        BY <2>0, <4>1
    <3>4. CASE q = p /\ l < k + 1
      <4>1. l \in 1..k
        BY <2>0, <3>2, <3>4
      <4>2. QED
        BY <2>0, <2>2, <3>4, <4>1
    <3>5. QED
      BY <2>2, <3>1, <3>3, <3>4 DEF Before
  <2>3. CASE x = PacketOf(p, k + 1)
    <3>1. \/ Whole(p) \in delivered'
          \/ k + 1 \in 1..(Pieces(sent[p]) - 1) /\ InProgress(p, k + 1)'
      BY <1>8, <2>3, NextArrives DEF x
    <3>2. QED
      BY <3>1
  <2>4. QED
    BY <1>3, <2>1, <2>2, <2>3
<1>9. QED
  BY <1>4, <1>6, <1>7, <1>8 DEF StepInv, InStep

LEMMA LoseStep ==
  ASSUME AirInv, StepInv, Lose
  PROVE  StepInv'
<1> DEFINE x == Head(air)
<1>1. /\ air # <<>> /\ air' = Tail(air) /\ UNCHANGED <<sent, first, blob, lastSeq, delivered>>
      /\ hurt' = hurt \cup Owners(x.data)
  BY DEF Lose, streamVars
<1>2. /\ sent \in Seq(Lengths) /\ Payloads' = Payloads
      /\ \A p : Parts(p)' = Parts(p) /\ Whole(p)' = Whole(p)
      /\ \A p : Gone(p) => Gone(p)'
      /\ \A p \in Payloads : \A k \in Parts(p) : OnAir(p, k)' <=> OnAir(p, k) /\ x # PacketOf(p, k)
  BY <1>1, HeadGoes
<1>3. \A p : Clear(p)' => Clear(p)
  BY <1>1 DEF Clear
<1>4. FirstFresh'
  BY <1>1, <1>2 DEF StepInv, FirstFresh
<1>5. ReadyForNext'
  <2> SUFFICES ASSUME NEW p \in 1..(Len(sent) + 1), Clear(p)', Gone(p)', p \in Payloads => OnAir(p, 1)'
               PROVE  blob' = NoBlob
    BY <1>1, <1>2 DEF ReadyForNext
  <2>1. CASE IsExtra(x)
    <3>1. \A q \in Payloads : \A k \in Parts(q) : x # PacketOf(q, k)
      <4>1. \A q \in Payloads : \A k \in Parts(q) : PacketOf(q, k).data # <<>>
        BY <1>2, PartIs
      <4>2. QED
        BY <2>1, <4>1 DEF IsExtra
    <3>2. Gone(p)
      BY <1>2, <3>1 DEF Gone
    <3>3. p \in Payloads => OnAir(p, 1)
      BY <1>2, PartsOf
    <3>4. QED
      BY <1>1, <1>3, <3>2, <3>3 DEF StepInv, ReadyForNext
  <2>2. CASE ~IsExtra(x)
    <3> DEFINE q == p - 1
               l == Pieces(sent[q])
    <3>1. q \in Payloads /\ OnAir(q, l) /\ x = PacketOf(q, l)
      BY <1>1, <2>2, LastOfPrevious
    <3>2. l \in Parts(q)
      BY <1>2, <3>1, PartsOf
    <3>3. Owners(x.data) = {q}
      BY <1>2, <3>1, <3>2, PartIs
    <3>4. p \in first
      BY <1>1, <3>3 DEF Clear
    <3>5. q < p
      OBVIOUS
    <3>6. FALSE
      BY <3>1, <3>2, <3>4, <3>5 DEF StepInv, FirstFresh, Gone
    <3>7. QED
      BY <3>6
  <2>3. QED
    BY <2>1, <2>2
<1>6. InStep'
  <2> SUFFICES ASSUME NEW p \in Payloads, p \notin hurt', Clear(p)'
               PROVE  \/ Whole(p) \in delivered \/ OnAir(p, 1)'
                      \/ \E k \in 1..(Pieces(sent[p]) - 1) : InProgress(p, k)'
    BY <1>1, <1>2 DEF InStep
  <2>1. \A k \in Parts(p) : x # PacketOf(p, k)
    <3> SUFFICES ASSUME NEW k \in Parts(p), x = PacketOf(p, k) PROVE FALSE
      OBVIOUS
    <3>1. Owners(x.data) = {p}
      BY <1>2, PartIs
    <3>2. QED
      BY <1>1, <3>1
  <2> HIDE DEF x
  <2>2. \A k \in Parts(p) : OnAir(p, k)' <=> OnAir(p, k)
    BY <1>2, <2>1
  <2>3. /\ 1 \in Parts(p)
        /\ \A k \in 1..(Pieces(sent[p]) - 1) : k + 1 \in Parts(p) /\ \A l \in 1..k : l \in Parts(p)
    BY <1>2, PartsOf
  <2>4. ASSUME NEW k \in 1..(Pieces(sent[p]) - 1), InProgress(p, k) PROVE InProgress(p, k)'
    <3>1. OnAir(p, k + 1)' /\ \A l \in 1..k : OnAir(p, l)' => OnAir(p, l)
      BY <2>2, <2>3, <2>4 DEF InProgress
    <3>2. QED
      BY <1>1, <2>4, <3>1, StillInProgress
  <2>5. p \notin hurt /\ Clear(p)
    BY <1>1, <1>3
  <2>6. QED
    BY <2>2, <2>3, <2>4, <2>5 DEF StepInv, InStep
<1>7. QED
  BY <1>4, <1>5, <1>6 DEF StepInv

(* A packet on its way is in some position, and names its payload there. *)
LEMMA OnAirOwned ==
  ASSUME AirInv, NEW p \in Payloads, NEW k \in Parts(p), OnAir(p, k)
  PROVE  \E i \in DOMAIN air : p \in Owners(air[i].data)
<1>1. sent \in Seq(Lengths) /\ DOMAIN air = 1..Len(air)
  BY LenProperties DEF AirInv, TypeOK
<1>2. Owners(PacketOf(p, k).data) = {p}
  BY <1>1, PartIs
<1>3. QED
  BY <1>1, <1>2 DEF OnAir

LEMMA ReconnectStep ==
  ASSUME AirInv, StepInv, Reconnect
  PROVE  StepInv'
<1>1. /\ blob' = NoBlob /\ air' = <<>> /\ UNCHANGED <<sent, delivered>>
      /\ hurt' = hurt \cup UNION {Owners(air[i].data) : i \in DOMAIN air}
      /\ first' = first \cup {Len(sent) + 1}
  BY DEF Reconnect, Reset
<1>2. \A p, k : ~OnAir(p, k)'
  BY <1>1, AirCleared
<1>3. FirstFresh' /\ ReadyForNext'
  BY <1>1, <1>2 DEF FirstFresh, Gone, ReadyForNext
<1>4. InStep'
  <2>0. sent \in Seq(Lengths) /\ Payloads' = Payloads
    BY <1>1 DEF AirInv, TypeOK, Payloads
  <2> SUFFICES ASSUME NEW p \in Payloads, p \notin hurt', Clear(p)' PROVE Whole(p) \in delivered
    BY <1>1, <2>0 DEF InStep, Whole
  <2>1. /\ 1 \in Parts(p) /\ p \in Nat
        /\ \A k \in 1..(Pieces(sent[p]) - 1) : k + 1 \in Parts(p)
    BY <2>0, PartsOf
  <2>2. \A k \in Parts(p) : ~OnAir(p, k)
    <3>1. \A k \in Parts(p) : OnAir(p, k) => \E i \in DOMAIN air : p \in Owners(air[i].data)
      BY OnAirOwned
    <3>2. ~\E i \in DOMAIN air : p \in Owners(air[i].data)
      BY <1>1
    <3>3. QED
      BY <3>1, <3>2
  <2>3. p \notin hurt /\ Clear(p)
    <3>1. p # Len(sent) + 1
      BY <2>0, SentLengths DEF Payloads
    <3>2. QED
      BY <1>1, <3>1 DEF Clear
  <2>4. QED
    BY <2>1, <2>2, <2>3 DEF StepInv, InStep, InProgress
<1>5. QED
  BY <1>3, <1>4 DEF StepInv

LEMMA SendStep ==
  ASSUME AirInv, StepInv, NEW n \in Lengths, Send(n)
  PROVE  StepInv'
<1>c. PICK c : c = Len(sent) + 1
  OBVIOUS
<1>1. /\ Len(sent) \in Nat /\ c \in Nat \ {0} /\ n \in Nat \ {0} /\ c \notin Payloads
      /\ Len(sent') = c /\ Payloads' = Payloads \cup {c} /\ sent'[c] = n
      /\ \A p \in Payloads : sent'[p] = sent[p]
      /\ \A p \in Payloads : \A k : PacketOf(p, k)' = PacketOf(p, k) /\ Parts(p)' = Parts(p)
      /\ \A p \in Payloads : \A k \in Parts(p) : OnAir(p, k)' <=> OnAir(p, k)
      /\ \A k \in Parts(c)' : OnAir(c, k)'
  BY <1>c, AirExtended
<1>2. UNCHANGED <<blob, lastSeq, delivered, hurt, first>> /\ sent \in Seq(Lengths)
  BY DEF Send, streamVars, ghostVars, AirInv, TypeOK
<1>3. 1 \in Parts(c)' /\ OnAir(c, 1)'
  BY <1>1, Cuts DEF Parts
<1>4. \A p \in 1..c : Gone(p)' <=> Gone(p)
  <2>1. ASSUME NEW p \in 1..c, NEW q \in Payloads', q < p PROVE q \in Payloads
    BY <1>1, <2>1
  <2>2. QED
    BY <1>1, <2>1 DEF Gone
<1>5. \A p : Clear(p)' <=> Clear(p)
  BY <1>2 DEF Clear
<1>6. FirstFresh'
  <2>1. first \subseteq 1..c
    BY <1>c DEF AirInv, TypeOK
  <2>2. QED
    BY <1>2, <1>4, <2>1 DEF StepInv, FirstFresh
<1>7. ReadyForNext'
  <2> SUFFICES ASSUME NEW p \in 1..(c + 1), Clear(p)', Gone(p)', p \in Payloads' => OnAir(p, 1)'
               PROVE  blob = NoBlob
    BY <1>1, <1>2 DEF ReadyForNext
  <2>1. p # c + 1
    <3>1. c < c + 1 /\ c \in Payloads'
      BY <1>1
    <3>2. QED
      BY <1>3, <3>1 DEF Gone
  <2>2. p \in 1..c
    BY <1>1, <2>1
  <2>3. p \in Payloads => OnAir(p, 1)
    BY <1>1, <1>2, PartsOf
  <2>4. QED
    BY <1>c, <1>4, <1>5, <2>2, <2>3 DEF StepInv, ReadyForNext
<1>8. InStep'
  <2> SUFFICES ASSUME NEW p \in Payloads', p \notin hurt, Clear(p)'
               PROVE  \/ Whole(p)' \in delivered \/ OnAir(p, 1)'
                      \/ \E k \in 1..(Pieces(sent'[p]) - 1) : InProgress(p, k)'
    BY <1>2 DEF InStep
  <2>1. CASE p = c
    BY <1>3, <2>1
  <2>2. CASE p \in Payloads
    <3>1. sent'[p] = sent[p] /\ Whole(p)' = Whole(p)
      BY <1>1, <2>2 DEF Whole
    <3>2. /\ 1 \in Parts(p)
          /\ \A k \in 1..(Pieces(sent[p]) - 1) : k + 1 \in Parts(p) /\ \A l \in 1..k : l \in Parts(p)
      BY <1>2, <2>2, PartsOf
    <3>3. ASSUME NEW k \in 1..(Pieces(sent[p]) - 1), InProgress(p, k) PROVE InProgress(p, k)'
      <4>1. OnAir(p, k + 1)' /\ \A l \in 1..k : OnAir(p, l)' => OnAir(p, l)
        BY <1>1, <2>2, <3>2, <3>3 DEF InProgress
      <4>2. QED
        BY <1>2, <2>2, <3>1, <3>3, <4>1, StillInProgress
    <3>4. \/ Whole(p) \in delivered \/ OnAir(p, 1)
          \/ \E k \in 1..(Pieces(sent[p]) - 1) : InProgress(p, k)
      BY <1>5, <2>2 DEF StepInv, InStep
    <3>5. OnAir(p, 1) => OnAir(p, 1)'
      BY <1>1, <2>2, <3>2
    <3>6. QED
      BY <3>1, <3>3, <3>4, <3>5
  <2>3. QED
    BY <1>1, <2>1, <2>2
<1>9. QED
  BY <1>6, <1>7, <1>8 DEF StepInv

LEMMA NextStepInv == AirInv /\ StepInv /\ [Next]_vars => StepInv'
<1> SUFFICES ASSUME AirInv, StepInv, [Next]_vars PROVE StepInv'
  OBVIOUS
<1>1. CASE Receive
  BY <1>1, ReceiveReady, ReceiveInStep DEF StepInv
<1>2. CASE Lose
  BY <1>2, LoseStep
<1>3. CASE Reconnect
  BY <1>3, ReconnectStep
<1>4. ASSUME NEW n \in Lengths, Send(n) PROVE StepInv'
  BY <1>4, SendStep
<1>5. ASSUME NEW type \in {"Status", "Unknown"}, SendExtra(type) PROVE StepInv'
  <2> DEFINE e == Packet(type, 1, 0, <<>>)
  <2>1. PICK i \in 1..(Len(air) + 1) : air' = InsertAt(air, i, e)
    BY <1>5 DEF SendExtra
  <2>2. UNCHANGED <<blob, lastSeq, delivered, hurt, first, sent>>
    BY <1>5 DEF SendExtra, streamVars, ghostVars
  <2>3. e \in Shapes /\ IsExtra(e)
    BY ExtraIs
  <2> HIDE DEF e
  <2>4. \A p \in Payloads : \A k \in Parts(p) : OnAir(p, k)' <=> OnAir(p, k)
    BY <2>1, <2>2, <2>3, AirInserted
  <2>5. QED
    BY <2>2, <2>4, QuietStep
<1>6. CASE UNCHANGED vars
  <2>1. UNCHANGED <<air, blob, lastSeq, delivered, hurt, first, sent>>
    BY <1>6 DEF vars, streamVars, ghostVars
  <2>2. \A p, k : OnAir(p, k)' <=> OnAir(p, k)
    BY <2>1 DEF OnAir, PacketOf
  <2>3. QED
    BY <2>1, <2>2, QuietStep
<1>7. QED
  BY <1>1, <1>2, <1>3, <1>4, <1>5, <1>6 DEF Next

LEMMA SpecStepInv == Spec => []StepInv
<1>1. Init => StepInv
  <2> SUFFICES ASSUME Init PROVE StepInv
    OBVIOUS
  <2>1. Payloads = {} /\ blob = NoBlob
    BY EmptySeq DEF Init, Payloads
  <2>2. QED
    BY <2>1 DEF StepInv, FirstFresh, Gone, ReadyForNext, InStep
<1>2. QED
  BY <1>1, NextStepInv, SpecAirInv, PTL DEF Spec

(* A lost packet costs its own payload and at most the next: after a       *)
(* payload that arrived undisturbed, or first on a connection, the stream  *)
(* that nothing resets (PacketStream.receive) has no blob open when the    *)
(* next one's first packet arrives, and takes it all.                      *)
THEOREM StepsBack == Spec => []BackInStep
<1>1. AirInv /\ StepInv => BackInStep
  <2> SUFFICES ASSUME AirInv, StepInv, NEW p \in Payloads \ hurt, Clear(p)
               PROVE  Whole(p) \in delivered \/ \E i \in DOMAIN air : p \in Owners(air[i].data)
    BY DEF BackInStep, Clear
  <2>1. /\ 1 \in Parts(p) /\ \A k \in 1..(Pieces(sent[p]) - 1) : k + 1 \in Parts(p)
    BY PartsOf DEF AirInv, TypeOK
  <2>2. \/ Whole(p) \in delivered \/ OnAir(p, 1)
        \/ \E k \in 1..(Pieces(sent[p]) - 1) : OnAir(p, k + 1)
    BY DEF StepInv, InStep, InProgress
  <2>3. QED
    BY <2>1, <2>2, OnAirOwned
<1>2. QED
  BY <1>1, SpecAirInv, SpecStepInv, PTL
=============================================================================
