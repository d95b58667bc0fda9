----------------------------- MODULE RevoGetProofs -----------------------------
(* The boot loader's restore over TFTP, for every geometry, pool of buffers *)
(* and number of faults.                                                    *)
EXTENDS RevoGet, ImageFormatProofs, SequenceTheorems

Content == [file : Int, is : {"header", "sector", "end", "bad"}, data : Int]
UnitType == [unit : Content, k : Nat]
PacketType == [port : Ports, op : {"OACK", "DATA", "ERR"}, block : 0 .. WORD - 1, data : Seq(UnitType)]
RequestType == [port : Ports, op : {"RRQ", "ACK", "ERR"}, file : Int, block : 0 .. WORD - 1]
SessionType == [file : Int, block : -1 .. WORD]

\* The TFTP server and what is in flight.
NetType ==
  /\ image \in Volumes
  /\ toServer \subseteq RequestType /\ toClient \subseteq PacketType
  /\ \A m \in toServer : m.op = "RRQ" => m.file \in 0 .. Blocks(image) - 1
  /\ session \in [Ports -> SessionType]
  /\ \A p \in Ports : session[p] # NoSession =>
       /\ session[p].file \in 0 .. Blocks(image) - 1
       /\ session[p].block \in 0 .. Packets(session[p].file)
  /\ faults \in 0 .. MaxFaults

ClientType ==
  /\ file \in 0 .. Blocks(image) /\ files \in Misread \union 1 .. Blocks(image)
  /\ pc \notin {"done", "failed"} => file < Blocks(image)
  /\ pc \in {"restart", "turn", "key", "poll", "return", "done", "failed"}
  /\ tftpport \in Ports /\ lastblk \in -1 .. WORD - 1
  /\ tftpend \in BOOLEAN /\ end \in 0 .. 2 /\ full \in BOOLEAN
  /\ firstblock \in BOOLEAN /\ sum \in BOOLEAN
  /\ open \in BOOLEAN /\ told \in BOOLEAN /\ holed \in BOOLEAN /\ hurt \in BOOLEAN
  /\ tbuf \in Seq(UnitType) /\ compressed \in Seq(UnitType) /\ out \in Seq(UnitType)
  /\ Len(compressed) <= INBUFF /\ Len(out) <= TOTALLG
  /\ ~full => Len(out) < TOTALLG
  /\ seen \in Nat
  /\ DOMAIN disk = 0 .. DiskSize - 1

GetInv == ClientType /\ NetType

LEMMA ImageOK ==
  ASSUME image \in Volumes
  PROVE  VolumeType(image) /\ Blocks(image) \in Nat \ {0}
  <1>1. VolumeType(image)
    BY VolumeAssumption DEF VolumeType
  <1>2. QED
    BY <1>1, BlocksType

\* The format, unit by unit.
LEMMA StreamUnits ==
  ASSUME image \in Volumes, NEW f \in 0 .. Blocks(image) - 1
  PROVE  /\ Size(image, f) \in Nat
         /\ Len(Stream(image, f)) = Size(image, f) + 2
         /\ \A k \in 1 .. Size(image, f) + 2 :
              /\ Stream(image, f)[k] =
                   [file |-> f, is |-> Kind(image, f, k), data |-> DataOf(image, f, k)]
              /\ DataOf(image, f, k) \in Int
              /\ Stream(image, f)[k] \in Content
  <1> DEFINE n == Size(image, f)
             rec(k) == [file |-> f, is |-> Kind(image, f, k), data |-> DataOf(image, f, k)]
  <1>1. VolumeType(image) /\ Blocks(image) \in Nat /\ f \in Nat /\ f < Blocks(image)
    BY ImageOK
  <1>2. n \in Nat
    BY <1>1, RankEnds
  <1>3. Stream(image, f) = [k \in 1 .. n + 2 |-> rec(k)]
    BY DEF Stream, Kind, DataOf, Size
  <1>4. ASSUME NEW k \in 1 .. n + 2 PROVE DataOf(image, f, k) \in Int
    <2>1. CASE k \notin 2 .. n + 1
      BY <2>1 DEF DataOf
    <2>2. CASE k \in 2 .. n + 1
      <3>1. k - 2 \in Nat /\ k - 2 < Size(image, f)
        BY <1>2, <2>2
      <3>2. PICK s \in UsedIn(image, f) : Rank(image, f, s) = k - 2
        BY <1>1, <3>1, KthExists
      <3>3. Kth(UsedIn(image, f), Rank(image, f, s) + 1) = s /\ s \in Int
        BY <1>1, RankKth, UsedType
      <3>4. Rank(image, f, s) + 1 = k - 1
        BY <1>2, <2>2, <3>2
      <3>5. QED
        BY <2>2, <3>3, <3>4 DEF DataOf
    <2>3. QED
      BY <2>1, <2>2
  <1>5. ASSUME NEW k \in 1 .. n + 2 PROVE rec(k) \in Content
    <2>1. Kind(image, f, k) \in {"header", "sector", "end", "bad"}
      BY DEF Kind
    <2>2. QED
      BY <1>1, <1>4, <2>1 DEF Content
  <1>6. Len(Stream(image, f)) = n + 2
    <2> HIDE DEF rec, n
    <2>1. QED
      BY <1>2, <1>3
  <1>7. ASSUME NEW k \in 1 .. n + 2 PROVE Stream(image, f)[k] = rec(k)
    <2> HIDE DEF rec, n
    <2>1. QED
      BY <1>3
  <1>8. QED
    BY <1>2, <1>4, <1>5, <1>6, <1>7, Zenon

LEMMA MinTwo ==
  ASSUME NEW a \in Int, NEW b \in Int
  PROVE  Min({a, b}) = IF a <= b THEN a ELSE b
  BY DEF Min

\* The units of a packet: TFTPBLOCK of them, or those left.
LEMMA UnitsAre ==
  ASSUME image \in Volumes, NEW f \in 0 .. Blocks(image) - 1, NEW b \in 1 .. Packets(f)
  PROVE  /\ Packets(f) \in Nat
         /\ Units(f, b) \in Seq(UnitType)
         /\ (b - 1) * TFTPBLOCK \in Nat
         /\ Len(Units(f, b)) \in 0 .. TFTPBLOCK
         /\ (b - 1) * TFTPBLOCK + Len(Units(f, b)) <= Size(image, f) + 2
         /\ Len(Units(f, b)) = TFTPBLOCK \/ (b - 1) * TFTPBLOCK + Len(Units(f, b)) = Size(image, f) + 2
         /\ \A j \in 1 .. Len(Units(f, b)) :
              Units(f, b)[j] = [unit |-> Stream(image, f)[(b - 1) * TFTPBLOCK + j],
                                k |-> (b - 1) * TFTPBLOCK + j]
  <1> DEFINE n == Size(image, f) + 2
             first == (b - 1) * TFTPBLOCK
             m == Min({TFTPBLOCK, n - first})
             rec(j) == [unit |-> Stream(image, f)[first + j], k |-> first + j]
  <1>1. n \in Nat /\ Len(Stream(image, f)) = n
    BY StreamUnits
  <1>2. /\ n \div TFTPBLOCK \in Nat
        /\ (n \div TFTPBLOCK) * TFTPBLOCK <= n
    BY <1>1, DivBelow, GetAssumption
  <1>3. Packets(f) = n \div TFTPBLOCK + 1
    BY <1>1 DEF Packets
  <1>4. b - 1 \in Nat /\ b - 1 <= n \div TFTPBLOCK
    BY <1>2, <1>3
  <1>5. first \in Nat /\ first <= n
    <2>1. first \in Nat
      BY <1>4, GetAssumption
    <2>2. first <= (n \div TFTPBLOCK) * TFTPBLOCK
      BY <1>2, <1>4, MulMono, GetAssumption
    <2> HIDE DEF first, n
    <2>3. QED
      BY <1>1, <1>2, <2>1, <2>2, GetAssumption
  <1>6. Units(f, b) = [j \in 1 .. m |-> rec(j)]
    BY <1>1 DEF Units
  <1> HIDE DEF n, first
  <1>7. /\ m \in 0 .. TFTPBLOCK /\ first + m <= n /\ (m = TFTPBLOCK \/ first + m = n)
    BY <1>1, <1>5, MinTwo, GetAssumption
  <1> HIDE DEF m
  <1>8. ASSUME NEW j \in 1 .. m PROVE rec(j) \in UnitType
    <2>1. first + j \in 1 .. n /\ first + j \in Nat
      BY <1>1, <1>5, <1>7, GetAssumption
    <2>2. Stream(image, f)[first + j] \in Content
      BY <2>1, StreamUnits DEF n
    <2>3. QED
      BY <2>1, <2>2 DEF UnitType
  <1>9. m \in Nat
    BY <1>7, GetAssumption
  <1> DEFINE u == Units(f, b)
  <1>10. u \in Seq(UnitType) /\ Len(u) = m /\ \A j \in 1 .. m : u[j] = rec(j)
    <2> HIDE DEF rec
    <2>1. [j \in 1 .. m |-> rec(j)] \in Seq(UnitType)
      BY <1>8, <1>9
    <2>2. QED
      BY <1>6, <1>9, <2>1
  <1>11. Packets(f) \in Nat
    BY <1>2, <1>3
  <1> HIDE DEF u
  <1>12. /\ u \in Seq(UnitType) /\ first \in Nat
         /\ Len(u) \in 0 .. TFTPBLOCK /\ first + Len(u) <= n
         /\ Len(u) = TFTPBLOCK \/ first + Len(u) = n
         /\ \A j \in 1 .. Len(u) : u[j] = [unit |-> Stream(image, f)[first + j], k |-> first + j]
    BY <1>5, <1>7, <1>10
  <1>13. QED
    BY <1>11, <1>12, Zenon DEF u, first, n

LEMMA WordNat == WORD \in Nat /\ WORD > 1
  BY DEF WORD

LEMMA WordMod ==
  /\ \A b \in Nat : b % WORD \in 0 .. WORD - 1
  /\ \A b \in Nat : b < WORD => b % WORD = b
  /\ WORD % WORD = 0
  BY WordNat

LEMMA GetInit == Init => GetInv
  <1> SUFFICES ASSUME Init PROVE ClientType /\ NetType
    BY DEF GetInv
  <1>1. image \in Volumes /\ Blocks(image) \in Nat \ {0}
    BY ImageOK DEF Init
  <1>2. ClientType
    <2>1. <<>> \in Seq(UnitType) /\ Len(<<>>) = 0
      BY EmptySeq
    <2>2. PORTS - 2 \in Ports
      BY GetAssumption DEF Ports
    <2>3. DOMAIN disk = 0 .. DiskSize - 1
      BY DEF Init
    <2>4. /\ tftpend \in BOOLEAN /\ full \in BOOLEAN /\ firstblock \in BOOLEAN /\ sum \in BOOLEAN
          /\ open \in BOOLEAN /\ told \in BOOLEAN /\ holed \in BOOLEAN /\ hurt \in BOOLEAN
      BY DEF Init
    <2>5. /\ tbuf \in Seq(UnitType) /\ compressed \in Seq(UnitType) /\ out \in Seq(UnitType)
          /\ Len(compressed) = 0 /\ Len(out) = 0
      BY <2>1, Zenon DEF Init
    <2>6. /\ file \in 0 .. Blocks(image) /\ files \in Misread \union 1 .. Blocks(image)
          /\ file < Blocks(image)
          /\ lastblk \in -1 .. WORD - 1 /\ end \in 0 .. 2 /\ seen \in Nat
          /\ tftpport \in Ports /\ pc = "restart"
      BY <1>1, <2>2, WordNat DEF Init
    <2>7. 0 <= INBUFF /\ 0 <= TOTALLG /\ 0 < TOTALLG
      BY GetAssumption, FormatAssumption
    <2>8. QED
      BY <2>3, <2>4, <2>5, <2>6, <2>7, Zenon DEF ClientType
  <1>3. NetType
    <2>1. session \in [Ports -> SessionType] /\ \A p \in Ports : session[p] = NoSession
      BY WordNat DEF Init, SessionType, NoSession
    <2>2. QED
      BY <1>1, <2>1, GetAssumption DEF Init, NetType
  <1>4. QED
    BY <1>2, <1>3

\* The network and the server keep to their types when what is new does.
LEMMA NetStep ==
  ASSUME NetType, image' = image,
         toServer' \subseteq RequestType, toClient' \subseteq PacketType,
         \A m \in toServer' : m.op = "RRQ" => m.file \in 0 .. Blocks(image) - 1,
         session' \in [Ports -> SessionType],
         \A p \in Ports : session'[p] # NoSession =>
           \/ session'[p] = session[p]
           \/ /\ session'[p].file \in 0 .. Blocks(image) - 1
              /\ session'[p].block \in 0 .. Packets(session'[p].file),
         faults' \in 0 .. MaxFaults
  PROVE  NetType'
  <1>1. ASSUME NEW p \in Ports, session'[p] # NoSession
        PROVE  /\ session'[p].file \in 0 .. Blocks(image) - 1
               /\ session'[p].block \in 0 .. Packets(session'[p].file)
    BY <1>1 DEF NetType
  <1>2. \A f : Packets(f)' = Packets(f)
    BY DEF Packets
  <1>3. Blocks(image)' = Blocks(image) /\ image' \in Volumes
    BY DEF NetType
  <1>4. QED
    BY <1>1, <1>2, <1>3, Zenon DEF NetType

LEMMA NetKept ==
  ASSUME NetType, UNCHANGED <<toServer, toClient, session, faults, image>>
  PROVE  NetType'
  BY DEF NetType, Packets

LEMMA ClientKept ==
  ASSUME ClientType, UNCHANGED <<getVars, image>>
  PROVE  ClientType'
  BY ZenonT(30) DEF ClientType, getVars, place, link, stream, writer

\* What the client and the server send.
LEMMA SentTypes ==
  ASSUME NetType, NEW p \in Ports
  PROVE  /\ Oack(p) \in PacketType /\ NotFound(p) \in PacketType
         /\ \A f \in 0 .. Blocks(image) - 1 : Rrq(p, f) \in RequestType
         /\ \A b \in Nat : Ack(p, b) \in RequestType
         /\ Abort(p) \in RequestType
         /\ \A f \in 0 .. Blocks(image) - 1 : \A b \in 1 .. Packets(f) : Data(p, f, b) \in PacketType
  <1>0. Blocks(image) \in Nat /\ image \in Volumes
    BY ImageOK DEF NetType
  <1>1. Oack(p) \in PacketType /\ NotFound(p) \in PacketType
    BY EmptySeq, WordNat DEF Oack, NotFound, PacketType
  <1>2. \A f \in 0 .. Blocks(image) - 1 : Rrq(p, f) \in RequestType
    BY <1>0, WordNat DEF Rrq, RequestType
  <1>3. \A b \in Nat : b % WORD \in 0 .. WORD - 1
    BY WordMod
  <1>4. \A b \in Nat : Ack(p, b) \in RequestType
    BY <1>3 DEF Ack, RequestType
  <1>5. ASSUME NEW f \in 0 .. Blocks(image) - 1, NEW b \in 1 .. Packets(f)
        PROVE  Data(p, f, b) \in PacketType
    <2>1. Packets(f) \in Nat /\ Units(f, b) \in Seq(UnitType)
      BY <1>0, UnitsAre
    <2>2. b \in Nat
      BY <2>1
    <2>3. b % WORD \in 0 .. WORD - 1
      BY <1>3, <2>2
    <2>4. QED
      BY <2>1, <2>3 DEF Data, PacketType
  <1>6. Abort(p) \in RequestType
    BY WordNat DEF Abort, RequestType
  <1>7. QED
    BY <1>1, <1>2, <1>4, <1>5, <1>6

\* The answer of the server to m: what Serve makes of the transfer.
Answer(m) ==
  CASE m.op = "RRQ" /\ m.file \notin gone -> [file |-> m.file, block |-> 0]
    [] m.op = "ACK" /\ session[m.port].block = m.block
         /\ m.block < Packets(session[m.port].file) ->
         [session[m.port] EXCEPT !.block = m.block + 1]
    [] OTHER -> NoSession

LEMMA AnswerIs ==
  ASSUME NetType, NEW m \in toServer
  PROVE  \/ Answer(m) = NoSession
         \/ m.op = "RRQ" /\ Answer(m) = [file |-> m.file, block |-> 0]
         \/ /\ m.op = "ACK" /\ session[m.port].block = m.block
            /\ session[m.port] # NoSession
            /\ m.block < Packets(session[m.port].file)
            /\ Answer(m) = [file |-> session[m.port].file, block |-> m.block + 1]
  <1>1. m.port \in Ports /\ m.op \in {"RRQ", "ACK", "ERR"} /\ m.block \in 0 .. WORD - 1
    BY DEF NetType, RequestType
  <1>2. session[m.port] \in SessionType
    BY <1>1 DEF NetType
  <1>3. CASE m.op = "RRQ"
    <2>1. m.op # "ACK"
      BY <1>3
    <2>2. QED
      BY <1>3, <2>1 DEF Answer
  <1>4. CASE m.op = "ACK"
    <2>1. m.op # "RRQ"
      BY <1>4
    <2>2. CASE session[m.port].block = m.block /\ m.block < Packets(session[m.port].file)
      <3>1. Answer(m) = [session[m.port] EXCEPT !.block = m.block + 1]
        BY <1>4, <2>1, <2>2 DEF Answer
      <3>2. session[m.port] # NoSession
        BY <1>1, <2>2 DEF NoSession
      <3>3. [session[m.port] EXCEPT !.block = m.block + 1] = [file |-> session[m.port].file, block |-> m.block + 1]
        BY <1>2 DEF SessionType
      <3>4. QED
        BY <1>4, <2>2, <3>1, <3>2, <3>3
    <2>3. CASE ~(session[m.port].block = m.block /\ m.block < Packets(session[m.port].file))
      BY <2>1, <2>3 DEF Answer
    <2>4. QED
      BY <2>2, <2>3
  <1>5. CASE m.op = "ERR"
    <2>1. m.op # "RRQ" /\ m.op # "ACK"
      BY <1>5
    <2>2. QED
      BY <2>1 DEF Answer
  <1>6. QED
    BY <1>1, <1>3, <1>4, <1>5

LEMMA AnswerType ==
  ASSUME NetType, NEW m \in toServer, Answer(m) # NoSession
  PROVE  /\ Answer(m) \in SessionType
         /\ Answer(m).file \in 0 .. Blocks(image) - 1
         /\ Answer(m).block \in 0 .. Packets(Answer(m).file)
         /\ Answer(m).block \in Nat
  <1>0. Blocks(image) \in Nat /\ image \in Volumes
    BY ImageOK DEF NetType
  <1>1. m.port \in Ports /\ m.op \in {"RRQ", "ACK", "ERR"} /\ m.block \in 0 .. WORD - 1 /\ m.file \in Int
    BY DEF NetType, RequestType
  <1>5. ASSUME NEW f \in 0 .. Blocks(image) - 1 PROVE Packets(f) \in Nat \ {0}
    <2>1. Size(image, f) + 2 \in Nat /\ Len(Stream(image, f)) = Size(image, f) + 2
      BY <1>0, StreamUnits
    <2>2. (Size(image, f) + 2) \div TFTPBLOCK \in Nat
      BY <2>1, DivBelow, GetAssumption
    <2>3. QED
      BY <2>1, <2>2 DEF Packets
  <1>2. CASE m.op = "RRQ" /\ Answer(m) = [file |-> m.file, block |-> 0]
    <2>1. m.file \in 0 .. Blocks(image) - 1
      BY <1>2 DEF NetType
    <2>2. 0 \in 0 .. Packets(m.file)
      BY <1>5, <2>1
    <2>3. QED
      BY <1>0, <1>2, <2>1, <2>2, WordNat DEF SessionType
  <1>3. CASE /\ m.op = "ACK" /\ session[m.port].block = m.block
             /\ session[m.port] # NoSession
             /\ m.block < Packets(session[m.port].file)
             /\ Answer(m) = [file |-> session[m.port].file, block |-> m.block + 1]
    <2>1. session[m.port].file \in 0 .. Blocks(image) - 1
      BY <1>1, <1>3 DEF NetType
    <2>2. PICK q : q = Packets(session[m.port].file)
      OBVIOUS
    <2>3. q \in Nat /\ m.block < q
      BY <1>3, <1>5, <2>1, <2>2
    <2>4. m.block + 1 \in 0 .. q /\ m.block + 1 \in -1 .. WORD /\ m.block + 1 \in Nat
      BY <1>1, <2>3, WordNat
    <2>5. QED
      BY <1>0, <1>3, <2>1, <2>2, <2>4 DEF SessionType
  <1>4. QED
    BY <1>2, <1>3, AnswerIs

LEMMA ReplyType ==
  ASSUME NetType, NEW p \in Ports, NEW s \in SessionType,
         s.file \in 0 .. Blocks(image) - 1, s.block \in 0 .. Packets(s.file)
  PROVE  Reply(p, s) \in PacketType
  <1>1. CASE s.block = 0
    BY <1>1, SentTypes DEF Reply
  <1>2. CASE s.block # 0
    <2>1. s.block \in 1 .. Packets(s.file)
      BY <1>2 DEF SessionType
    <2>2. Reply(p, s) = Data(p, s.file, s.block)
      BY <1>2 DEF Reply
    <2>3. QED
      BY <2>1, <2>2, SentTypes
  <1>3. QED
    BY <1>1, <1>2

LEMMA ServeType == GetInv /\ Serve => GetInv'
  <1> SUFFICES ASSUME ClientType, NetType, Serve PROVE ClientType' /\ NetType'
    BY DEF GetInv
  <1>1. PICK m \in toServer :
          /\ toServer' = toServer \ {m}
          /\ session' = [session EXCEPT ![m.port] = Answer(m)]
          /\ toClient' = toClient \union
               (IF Answer(m) # NoSession THEN {Reply(m.port, Answer(m))}
                ELSE IF m.op = "RRQ" THEN {NotFound(m.port)} ELSE {})
          /\ UNCHANGED <<getVars, faults, imageVars>>
    BY Zenon DEF Serve, Answer
  <1>2. m.port \in Ports /\ m \in RequestType
    BY DEF NetType, RequestType
  <1>3. Answer(m) \in SessionType
    <2>1. NoSession \in SessionType
      BY WordNat DEF NoSession, SessionType
    <2>2. QED
      BY <2>1, AnswerType
  <1>4. toClient' \subseteq PacketType
    <2>1. Answer(m) # NoSession => Reply(m.port, Answer(m)) \in PacketType
      BY <1>2, AnswerType, ReplyType
    <2>2. NotFound(m.port) \in PacketType /\ toClient \subseteq PacketType
      BY <1>2, SentTypes DEF NetType
    <2>3. QED
      BY <1>1, <2>1, <2>2
  <1>5. session \in [Ports -> SessionType]
    BY DEF NetType
  <1>6. /\ session' \in [Ports -> SessionType]
        /\ \A p \in Ports : session'[p] = IF p = m.port THEN Answer(m) ELSE session[p]
    BY <1>1, <1>2, <1>3, <1>5
  <1>7. ASSUME NEW p \in Ports, session'[p] # NoSession
        PROVE  \/ session'[p] = session[p]
               \/ /\ session'[p].file \in 0 .. Blocks(image) - 1
                  /\ session'[p].block \in 0 .. Packets(session'[p].file)
    BY <1>6, <1>7, AnswerType
  <1>8. /\ toServer' \subseteq RequestType /\ faults' \in 0 .. MaxFaults /\ image' = image
        /\ \A x \in toServer' : x.op = "RRQ" => x.file \in 0 .. Blocks(image) - 1
    BY <1>1 DEF NetType, imageVars
  <1>9. NetType'
    BY <1>4, <1>6, <1>7, <1>8, NetStep
  <1>10. ClientType'
    BY <1>1, <1>8, ClientKept
  <1>11. QED
    BY <1>9, <1>10

\* A step that takes packets away, gives up a transfer or counts a fault.
LEMMA NetLess ==
  ASSUME NetType, image' = image, toClient' \subseteq PacketType,
         \A m \in toServer' : m \in toServer \/ \E p \in Ports : m = Abort(p),
         session' = session,
         faults' = faults \/ (faults < MaxFaults /\ faults' = faults + 1)
  PROVE  NetType'
  <1>1. session' \in [Ports -> SessionType]
    BY DEF NetType
  <1>2. faults' \in 0 .. MaxFaults
    BY GetAssumption DEF NetType
  <1>3. /\ toServer' \subseteq RequestType
        /\ \A x \in toServer' : x.op = "RRQ" => x.file \in 0 .. Blocks(image) - 1
    <2>1. ASSUME NEW p \in Ports PROVE Abort(p) \in RequestType /\ Abort(p).op # "RRQ"
      BY SentTypes DEF Abort
    <2>2. QED
      BY <2>1 DEF NetType
  <1>4. QED
    BY <1>1, <1>2, <1>3, NetStep

Harmed(m, j) == [m EXCEPT !.data[j].unit.is = "bad"]

\* A damaged packet is the same but for one unit, and that one but for its contents.
LEMMA HarmedIs ==
  ASSUME NEW m \in PacketType, NEW j \in DOMAIN m.data
  PROVE  /\ Harmed(m, j) \in PacketType
         /\ Harmed(m, j).port = m.port /\ Harmed(m, j).op = m.op /\ Harmed(m, j).block = m.block
         /\ Len(Harmed(m, j).data) = Len(m.data)
         /\ DOMAIN Harmed(m, j).data = DOMAIN m.data
         /\ \A i \in DOMAIN m.data :
              Harmed(m, j).data[i] =
                IF i = j THEN [unit |-> [file |-> m.data[j].unit.file, is |-> "bad",
                                         data |-> m.data[j].unit.data],
                               k |-> m.data[j].k]
                ELSE m.data[i]
  <1> DEFINE u == m.data[j]
             w == [unit |-> [file |-> u.unit.file, is |-> "bad", data |-> u.unit.data], k |-> u.k]
             d == m.data
             e == [d EXCEPT ![j] = w]
  <1>1. d \in Seq(UnitType) /\ DOMAIN d = 1 .. Len(d)
    BY LenProperties DEF PacketType
  <1>2. u \in UnitType
    BY <1>1, ElementOfSeq
  <1>3. [u EXCEPT !.unit.is = "bad"] = w
    BY <1>2 DEF UnitType, Content
  <1>4. w \in UnitType
    BY <1>2 DEF UnitType, Content
  <1>5. Harmed(m, j) = [m EXCEPT !.data = [d EXCEPT ![j] = [u EXCEPT !.unit.is = "bad"]]]
    BY DEF Harmed
  <1>6. Harmed(m, j) = [m EXCEPT !.data = e]
    BY <1>3, <1>5
  <1> HIDE DEF w, d, u
  <1>7. /\ e \in Seq(UnitType) /\ Len(e) = Len(d) /\ DOMAIN e = DOMAIN d
        /\ \A i \in DOMAIN d : e[i] = IF i = j THEN w ELSE d[i]
    <2>1. j \in 1 .. Len(d)
      BY <1>1 DEF d
    <2>2. /\ e \in Seq(UnitType) /\ Len(e) = Len(d)
          /\ \A i \in 1 .. Len(d) : e[i] = IF i = j THEN w ELSE d[i]
      BY <1>1, <1>4, <2>1, ExceptSeq
    <2>3. QED
      BY <1>1, <2>2, LenProperties
  <1> HIDE DEF e
  <1>8. /\ Harmed(m, j) \in PacketType /\ Harmed(m, j).data = e
        /\ Harmed(m, j).port = m.port /\ Harmed(m, j).op = m.op /\ Harmed(m, j).block = m.block
    BY <1>6, <1>7 DEF PacketType
  <1>9. QED
    BY <1>7, <1>8, Zenon DEF d, u, w

LEMMA NetSteps == GetInv /\ (Resend \/ Lose \/ Damage) => GetInv'
  <1> SUFFICES ASSUME ClientType, NetType, Resend \/ Lose \/ Damage PROVE ClientType' /\ NetType'
    BY DEF GetInv
  <1>1. UNCHANGED <<getVars, image>>
    BY DEF Resend, Lose, Damage, imageVars
  <1>2. ClientType'
    BY <1>1, ClientKept
  <1>3. tftpport \in Ports
    BY DEF ClientType
  <1>4. CASE Resend
    <2>1. Reply(tftpport, session[tftpport]) \in PacketType
      BY <1>3, <1>4, ReplyType DEF Resend, NetType
    <2>2. toClient' \subseteq PacketType
      BY <1>4, <2>1 DEF Resend, NetType
    <2>3. QED
      BY <1>1, <1>2, <1>4, <2>2, NetLess DEF Resend
  <1>5. CASE Lose
    <2>1. toClient' \subseteq PacketType /\ toServer' \subseteq toServer
      BY <1>5 DEF Lose, NetType
    <2>2. QED
      BY <1>1, <1>2, <1>5, <2>1, NetLess DEF Lose
  <1>6. CASE Damage
    <2>1. PICK m \in toClient : \E j \in DOMAIN m.data :
            toClient' = (toClient \ {m}) \union {Harmed(m, j)}
      BY <1>6 DEF Damage, Harmed
    <2>2. PICK j \in DOMAIN m.data : toClient' = (toClient \ {m}) \union {Harmed(m, j)}
      BY <2>1
    <2>3. m \in PacketType /\ toClient \subseteq PacketType
      BY DEF NetType
    <2>4. toClient' \subseteq PacketType
      BY <2>2, <2>3, HarmedIs
    <2>5. QED
      BY <1>1, <1>2, <1>6, <2>4, NetLess DEF Damage
  <1>7. QED
    BY <1>4, <1>5, <1>6

--------------------------------------------------------------------------------
(* Types: the client.                                                       *)

\* All of the client's variables but where it is.
buffers == <<file, files, curr, tftpport, lastblk, tftpend, end, tbuf, compressed,
             seen, sum, out, full, firstblock, alloc, sectptr, save_sect, disk,
             open, told, holed, hurt>>

LEMMA ClientMoves ==
  ASSUME ClientType, UNCHANGED <<buffers, image>>, pc \notin {"done", "failed"},
         pc' \in {"restart", "turn", "key", "poll", "return", "failed"}
  PROVE  ClientType'
  <1>1. pc' \in {"restart", "turn", "key", "poll", "return", "done", "failed"}
    OBVIOUS
  <1>2. file < Blocks(image)
    BY DEF ClientType
  <1>3. QED
    BY <1>1, <1>2, Zenon DEF ClientType, buffers

\* The steps that only move on.
LEMMA MoveType == GetInv /\ (NoWork \/ Key \/ NoPacket \/ Returns) => GetInv'
  <1> SUFFICES ASSUME ClientType, NetType, NoWork \/ Key \/ NoPacket \/ Returns PROVE ClientType' /\ NetType'
    BY DEF GetInv
  <1>1. UNCHANGED <<buffers, image>> /\ UNCHANGED <<toServer, toClient, session, faults, image>>
    BY Zenon DEF NoWork, Key, NoPacket, Returns, buffers, place, link, stream, writer, netVars, imageVars
  <1>2. pc \notin {"done", "failed"} /\ pc' \in {"restart", "turn", "key", "poll", "return", "failed"}
    BY DEF NoWork, Key, NoPacket, Returns
  <1>3. QED
    BY <1>1, <1>2, ClientMoves, NetKept

LEMMA RestartType ==
  ASSUME ClientType, NetType, NEW e, Restart(e), pc \notin {"done", "failed"},
         image' = image, toClient' \subseteq toClient,
         faults' = faults \/ (faults < MaxFaults /\ faults' = faults + 1)
  PROVE  ClientType' /\ NetType'
  <1>1. UNCHANGED <<buffers, image>> /\ pc' \in {"restart", "turn", "key", "poll", "return", "failed"}
    BY Zenon DEF Restart, buffers, place, link, stream, writer
  <1>2. \A m \in toServer' : m \in toServer \/ \E p \in Ports : m = Abort(p)
    BY DEF Restart, ClientType
  <1>3. session' = session
    BY DEF Restart
  <1>4. toClient' \subseteq PacketType
    BY DEF NetType
  <1>5. NetType'
    BY <1>2, <1>3, <1>4, NetLess
  <1>6. QED
    BY <1>1, <1>5, ClientMoves

LEMMA ArrivesType ==
  ASSUME NEW m \in toClient, Arrives(m), NetType
  PROVE  /\ toClient' \subseteq toClient
         /\ faults' = faults \/ (faults < MaxFaults /\ faults' = faults + 1)
         /\ pc = "poll" /\ ~full /\ ~tftpend /\ m.port = tftpport /\ m \in PacketType
  BY DEF Arrives, NetType

LEMMA RestartsType == GetInv /\ (ZlibError \/ ReceiveWrong \/ Timeout) => GetInv'
  <1> SUFFICES ASSUME ClientType, NetType, ZlibError \/ ReceiveWrong \/ Timeout PROVE ClientType' /\ NetType'
    BY DEF GetInv
  <1>1. CASE ZlibError
    BY <1>1, RestartType DEF ZlibError, imageVars
  <1>2. CASE Timeout
    BY <1>2, RestartType DEF Timeout, imageVars
  <1>3. CASE ReceiveWrong
    <2>1. PICK m \in toClient : Arrives(m) /\ Restart(m.op = "OACK" \/ m.block # lastblk)
      BY <1>3 DEF ReceiveWrong
    <2>2. image' = image
      BY <1>3 DEF ReceiveWrong, imageVars
    <2>3. QED
      BY <2>1, <2>2, ArrivesType, RestartType
  <1>4. QED
    BY <1>1, <1>2, <1>3

LEMMA NextPortType ==
  ASSUME tftpport \in Ports
  PROVE  NextPort \in Ports
  BY GetAssumption DEF NextPort, Ports

\* The buffers are in order when they keep to their sizes.
LEMMA ClientStep ==
  ASSUME ClientType, image' = image, file' = file, files' \in {files} \union Misread \union {Blocks(image)},
         pc \notin {"done", "failed"},
         pc' \in {"turn", "key", "poll", "return"},
         tftpport' \in Ports, lastblk' \in -1 .. WORD - 1,
         tftpend' \in BOOLEAN, end' \in 0 .. 2, full' \in BOOLEAN, firstblock' \in BOOLEAN,
         open' \in BOOLEAN, told' \in BOOLEAN, holed' = holed, hurt' \in {hurt, TRUE},
         sum' \in BOOLEAN, tbuf' \in Seq(UnitType), compressed' \in Seq(UnitType),
         out' \in Seq(UnitType), Len(compressed') <= INBUFF, Len(out') <= TOTALLG,
         ~full' => Len(out') < TOTALLG, seen' \in Nat, DOMAIN disk' = DOMAIN disk,
         image \in Volumes
  PROVE  ClientType'
  <1>1. Blocks(image) \in Nat \ {0}
    BY ImageOK
  <1>2. /\ file \in 0 .. Blocks(image) /\ files \in Misread \union 1 .. Blocks(image)
        /\ file < Blocks(image)
    BY DEF ClientType
  <1>3. files' \in Misread \union 1 .. Blocks(image)
    BY <1>1, <1>2
  <1>4. pc' \in {"restart", "turn", "key", "poll", "return", "done", "failed"}
    OBVIOUS
  <1>5. DOMAIN disk' = 0 .. DiskSize - 1 /\ holed' \in BOOLEAN /\ hurt' \in BOOLEAN
    BY DEF ClientType
  <1>6. QED
    BY <1>2, <1>3, <1>4, <1>5, Zenon DEF ClientType

LEMMA RequestSends == GetInv /\ Request => GetInv'
  <1> SUFFICES ASSUME ClientType, NetType, Request PROVE ClientType' /\ NetType'
    BY DEF GetInv
  <1>1. image \in Volumes /\ image' = image /\ Blocks(image) \in Nat \ {0}
    BY ImageOK DEF NetType, Request, imageVars
  <1>2. tftpport' \in Ports
    BY NextPortType DEF Request, ClientType
  <1>3. ClientType'
    <2>1. <<>> \in Seq(UnitType) /\ Len(<<>>) = 0
      BY EmptySeq
    <2>2. /\ tftpend' \in BOOLEAN /\ full' \in BOOLEAN /\ firstblock' \in BOOLEAN /\ sum' \in BOOLEAN
          /\ open' \in BOOLEAN /\ told' \in BOOLEAN /\ holed' = holed /\ hurt' = hurt
      BY DEF Request, Forget
    <2>3. /\ tbuf' \in Seq(UnitType) /\ compressed' \in Seq(UnitType) /\ out' \in Seq(UnitType)
          /\ Len(compressed') = 0 /\ Len(out') = 0
      BY <2>1, Zenon DEF Request, Forget
    <2>4. 0 <= INBUFF /\ 0 <= TOTALLG /\ 0 < TOTALLG
      BY GetAssumption, FormatAssumption
    <2>5. Len(compressed') <= INBUFF /\ Len(out') <= TOTALLG /\ Len(out') < TOTALLG
      BY <2>3, <2>4
    <2>6. /\ lastblk' \in -1 .. WORD - 1 /\ end' \in 0 .. 2 /\ seen' \in Nat
          /\ file' = file /\ files' = files /\ disk' = disk /\ pc = "restart" /\ pc' = "turn"
      BY WordNat DEF Request, Forget, place
    <2>7. QED
      BY <1>1, <1>2, <2>2, <2>3, <2>5, <2>6, ClientStep
  <1>4. NetType'
    <2>1. file \in 0 .. Blocks(image) - 1
      BY <1>1 DEF ClientType, Request
    <2>2. Rrq(tftpport', file) \in RequestType
      BY <1>2, <2>1, SentTypes
    <2>3. /\ \A m \in toServer' : m \in toServer \/ m = Rrq(tftpport', file)
          /\ toClient' \subseteq toClient /\ UNCHANGED faults
          /\ session' = [p \in Ports |-> IF Left(p) THEN session[p] ELSE NoSession]
      BY DEF Request
    <2>4. Rrq(tftpport', file).file = file
      BY DEF Rrq
    <2>5. /\ toServer' \subseteq RequestType
          /\ \A m \in toServer' : m.op = "RRQ" => m.file \in 0 .. Blocks(image) - 1
      BY <2>1, <2>2, <2>3, <2>4 DEF NetType
    <2>6. toClient' \subseteq PacketType /\ faults' \in 0 .. MaxFaults
      BY <2>3 DEF NetType
    <2>7. session' \in [Ports -> SessionType] /\ \A p \in Ports : session'[p] \in {session[p], NoSession}
      <3>1. NoSession \in SessionType
        BY WordNat DEF NoSession, SessionType
      <3>2. session \in [Ports -> SessionType]
        BY DEF NetType
      <3>3. QED
        BY <2>3, <3>1, <3>2
    <2>8. QED
      BY <1>1, <2>5, <2>6, <2>7, NetStep
  <1>5. QED
    BY <1>3, <1>4

LEMMA FlushType == GetInv /\ (FlushHeader \/ FlushData) => GetInv'
  <1> SUFFICES ASSUME ClientType, NetType, FlushHeader \/ FlushData PROVE ClientType' /\ NetType'
    BY DEF GetInv
  <1>1. UNCHANGED <<toServer, toClient, session, image>>
    BY Zenon DEF FlushHeader, FlushData, netVars, imageVars
  <1>2. faults' = faults \/ (faults < MaxFaults /\ faults' = faults + 1)
    BY DEF FlushHeader, FlushData, netVars
  <1>3. Emptied /\ pc = "turn" /\ pc' \in {"key", "poll"} /\ file' = file /\ UNCHANGED <<holed, hurt>>
    BY DEF FlushHeader, FlushData, place
  <1>4. files' \in {files} \union Misread \union {Blocks(image)} /\ DOMAIN disk' = DOMAIN disk
    BY DEF FlushHeader, FlushData, place
  <1>5. /\ full' \in BOOLEAN /\ firstblock' \in BOOLEAN /\ end' \in 0 .. 2
        /\ open' \in BOOLEAN /\ told' \in BOOLEAN
    <2>1. firstblock' \in BOOLEAN /\ open' \in BOOLEAN /\ told' \in BOOLEAN
      BY DEF FlushHeader, FlushData, ClientType, link
    <2>2. full' \in BOOLEAN
      BY <1>3 DEF Emptied
    <2>3. end' \in 0 .. 2
      BY <1>3 DEF Emptied, ClientType
    <2>4. QED
      BY <2>1, <2>2, <2>3
  <1>6. UNCHANGED <<tftpport, lastblk, tftpend, tbuf, compressed, seen, sum>>
    BY Zenon DEF FlushHeader, FlushData, link
  <1>7. out' \in Seq(UnitType) /\ Len(out') <= TOTALLG /\ Len(out') < TOTALLG
    <2>1. out' = <<>>
      BY <1>3 DEF Emptied
    <2>2. QED
      BY <2>1, EmptySeq, FormatAssumption
  <1>8. /\ tftpport' \in Ports /\ lastblk' \in -1 .. WORD - 1 /\ tftpend' \in BOOLEAN
        /\ tbuf' \in Seq(UnitType) /\ compressed' \in Seq(UnitType) /\ Len(compressed') <= INBUFF
        /\ seen' \in Nat /\ sum' \in BOOLEAN /\ image \in Volumes
    BY <1>6, Zenon DEF ClientType, NetType
  <1>9. ClientType'
    BY <1>1, <1>3, <1>4, <1>5, <1>7, <1>8, ClientStep
  <1>10. toClient' \subseteq PacketType
    BY <1>1 DEF NetType
  <1>11. QED
    BY <1>1, <1>2, <1>9, <1>10, NetLess

LEMMA GulpIs ==
  ASSUME ClientType, Gulp
  PROVE  \E n \in Nat :
           /\ n >= 1 /\ n <= INBUFF /\ n <= Len(tbuf)
           /\ compressed' \in Seq(UnitType) /\ Len(compressed') = n
           /\ tbuf' \in Seq(UnitType) /\ Len(tbuf') = Len(tbuf) - n
           /\ \A j \in 1 .. n : compressed'[j] = tbuf[j]
           /\ \A j \in 1 .. Len(tbuf) - n : tbuf'[j] = tbuf[n + j]
  <1> DEFINE len == Len(tbuf)
             n == Min({INBUFF, len})
  <1>1. tbuf \in Seq(UnitType) /\ len \in Nat
    BY LenProperties DEF ClientType
  <1>2. len > 0 /\ compressed' = SubSeq(tbuf, 1, n) /\ tbuf' = SubSeq(tbuf, n + 1, len)
    <2>1. len >= INBUFF \/ len > 0
      BY DEF Gulp, CanGulp, tot_lg
    <2>2. len > 0
      BY <1>1, <2>1, GetAssumption
    <2>3. QED
      BY <2>2 DEF Gulp, tot_lg
  <1>3. n \in Nat /\ n >= 1 /\ n <= INBUFF /\ n <= len
    <2> HIDE DEF len
    <2>1. QED
      BY <1>1, <1>2, MinTwo, GetAssumption
  <1> HIDE DEF n
  <1>4. /\ compressed' \in Seq(UnitType) /\ Len(compressed') = n
        /\ \A j \in 1 .. n : compressed'[j] = tbuf[j]
    <2>1. \A i \in 1 .. n : tbuf[i] \in UnitType
      BY <1>1, <1>3, ElementOfSeq
    <2>2. QED
      BY <1>1, <1>2, <1>3, <2>1, SubSeqProperties
  <1>5. /\ tbuf' \in Seq(UnitType) /\ Len(tbuf') = len - n
        /\ \A j \in 1 .. len - n : tbuf'[j] = tbuf[n + j]
    BY <1>1, <1>2, <1>3, SubSeqProperties
  <1>6. QED
    BY <1>3, <1>4, <1>5 DEF len

LEMMA GulpType == GetInv /\ Gulp => GetInv'
  <1> SUFFICES ASSUME ClientType, NetType, Gulp PROVE ClientType' /\ NetType'
    BY DEF GetInv
  <1>1. UNCHANGED <<toServer, toClient, session, faults, image>>
    BY Zenon DEF Gulp, netVars, imageVars
  <1>2. UNCHANGED <<file, files, tftpport, lastblk, tftpend, end, seen, sum, out, full, firstblock, disk,
                    open, told, holed, hurt>>
        /\ pc = "turn" /\ pc' = "poll"
    BY Zenon DEF Gulp, place, link, writer
  <1>3. compressed' \in Seq(UnitType) /\ tbuf' \in Seq(UnitType) /\ Len(compressed') <= INBUFF
    BY GulpIs
  <1>4. /\ tftpport' \in Ports /\ lastblk' \in -1 .. WORD - 1 /\ tftpend' \in BOOLEAN
        /\ out' \in Seq(UnitType) /\ Len(out') <= TOTALLG /\ (~full' => Len(out') < TOTALLG)
        /\ seen' \in Nat /\ sum' \in BOOLEAN /\ image \in Volumes
        /\ end' \in 0 .. 2 /\ full' \in BOOLEAN /\ firstblock' \in BOOLEAN
        /\ open' \in BOOLEAN /\ told' \in BOOLEAN
    BY <1>2, Zenon DEF ClientType, NetType
  <1>5. ClientType'
    BY <1>1, <1>2, <1>3, <1>4, ClientStep
  <1>6. QED
    BY <1>1, <1>5, NetKept

\* On to the next block file, if the number of them is the right one.
LEMMA NextFileType == GetInv /\ files = Blocks(image) /\ NextFile => GetInv'
  <1> SUFFICES ASSUME ClientType, NetType, files = Blocks(image), NextFile PROVE ClientType' /\ NetType'
    BY DEF GetInv
  <1>1. UNCHANGED <<toServer, toClient, session, faults, image>>
    BY Zenon DEF NextFile, netVars, imageVars
  <1>2. Blocks(image) \in Nat \ {0}
    BY ImageOK DEF NetType
  <1>3. /\ UNCHANGED <<files, tftpport, lastblk, tftpend, end, tbuf, compressed, seen,
                       sum, out, full, firstblock, disk, open, told, hurt>>
        /\ pc = "return" /\ file' = file + 1
        /\ pc' = IF file' < files THEN "restart" ELSE "done"
    BY Zenon DEF NextFile, link, stream, writer
  <1>4. file' \in 0 .. Blocks(image) /\ (pc' \notin {"done", "failed"} => file' < Blocks(image))
        /\ pc' \in {"restart", "turn", "key", "poll", "return", "done", "failed"}
    BY <1>2, <1>3 DEF ClientType
  <1>5. holed' \in BOOLEAN
    BY DEF NextFile, ClientType
  <1>6. ClientType'
    BY <1>1, <1>3, <1>4, <1>5, Zenon DEF ClientType
  <1>7. QED
    BY <1>1, <1>6, NetKept

LEMMA ReceiveType == GetInv /\ (ReceiveOack \/ ReceiveData \/ ReceiveNotFound) => GetInv'
  <1> SUFFICES ASSUME ClientType, NetType, ReceiveOack \/ ReceiveData \/ ReceiveNotFound
               PROVE  ClientType' /\ NetType'
    BY DEF GetInv
  <1>1. image' = image /\ session' = session
    BY DEF ReceiveOack, ReceiveData, ReceiveNotFound, imageVars
  <1>2. PICK m \in toClient : Arrives(m)
    BY DEF ReceiveOack, ReceiveData, ReceiveNotFound
  <1>3. /\ toClient' \subseteq PacketType /\ faults' \in 0 .. MaxFaults /\ pc = "poll" /\ tftpport \in Ports
        /\ session' \in [Ports -> SessionType]
    BY <1>1, <1>2, ArrivesType, GetAssumption, SMTT(30) DEF NetType, ClientType
  <1>4. ASSUME NEW b \in Nat, toServer' = toServer \union {Ack(tftpport, b)} PROVE NetType'
    <2>1. Ack(tftpport, b) \in RequestType /\ Ack(tftpport, b).op = "ACK"
      BY <1>3, SentTypes DEF Ack
    <2>2. /\ toServer' \subseteq RequestType
          /\ \A x \in toServer' : x.op = "RRQ" => x.file \in 0 .. Blocks(image) - 1
      BY <1>4, <2>1 DEF NetType
    <2>3. QED
      BY <1>1, <1>3, <2>2, NetStep
  <1>5. CASE ReceiveNotFound
    <2>1. UNCHANGED <<buffers, image>> /\ pc' = "failed" /\ toServer' = toServer
      BY <1>5, Zenon DEF ReceiveNotFound, buffers, place, link, stream, writer, imageVars
    <2>2. ClientType'
      BY <1>3, <2>1, ClientMoves
    <2>3. /\ toServer' \subseteq RequestType
          /\ \A x \in toServer' : x.op = "RRQ" => x.file \in 0 .. Blocks(image) - 1
      BY <2>1 DEF NetType
    <2>4. QED
      BY <1>1, <1>3, <2>2, <2>3, NetStep
  <1>6. CASE ReceiveOack
    <2>1. /\ UNCHANGED <<file, files, tftpport, tftpend, end, tbuf, compressed, seen, sum, out,
                         full, firstblock, disk, open, told, holed, hurt>>
          /\ lastblk' = 0 /\ pc' = AfterPacket /\ toServer' = toServer \union {Ack(tftpport, 0)}
      BY <1>6, Zenon DEF ReceiveOack, place, stream, writer
    <2>2. pc' \in {"turn", "key", "poll", "return"} /\ lastblk' \in -1 .. WORD - 1
      BY <2>1, WordNat DEF AfterPacket
    <2>3. /\ tftpport' \in Ports /\ tftpend' \in BOOLEAN
          /\ tbuf' \in Seq(UnitType) /\ compressed' \in Seq(UnitType) /\ Len(compressed') <= INBUFF
          /\ out' \in Seq(UnitType) /\ Len(out') <= TOTALLG /\ (~full' => Len(out') < TOTALLG)
          /\ seen' \in Nat /\ sum' \in BOOLEAN /\ image \in Volumes
          /\ end' \in 0 .. 2 /\ full' \in BOOLEAN /\ firstblock' \in BOOLEAN
          /\ open' \in BOOLEAN /\ told' \in BOOLEAN
      BY <2>1, Zenon DEF ClientType, NetType
    <2>4. ClientType'
      BY <1>1, <1>3, <2>1, <2>2, <2>3, ClientStep
    <2>5. QED
      BY <1>4, <2>1, <2>4
  <1>7. CASE ReceiveData
    <2>1. PICK x \in toClient :
            /\ Arrives(x) /\ lastblk' = x.block /\ toServer' = toServer \union {Ack(tftpport, x.block)}
            /\ tbuf' = tbuf \o x.data /\ tftpend' = (Len(x.data) < TFTPBLOCK)
            /\ pc' = AfterPacket
            /\ UNCHANGED <<file, files, tftpport, end, compressed, seen, sum, out, full, firstblock, disk,
                           open, told, holed, hurt>>
      BY <1>7, Zenon DEF ReceiveData, place, stream, writer
    <2>2. x.block \in 0 .. WORD - 1 /\ x.data \in Seq(UnitType)
      BY DEF NetType, PacketType
    <2>3. pc' \in {"turn", "key", "poll", "return"} /\ lastblk' \in -1 .. WORD - 1 /\ x.block \in Nat
      BY <2>1, <2>2, WordNat DEF AfterPacket
    <2>4. tbuf' \in Seq(UnitType)
      BY <2>1, <2>2, ConcatProperties DEF ClientType
    <2>5. tftpend' \in BOOLEAN
      BY <2>1
    <2>6. /\ tftpport' \in Ports
          /\ compressed' \in Seq(UnitType) /\ Len(compressed') <= INBUFF
          /\ out' \in Seq(UnitType) /\ Len(out') <= TOTALLG /\ (~full' => Len(out') < TOTALLG)
          /\ seen' \in Nat /\ sum' \in BOOLEAN /\ image \in Volumes
          /\ end' \in 0 .. 2 /\ full' \in BOOLEAN /\ firstblock' \in BOOLEAN
          /\ open' \in BOOLEAN /\ told' \in BOOLEAN
      BY <2>1, Zenon DEF ClientType, NetType
    <2>7. ClientType'
      BY <1>1, <1>3, <2>1, <2>3, <2>4, <2>5, <2>6, ClientStep
    <2>8. QED
      BY <1>4, <2>1, <2>3, <2>7
  <1>8. QED
    BY <1>5, <1>6, <1>7

\* How many of the n units taken go to the output: not the end of the stream.
Kept(n) == IF compressed[n].unit.is = "end" THEN n - 1 ELSE n

\* What inflate takes fits in the output buffer.
LEMMA TakesFit ==
  ASSUME ClientType, ~full, NEW n \in Takes
  PROVE  /\ n \in Nat /\ n >= 1 /\ n <= Len(compressed)
         /\ Kept(n) \in Nat /\ Kept(n) <= n /\ Len(out) + Kept(n) <= TOTALLG
         /\ n > 1 => \A j \in 1 .. n - 1 : compressed[j].unit.is = "sector"
         /\ \/ n = 1 /\ compressed[1].unit.is = "header"
            \/ compressed[n].unit.is \in {"sector", "end"}
  <1>1. /\ compressed \in Seq(UnitType) /\ Len(compressed) \in Nat
        /\ Len(out) \in Nat /\ Len(out) < TOTALLG
    BY LenProperties DEF ClientType
  <1>2. n \in 1 .. Len(compressed)
    BY DEF Takes
  <1>3. n \in Nat /\ n >= 1 /\ n <= Len(compressed)
    BY <1>1, <1>2
  <1>4. Room = TOTALLG - Len(out)
    BY DEF Room
  <1>5. CASE n = 1 /\ compressed[1].unit.is \in {"header", "end"}
    <2>1. Kept(n) \in {0, 1} /\ Kept(n) <= n
      BY <1>5 DEF Kept
    <2>2. Len(out) + Kept(n) <= TOTALLG
      BY <1>1, <2>1, FormatAssumption
    <2>3. QED
      BY <1>3, <1>5, <2>1, <2>2
  <1>6. CASE /\ \A j \in 1 .. n - 1 : compressed[j].unit.is = "sector"
             /\ compressed[n].unit.is = "sector"
             /\ n = Room \/ (n < Room /\ n = Len(compressed))
    <2>1. Kept(n) = n
      BY <1>6 DEF Kept
    <2>2. Len(out) + n <= TOTALLG
      BY <1>1, <1>3, <1>4, <1>6, FormatAssumption
    <2>3. QED
      BY <1>3, <1>6, <2>1, <2>2
  <1>7. CASE /\ \A j \in 1 .. n - 1 : compressed[j].unit.is = "sector"
             /\ compressed[n].unit.is = "end" /\ n - 1 <= Room
    <2>1. Kept(n) = n - 1
      BY <1>7 DEF Kept
    <2>2. Len(out) + (n - 1) <= TOTALLG /\ n - 1 \in Nat /\ n - 1 <= n
      BY <1>1, <1>3, <1>4, <1>7, FormatAssumption
    <2>3. QED
      BY <1>3, <1>7, <2>1, <2>2
  <1>8. QED
    BY <1>5, <1>6, <1>7 DEF Takes

\* A sequence of units and more of them.
LEMMA MoreUnits ==
  ASSUME NEW a \in Seq(UnitType), NEW b \in Seq(UnitType)
  PROVE  /\ a \o b \in Seq(UnitType) /\ Len(a \o b) = Len(a) + Len(b)
         /\ Len(a) \in Nat /\ Len(b) \in Nat
         /\ \A j \in 1 .. Len(a) : (a \o b)[j] = a[j]
         /\ \A j \in 1 .. Len(b) : (a \o b)[Len(a) + j] = b[j]
  <1>1. Len(a) \in Nat /\ Len(b) \in Nat /\ a \o b \in Seq(UnitType) /\ Len(a \o b) = Len(a) + Len(b)
    BY ConcatProperties, LenProperties, SMTT(30)
  <1>2. \A j \in 1 .. Len(a) : (a \o b)[j] = a[j]
    BY <1>1
  <1>3. \A j \in 1 .. Len(b) : (a \o b)[Len(a) + j] = b[j]
    BY <1>1
  <1>4. QED
    BY <1>1, <1>2, <1>3

\* What is left of the input when n units are taken.
LEMMA TakenIs ==
  ASSUME NEW c \in Seq(UnitType), NEW n \in Nat, n <= Len(c)
  PROVE  /\ Len(c) \in Nat
         /\ SubSeq(c, n + 1, Len(c)) \in Seq(UnitType)
         /\ Len(SubSeq(c, n + 1, Len(c))) = Len(c) - n
         /\ \A j \in 1 .. Len(c) - n : SubSeq(c, n + 1, Len(c))[j] = c[n + j]
  <1>1. Len(c) \in Nat
    BY LenProperties
  <1>2. QED
    BY <1>1, SubSeqProperties

\* The whole of an inflate, unit by unit.
LEMMA InflateIs ==
  ASSUME ClientType, Inflate
  PROVE  \E n \in Takes :
           /\ \A j \in 1 .. n : Sound(j)
           /\ out' \in Seq(UnitType) /\ Len(out') = Len(out) + Kept(n)
           /\ \A j \in 1 .. Len(out) : out'[j] = out[j]
           /\ \A j \in 1 .. Kept(n) : out'[Len(out) + j] = compressed[j]
           /\ compressed' \in Seq(UnitType) /\ Len(compressed') = Len(compressed) - n
           /\ \A j \in 1 .. Len(compressed) - n : compressed'[j] = compressed[n + j]
           /\ full' = (\/ compressed[n].unit.is = "end" \/ compressed[1].unit.is = "header"
                       \/ Len(out') = TOTALLG)
           /\ end' = IF compressed[n].unit.is = "end" THEN 1 ELSE end
           /\ seen' = seen + n
  <1>0. ~full
    BY DEF Inflate, CanInflate
  <1>1. PICK n \in Takes :
           /\ \A j \in 1 .. n : Sound(j)
           /\ out' = out \o SubSeq(compressed, 1, Kept(n))
           /\ compressed' = SubSeq(compressed, n + 1, Len(compressed))
           /\ full' = (\/ compressed[n].unit.is = "end" \/ compressed[1].unit.is = "header"
                       \/ Len(out') = TOTALLG)
           /\ end' = IF compressed[n].unit.is = "end" THEN 1 ELSE end
           /\ seen' = seen + n
    BY Zenon DEF Inflate, Kept
  <1>2. n \in Nat /\ n >= 1 /\ n <= Len(compressed) /\ Kept(n) \in Nat /\ Kept(n) <= n
    BY <1>0, TakesFit
  <1>3. compressed \in Seq(UnitType) /\ Len(compressed) \in Nat /\ out \in Seq(UnitType) /\ Len(out) \in Nat
    BY LenProperties DEF ClientType
  <1>4. PICK k \in Nat : k = Kept(n) /\ k <= Len(compressed)
    BY <1>2, <1>3
  <1>5. PICK more : more = SubSeq(compressed, 1, k)
    OBVIOUS
  <1>6. more \in Seq(UnitType) /\ Len(more) = k /\ \A j \in 1 .. k : more[j] = compressed[j]
    <2>1. \A j \in 1 .. k : compressed[j] \in UnitType
      BY <1>3, <1>4, ElementOfSeq
    <2>2. QED
      BY <1>3, <1>4, <1>5, <2>1, SubSeqProperties
  <1>7. out' = out \o more
    BY <1>1, <1>4, <1>5
  <1>8. /\ out' \in Seq(UnitType) /\ Len(out') = Len(out) + k
        /\ \A j \in 1 .. Len(out) : out'[j] = out[j]
        /\ \A j \in 1 .. k : out'[Len(out) + j] = more[j]
    BY <1>3, <1>6, <1>7, MoreUnits, Zenon
  <1>9. /\ compressed' \in Seq(UnitType) /\ Len(compressed') = Len(compressed) - n
        /\ \A j \in 1 .. Len(compressed) - n : compressed'[j] = compressed[n + j]
    BY <1>1, <1>2, <1>3, TakenIs
  <1>10. \A j \in 1 .. k : out'[Len(out) + j] = compressed[j]
    BY <1>6, <1>8
  <1>11. QED
    BY <1>1, <1>4, <1>8, <1>9, <1>10, Zenon

\* The units before the first damaged one are some of the input.
LEMMA WholeType ==
  ASSUME ClientType
  PROVE  Whole \in Nat /\ Whole <= Len(compressed)
  <1>1. PICK c \in Nat : c = Len(compressed)
    BY LenProperties DEF ClientType
  <1>2. CASE ~sum
    BY <1>1, <1>2 DEF Whole
  <1>3. CASE sum
    <2>1. PICK S : S = {n \in 0 .. c : \A j \in 1 .. n : Sound(j)}
      OBVIOUS
    <2>2. 0 \in S /\ S \subseteq 0 .. c
      BY <1>1, <2>1
    <2>3. \E x \in S : \A y \in S : x >= y
      <3>1. ASSUME \A x \in S : \E y \in S : ~(x >= y) PROVE FALSE
        <4>1. PICK T : T = {c - x : x \in S}
          OBVIOUS
        <4>2. T \subseteq Nat /\ T # {}
          BY <1>1, <2>2, <4>1
        <4>3. PICK t \in T : \A u \in T : t <= u
          BY <4>2, Least
        <4>4. PICK x \in S : t = c - x
          BY <4>1
        <4>5. ASSUME NEW y \in S PROVE x >= y
          <5>1. c - y \in T
            BY <4>1
          <5>2. c - x <= c - y
            BY <4>3, <4>4, <5>1
          <5>3. x \in Nat /\ y \in Nat
            BY <1>1, <2>2
          <5>4. QED
            BY <1>1, <5>2, <5>3
        <4>6. QED
          BY <3>1, <4>5
      <3>2. QED
        BY <3>1
    <2>4. PICK q : q = Max(S) /\ q \in S
      BY <2>3 DEF Max
    <2>5. Whole = q
      BY <1>1, <1>3, <2>1, <2>4 DEF Whole
    <2>6. q \in Nat /\ q <= c
      BY <1>1, <2>2, <2>4
    <2>7. QED
      BY <1>1, <2>5, <2>6
  <1>4. QED
    BY <1>2, <1>3

LEMMA JunkType == Junk \in UnitType /\ Junk.unit.is = "bad"
  BY DEF Junk, UnitType, Content, Garbage

\* What comes of a damaged stream: a buffer that is not too full, and the first one
\* is taken for the header.
LEMMA DamagedIs ==
  ASSUME ClientType, InflateDamaged, firstblock => out = <<>>
  PROVE  \E n \in Nat :
           /\ n >= 1 /\ n <= Len(compressed)
           /\ compressed' \in Seq(UnitType) /\ Len(compressed') = Len(compressed) - n
           /\ \A j \in 1 .. Len(compressed) - n : compressed'[j] = compressed[n + j]
           /\ seen' = seen + n
           /\ out' \in Seq(UnitType) /\ Len(out') <= TOTALLG
           /\ ~full' => Len(out') < TOTALLG
           /\ full' \in BOOLEAN
           /\ firstblock => IF full' THEN Len(out') = 1 /\ out'[1].unit.is = "bad" ELSE out' = <<>>
  <1>1. PICK n \in Whole + 1 .. Len(compressed) :
          /\ IF firstblock THEN out' \in {<<>>, <<Junk>>}
             ELSE \E m \in Whole .. Room :
                    out' = out \o [j \in 1 .. m |-> IF j <= Whole THEN compressed[j] ELSE Junk]
          /\ full' = (Len(out') = IF firstblock THEN 1 ELSE TOTALLG)
          /\ compressed' = SubSeq(compressed, n + 1, Len(compressed))
          /\ seen' = seen + n
    BY Zenon DEF InflateDamaged
  <1>2. compressed \in Seq(UnitType) /\ Len(compressed) \in Nat /\ out \in Seq(UnitType) /\ Len(out) \in Nat
    BY LenProperties DEF ClientType
  <1>3. PICK w \in Nat : w = Whole /\ w <= Len(compressed)
    BY WholeType
  <1>4. n \in Nat /\ n >= 1 /\ n <= Len(compressed)
    BY <1>2, <1>3
  <1>5. /\ compressed' \in Seq(UnitType) /\ Len(compressed') = Len(compressed) - n
        /\ \A j \in 1 .. Len(compressed) - n : compressed'[j] = compressed[n + j]
    BY <1>1, <1>2, <1>4, TakenIs
  <1>6. full' \in BOOLEAN
    BY <1>1
  <1>7. TOTALLG \in Nat /\ TOTALLG >= 1
    BY FormatAssumption
  <1>8. CASE firstblock
    <2>1. PICK o : o = out' /\ o \in {<<>>, <<Junk>>}
      BY <1>1, <1>8
    <2>2. (Len(o) = 1 => full') /\ (full' => Len(o) = 1)
      BY <1>1, <1>8, <2>1, Zenon
    <2>3. ASSUME o = <<Junk>>
          PROVE  o \in Seq(UnitType) /\ Len(o) = 1 /\ o[1].unit.is = "bad" /\ full'
      <3>1. o \in Seq(UnitType) /\ Len(o) = 1 /\ o[1] = Junk
        <4>1. PICK u \in UnitType : u = Junk
          BY JunkType
        <4>2. o = <<u>>
          BY <2>3, <4>1
        <4>3. QED
          BY <4>1, <4>2
      <3>2. QED
        BY <2>2, <3>1, JunkType, Zenon
    <2>4. /\ o \in Seq(UnitType) /\ Len(o) <= TOTALLG
          /\ ~full' => Len(o) < TOTALLG
          /\ IF full' THEN Len(o) = 1 /\ o[1].unit.is = "bad" ELSE o = <<>>
      <3>1. CASE o = <<Junk>>
        BY <1>7, <2>3, <3>1
      <3>2. CASE o = <<>>
        <4>1. o \in Seq(UnitType) /\ Len(o) = 0
          BY <3>2, EmptySeq
        <4>2. Len(o) # 1 /\ Len(o) <= TOTALLG /\ Len(o) < TOTALLG
          BY <1>7, <4>1
        <4>3. QED
          BY <2>2, <3>2, <4>1, <4>2, Zenon
      <3>3. QED
        BY <2>1, <3>1, <3>2
    <2>5. QED
      BY <1>1, <1>4, <1>5, <1>6, <2>1, <2>4
  <1>9. CASE ~firstblock
    <2>1. PICK m \in Whole .. Room :
            out' = out \o [j \in 1 .. m |-> IF j <= Whole THEN compressed[j] ELSE Junk]
      BY <1>1, <1>9
    <2>2. m \in Nat /\ m <= TOTALLG - Len(out)
      BY <1>2, <1>3, <1>7, <2>1 DEF Room
    <2>3. PICK more : more = [j \in 1 .. m |-> IF j <= Whole THEN compressed[j] ELSE Junk]
      OBVIOUS
    <2>4. more \in Seq(UnitType) /\ Len(more) = m
      <3>1. ASSUME NEW j \in 1 .. m PROVE (IF j <= Whole THEN compressed[j] ELSE Junk) \in UnitType
        <4>1. CASE j <= Whole
          <5>1. j \in 1 .. Len(compressed)
            BY <1>2, <1>3, <2>2, <4>1
          <5>2. QED
            BY <1>2, <4>1, <5>1, ElementOfSeq
        <4>2. CASE ~(j <= Whole)
          BY <4>2, JunkType
        <4>3. QED
          BY <4>1, <4>2
      <3>2. QED
        BY <2>2, <2>3, <3>1
    <2>5. out' = out \o more
      BY <2>1, <2>3
    <2>6. out' \in Seq(UnitType) /\ Len(out') = Len(out) + m
      BY <1>2, <2>4, <2>5, MoreUnits
    <2>7. PICK l \in Nat : l = Len(out') /\ l <= TOTALLG
      BY <1>2, <1>7, <2>2, <2>6
    <2>8. ~full' => l < TOTALLG
      <3>1. l = TOTALLG => full'
        BY <1>1, <1>9, <2>7, Zenon
      <3>2. QED
        BY <1>7, <2>7, <3>1
    <2>9. QED
      BY <1>1, <1>4, <1>5, <1>6, <1>9, <2>6, <2>7, <2>8
  <1>10. QED
    BY <1>8, <1>9

LEMMA InflateType == GetInv /\ Inflate => GetInv'
  <1> SUFFICES ASSUME ClientType, NetType, Inflate PROVE ClientType' /\ NetType'
    BY DEF GetInv
  <1>1. UNCHANGED <<toServer, toClient, session, faults, image>>
    BY Zenon DEF Inflate, netVars, imageVars
  <1>2. /\ UNCHANGED <<file, files, tftpport, lastblk, tftpend, tbuf, firstblock, disk, sum,
                       open, told, holed, hurt>>
        /\ pc = "turn" /\ pc' = "poll" /\ ~full
    BY Zenon DEF Inflate, CanInflate, place, link, writer
  <1>3. PICK n \in Takes :
           /\ out' \in Seq(UnitType) /\ Len(out') = Len(out) + Kept(n)
           /\ compressed' \in Seq(UnitType) /\ Len(compressed') = Len(compressed) - n
           /\ full' = (\/ compressed[n].unit.is = "end" \/ compressed[1].unit.is = "header"
                       \/ Len(out') = TOTALLG)
           /\ end' = IF compressed[n].unit.is = "end" THEN 1 ELSE end
           /\ seen' = seen + n
    BY InflateIs, Zenon
  <1>4. n \in Nat /\ Len(out) + Kept(n) <= TOTALLG
    BY <1>2, TakesFit
  <1>5. full' \in BOOLEAN
    BY <1>3, Zenon
  <1>6. Len(out') <= TOTALLG /\ (~full' => Len(out') < TOTALLG)
    <2>1. Len(out') \in Nat
      BY <1>3, LenProperties
    <2>2. ~full' => Len(out') # TOTALLG
      BY <1>3
    <2>3. QED
      BY <1>3, <1>4, <2>1, <2>2, FormatAssumption
  <1>7. Len(compressed') <= INBUFF /\ seen' \in Nat /\ end' \in 0 .. 2
    <2>1. Len(compressed) \in Nat /\ Len(compressed) <= INBUFF /\ seen \in Nat /\ end \in 0 .. 2
      BY LenProperties DEF ClientType
    <2>2. QED
      BY <1>3, <1>4, <2>1, GetAssumption
  <1>8. /\ tftpport' \in Ports /\ lastblk' \in -1 .. WORD - 1 /\ tftpend' \in BOOLEAN
        /\ tbuf' \in Seq(UnitType) /\ firstblock' \in BOOLEAN /\ image \in Volumes
        /\ sum' \in BOOLEAN /\ open' \in BOOLEAN /\ told' \in BOOLEAN
    BY <1>2, Zenon DEF ClientType, NetType
  <1>9. ClientType'
    BY <1>1, <1>2, <1>3, <1>5, <1>6, <1>7, <1>8, ClientStep
  <1>10. QED
    BY <1>1, <1>9, NetKept

LEMMA DamagedType == GetInv /\ (firstblock => out = <<>>) /\ InflateDamaged => GetInv'
  <1> SUFFICES ASSUME ClientType, NetType, firstblock => out = <<>>, InflateDamaged
               PROVE  ClientType' /\ NetType'
    BY DEF GetInv
  <1>1. UNCHANGED <<toServer, toClient, session, faults, image>>
    BY Zenon DEF InflateDamaged, netVars, imageVars
  <1>2. /\ UNCHANGED <<file, files, tftpport, lastblk, tftpend, tbuf, firstblock, disk, end,
                       open, told, holed>>
        /\ pc = "turn" /\ pc' = "poll" /\ sum' = FALSE /\ hurt' = TRUE
    BY Zenon DEF InflateDamaged, place, link, writer
  <1>3. PICK n \in Nat :
           /\ n <= Len(compressed)
           /\ compressed' \in Seq(UnitType) /\ Len(compressed') = Len(compressed) - n
           /\ seen' = seen + n
           /\ out' \in Seq(UnitType) /\ Len(out') <= TOTALLG
           /\ ~full' => Len(out') < TOTALLG
           /\ full' \in BOOLEAN
    BY DamagedIs, Zenon
  <1>4. Len(compressed') <= INBUFF /\ seen' \in Nat
    <2>1. Len(compressed) \in Nat /\ Len(compressed) <= INBUFF /\ seen \in Nat
      BY LenProperties DEF ClientType
    <2>2. QED
      BY <1>3, <2>1, GetAssumption
  <1>5. /\ tftpport' \in Ports /\ lastblk' \in -1 .. WORD - 1 /\ tftpend' \in BOOLEAN
        /\ tbuf' \in Seq(UnitType) /\ firstblock' \in BOOLEAN /\ image \in Volumes
        /\ end' \in 0 .. 2 /\ open' \in BOOLEAN /\ told' \in BOOLEAN
    BY <1>2, Zenon DEF ClientType, NetType
  <1>6. ClientType'
    BY <1>1, <1>2, <1>3, <1>4, <1>5, ClientStep
  <1>7. QED
    BY <1>1, <1>6, NetKept

\* What the types need to know of the transfer: the number of block files at its
\* end, and that no header is in the buffer before it is full.
LEMMA GetStep ==
  ASSUME GetInv, [Next]_vars, pc = "return" => files = Blocks(image),
         pc = "turn" /\ firstblock /\ ~full => out = <<>>
  PROVE  GetInv'
  <1>1. CASE UNCHANGED vars
    BY <1>1, ClientKept, NetKept DEF GetInv, vars, netVars, imageVars
  <1>2. CASE Finished
    BY <1>2, ClientKept, NetKept DEF GetInv, Finished, vars, netVars, imageVars
  <1>3. CASE NextFile
    BY <1>3, NextFileType DEF NextFile
  <1>4. CASE InflateDamaged
    BY <1>4, DamagedType DEF InflateDamaged, CanInflate
  <1>5. CASE Client /\ ~NextFile /\ ~InflateDamaged
    BY <1>5, RequestSends, FlushType, InflateType, RestartsType, GulpType, MoveType,
       ReceiveType DEF Client
  <1>6. QED
    BY <1>1, <1>2, <1>3, <1>4, <1>5, ServeType, NetSteps, MoveType DEF Next

--------------------------------------------------------------------------------
(* The transfer of a block file: what is in flight, in the buffers and on    *)
(* the disk.                                                                 *)

Transfer == pc \in {"turn", "key", "poll"}
Total(v, f) == Size(v, f) + 2

\* u is unit k of block file f, perhaps damaged on the way.
UnitAt(v, f, u, k) ==
  /\ k \in 1 .. Total(v, f)
  /\ u.k = k /\ u.unit.file = f /\ u.unit.data = DataOf(v, f, k)
  /\ u.unit.is \in {Kind(v, f, k), "bad"}

\* The units of s follow unit number after.
Carries(v, f, s, after) == \A j \in 1 .. Len(s) : UnitAt(v, f, s[j], after + j)

\* m is packet b of block file f.
Carrier(v, f, m, b) ==
  /\ m.block = b % WORD
  /\ Carries(v, f, m.data, (b - 1) * TFTPBLOCK)
  /\ Len(m.data) <= TFTPBLOCK
  /\ Len(m.data) = TFTPBLOCK \/ (b - 1) * TFTPBLOCK + Len(m.data) = Total(v, f)

\* A request, the server's transfer and a packet that belong to a transfer of f of
\* which n packets have been received.
Asks(m, f, n) == (m.op = "RRQ" => m.file = f) /\ (m.op = "ACK" => m.block <= n)
Held(s, f, n) == s # NoSession => s.file = f /\ s.block <= n + 1
Brings(v, f, m, n) ==
  IF m.op = "DATA" THEN \E b \in 1 .. n + 1 : Carrier(v, f, m, b) ELSE m.data = <<>>

\* Nothing on the port of the transfer is of another, or ahead of it.
Wire ==
  Transfer =>
    /\ \A m \in toServer : m.port = tftpport => Asks(m, file, lastblk)
    /\ Held(session[tftpport], file, lastblk)
    /\ \A m \in toClient : m.port = tftpport => Brings(image, file, m, lastblk)

LEMMA Wider ==
  ASSUME NEW n \in Int, NEW o \in Int, n <= o, NEW b \in 1 .. n + 1
  PROVE  b \in 1 .. o + 1
  OBVIOUS

\* What belongs to the transfer goes on to belong to it when more is received.
LEMMA WireStep ==
  ASSUME NetType, ClientType, Wire, Transfer,
         image' = image, file' = file, tftpport' = tftpport, lastblk' \in Int, lastblk <= lastblk',
         \A m \in toServer' : m \in toServer \/ (m.port = tftpport => Asks(m, file, lastblk')),
         session'[tftpport] = session[tftpport] \/ Held(session'[tftpport], file, lastblk'),
         \A m \in toClient' : m \in toClient \/ (m.port = tftpport => Brings(image, file, m, lastblk'))
  PROVE  Wire'
  <1>1. PICK n \in Int : n = lastblk
    BY DEF ClientType
  <1>2. PICK o \in Int : o = lastblk' /\ n <= o
    BY <1>1
  <1>3. ASSUME NEW m \in toServer, Asks(m, file, n) PROVE Asks(m, file, o)
    <2>1. m.block \in Int
      BY DEF NetType, RequestType
    <2>2. QED
      BY <1>2, <1>3, <2>1 DEF Asks
  <1>4. Held(session[tftpport], file, o)
    <2>1. session[tftpport] \in SessionType
      BY DEF NetType, ClientType
    <2>2. session[tftpport].block \in Int
      BY <2>1, WordNat DEF SessionType
    <2>3. Held(session[tftpport], file, n)
      BY <1>1 DEF Wire
    <2>4. QED
      BY <1>2, <2>2, <2>3 DEF Held
  <1>5. ASSUME NEW m, Brings(image, file, m, n) PROVE Brings(image, file, m, o)
    <2>1. ASSUME NEW b \in 1 .. n + 1 PROVE b \in 1 .. o + 1
      BY <1>2, Wider
    <2>2. QED
      BY <1>5, <2>1 DEF Brings
  <1>6. \A m \in toServer' : m.port = tftpport' => Asks(m, file', lastblk')
    BY <1>1, <1>2, <1>3 DEF Wire
  <1>7. Held(session'[tftpport'], file', lastblk')
    BY <1>2, <1>4
  <1>8. \A m \in toClient' : m.port = tftpport' => Brings(image', file', m, lastblk')
    BY <1>1, <1>2, <1>5 DEF Wire
  <1>9. QED
    BY <1>6, <1>7, <1>8 DEF Wire

\* Nothing new on the wire.
LEMMA WireLess ==
  ASSUME NetType, ClientType, Wire, Transfer' => Transfer,
         UNCHANGED <<image, file, tftpport, lastblk>>, toServer' \subseteq toServer,
         toClient' \subseteq toClient, session' = session
  PROVE  Wire'
  <1>1. lastblk \in Int
    BY DEF ClientType
  <1>2. CASE Transfer
    BY <1>1, <1>2, WireStep
  <1>3. CASE ~Transfer
    BY <1>3 DEF Wire
  <1>4. QED
    BY <1>2, <1>3

\* The packets the server sends.
LEMMA DataCarries ==
  ASSUME NetType, NEW p, NEW f \in 0 .. Blocks(image) - 1, NEW b \in 1 .. Packets(f)
  PROVE  Carrier(image, f, Data(p, f, b), b)
  <1> DEFINE a == (b - 1) * TFTPBLOCK
             u == Units(f, b)
  <1>1. image \in Volumes
    BY DEF NetType
  <1>2. /\ u \in Seq(UnitType) /\ a \in Nat
        /\ Len(u) \in 0 .. TFTPBLOCK
        /\ a + Len(u) <= Size(image, f) + 2
        /\ Len(u) = TFTPBLOCK \/ a + Len(u) = Size(image, f) + 2
        /\ \A j \in 1 .. Len(u) : u[j] = [unit |-> Stream(image, f)[a + j], k |-> a + j]
    BY <1>1, UnitsAre
  <1>3. /\ Size(image, f) \in Nat
        /\ \A k \in 1 .. Size(image, f) + 2 :
             Stream(image, f)[k] = [file |-> f, is |-> Kind(image, f, k), data |-> DataOf(image, f, k)]
    BY <1>1, StreamUnits
  <1>4. Data(p, f, b).block = b % WORD /\ Data(p, f, b).data = u
    BY DEF Data
  <1> HIDE DEF a, u
  <1>5. ASSUME NEW j \in 1 .. Len(u) PROVE UnitAt(image, f, u[j], a + j)
    <2>1. a + j \in 1 .. Size(image, f) + 2
      BY <1>2, <1>3, GetAssumption
    <2>2. u[j] = [unit |-> [file |-> f, is |-> Kind(image, f, a + j), data |-> DataOf(image, f, a + j)], k |-> a + j]
      BY <1>2, <1>3, <2>1
    <2>3. QED
      BY <2>1, <2>2 DEF UnitAt, Total
  <1>6. Carries(image, f, u, a)
    BY <1>5 DEF Carries
  <1>7. Len(u) <= TFTPBLOCK
    BY <1>2, GetAssumption
  <1>8. QED
    BY <1>2, <1>4, <1>6, <1>7 DEF Carrier, Total, a

LEMMA ReplyBrings ==
  ASSUME NetType, NEW p, NEW s \in SessionType, NEW n \in Int,
         s.file \in 0 .. Blocks(image) - 1, s.block \in 0 .. Packets(s.file), s.block \in Nat, s.block <= n + 1
  PROVE  Brings(image, s.file, Reply(p, s), n)
  <1>1. CASE s.block = 0
    BY <1>1 DEF Reply, Oack, Brings
  <1>2. CASE s.block # 0
    <2>1. image \in Volumes
      BY DEF NetType
    <2>2. Packets(s.file) \in Int
      <3>1. Len(Stream(image, s.file)) \in Nat
        BY <2>1, StreamUnits
      <3>2. QED
        BY <3>1, GetAssumption DEF Packets
    <2>3. PICK b \in Nat : b = s.block /\ b \in 1 .. Packets(s.file) /\ b \in 1 .. n + 1
      BY <1>2, <2>2
    <2>4. Reply(p, s) = Data(p, s.file, b)
      BY <1>2, <2>3 DEF Reply
    <2>5. Carrier(image, s.file, Data(p, s.file, b), b)
      BY <2>3, DataCarries
    <2>6. Data(p, s.file, b).op = "DATA"
      BY DEF Data
    <2>7. QED
      BY <2>3, <2>4, <2>5, <2>6 DEF Brings
  <1>3. QED
    BY <1>1, <1>2

LEMMA WireServe == GetInv /\ Wire /\ Serve => Wire'
  <1> SUFFICES ASSUME ClientType, NetType, Wire, Serve PROVE Wire'
    BY DEF GetInv
  <1>1. PICK m \in toServer :
          /\ toServer' = toServer \ {m}
          /\ session' = [session EXCEPT ![m.port] = Answer(m)]
          /\ toClient' = toClient \union
               (IF Answer(m) # NoSession THEN {Reply(m.port, Answer(m))}
                ELSE IF m.op = "RRQ" THEN {NotFound(m.port)} ELSE {})
    BY DEF Serve, Answer
  <1>2. UNCHANGED <<image, file, tftpport, lastblk, pc>>
    BY Zenon DEF Serve, getVars, place, link, imageVars
  <1>3. CASE ~Transfer
    BY <1>2, <1>3 DEF Wire, Transfer
  <1>4. CASE Transfer
    <2>1. PICK n \in Int : n = lastblk /\ n >= -1
      BY DEF ClientType
    <2>2. m \in RequestType /\ m.port \in Ports /\ session \in [Ports -> SessionType] /\ tftpport \in Ports
      BY DEF NetType, RequestType, ClientType
    <2>3. ASSUME m.port = tftpport PROVE Held(Answer(m), file, n)
      <3>1. Asks(m, file, n) /\ Held(session[tftpport], file, n)
        BY <1>4, <2>1, <2>3 DEF Wire
      <3>2. m.block \in Int
        BY <2>2 DEF RequestType
      <3>3. CASE Answer(m) = NoSession
        BY <3>3 DEF Held
      <3>4. CASE m.op = "RRQ" /\ Answer(m) = [file |-> m.file, block |-> 0]
        <4>1. Answer(m).file = file /\ Answer(m).block = 0
          BY <3>1, <3>4 DEF Asks
        <4>2. QED
          BY <2>1, <4>1 DEF Held
      <3>5. CASE /\ m.op = "ACK" /\ session[m.port] # NoSession
                 /\ Answer(m) = [file |-> session[m.port].file, block |-> m.block + 1]
        <4>1. Answer(m).file = file /\ Answer(m).block = m.block + 1 /\ m.block <= n
          BY <2>3, <3>1, <3>5 DEF Asks, Held
        <4>2. QED
          BY <2>1, <3>2, <4>1 DEF Held
      <3>6. QED
        BY <3>3, <3>4, <3>5, AnswerIs
    <2>4. session'[tftpport] = session[tftpport] \/ Held(session'[tftpport], file, lastblk)
      <3>1. CASE m.port = tftpport
        BY <1>1, <2>1, <2>2, <2>3, <3>1
      <3>2. CASE m.port # tftpport
        BY <1>1, <2>2, <3>2
      <3>3. QED
        BY <3>1, <3>2
    <2>5. ASSUME NEW r \in toClient', r \notin toClient, r.port = tftpport
          PROVE  Brings(image, file, r, n)
      <3>1. CASE Answer(m) # NoSession
        <4>1. /\ Answer(m) \in SessionType
              /\ Answer(m).file \in 0 .. Blocks(image) - 1
              /\ Answer(m).block \in 0 .. Packets(Answer(m).file)
              /\ Answer(m).block \in Nat
          BY <3>1, AnswerType
        <4>2. r = Reply(m.port, Answer(m))
          BY <1>1, <2>5, <3>1
        <4>3. m.port = tftpport
          BY <2>5, <4>2 DEF Reply, Oack, Data
        <4>4. Answer(m).file = file /\ Answer(m).block <= n + 1
          BY <2>3, <3>1, <4>3 DEF Held
        <4>5. Brings(image, Answer(m).file, Reply(m.port, Answer(m)), n)
          BY <2>1, <4>1, <4>4, ReplyBrings
        <4>6. QED
          BY <4>2, <4>4, <4>5
      <3>2. CASE Answer(m) = NoSession
        <4>1. r = NotFound(m.port)
          BY <1>1, <2>5, <3>2
        <4>2. QED
          BY <4>1 DEF NotFound, Brings
      <3>3. QED
        BY <3>1, <3>2
    <2>6. lastblk' \in Int /\ lastblk <= lastblk' /\ lastblk' = n
      BY <1>2, <2>1
    <2>7. \A r \in toServer' : r \in toServer
      BY <1>1
    <2>8. QED
      BY <1>2, <1>4, <2>4, <2>5, <2>6, <2>7, WireStep
  <1>5. QED
    BY <1>3, <1>4

\* Damage leaves the packet in its place.
LEMMA DamageCarries ==
  ASSUME NEW m \in PacketType, NEW j \in DOMAIN m.data,
         NEW v, NEW f, NEW n, Brings(v, f, m, n)
  PROVE  Brings(v, f, Harmed(m, j), n)
  <1> DEFINE d == Harmed(m, j)
  <1>1. /\ d.op = m.op /\ d.block = m.block /\ Len(d.data) = Len(m.data)
        /\ \A i \in DOMAIN m.data :
             d.data[i] = IF i = j THEN [unit |-> [file |-> m.data[j].unit.file, is |-> "bad",
                                                  data |-> m.data[j].unit.data],
                                        k |-> m.data[j].k]
                         ELSE m.data[i]
    BY HarmedIs
  <1>2. DOMAIN m.data = 1 .. Len(m.data)
    BY DEF PacketType
  <1> HIDE DEF d
  <1>3. ASSUME NEW k, NEW i \in DOMAIN m.data, UnitAt(v, f, m.data[i], k)
        PROVE  UnitAt(v, f, d.data[i], k)
    <2>1. CASE i = j
      <3>1. d.data[i] = [unit |-> [file |-> m.data[j].unit.file, is |-> "bad",
                                   data |-> m.data[j].unit.data],
                         k |-> m.data[j].k]
        BY <1>1, <2>1
      <3>2. QED
        BY <1>3, <2>1, <3>1 DEF UnitAt
    <2>2. CASE i # j
      BY <1>1, <1>3, <2>2
    <2>3. QED
      BY <2>1, <2>2
  <1>4. ASSUME NEW b, Carrier(v, f, m, b) PROVE Carrier(v, f, d, b)
    BY <1>1, <1>2, <1>3, <1>4 DEF Carrier, Carries
  <1>5. m.op = "DATA"
    BY DEF Brings
  <1>6. QED
    BY <1>1, <1>4, <1>5 DEF Brings, d

LEMMA WireNet == GetInv /\ Wire /\ (Resend \/ Lose \/ Damage) => Wire'
  <1> SUFFICES ASSUME ClientType, NetType, Wire, Resend \/ Lose \/ Damage PROVE Wire'
    BY DEF GetInv
  <1>1. UNCHANGED <<image, file, tftpport, lastblk, pc, session>>
    BY Zenon DEF Resend, Lose, Damage, getVars, place, link, imageVars
  <1>2. CASE ~Transfer
    BY <1>1, <1>2 DEF Wire, Transfer
  <1>3. CASE Lose
    <2>1. toServer' \subseteq toServer /\ toClient' \subseteq toClient
      BY <1>3 DEF Lose
    <2>2. QED
      BY <1>1, <2>1, WireLess DEF Transfer
  <1>4. CASE Transfer /\ (Resend \/ Damage)
    <2>1. PICK n \in Int : n = lastblk
      BY DEF ClientType
    <2>2. \A m \in toServer' : m \in toServer
      BY <1>4 DEF Resend, Damage
    <2>3. lastblk' \in Int /\ lastblk <= lastblk' /\ lastblk' = n
      BY <1>1, <2>1
    <2>4. CASE Resend
      <3>1. /\ session[tftpport] # NoSession
            /\ toClient' = toClient \union {Reply(tftpport, session[tftpport])}
        BY <2>4 DEF Resend
      <3>2. PICK s : s = session[tftpport]
        OBVIOUS
      <3>3. /\ s \in SessionType
            /\ s.file \in 0 .. Blocks(image) - 1 /\ s.block \in 0 .. Packets(s.file)
        BY <3>1, <3>2 DEF NetType, ClientType
      <3>4. s.block \in Nat
        BY <3>3, WordNat DEF SessionType
      <3>5. s.file = file /\ s.block <= n + 1
        BY <1>4, <2>1, <3>1, <3>2 DEF Wire, Held
      <3>6. Brings(image, file, Reply(tftpport, s), n)
        BY <3>3, <3>4, <3>5, ReplyBrings
      <3>7. \A r \in toClient' : r \in toClient \/ Brings(image, file, r, n)
        BY <3>1, <3>2, <3>6
      <3>8. QED
        BY <1>1, <1>4, <2>2, <2>3, <3>7, WireStep
    <2>5. CASE Damage
      <3>0. PICK m \in toClient : \E j \in DOMAIN m.data :
              /\ m.port = tftpport
              /\ toClient' = (toClient \ {m}) \union {Harmed(m, j)}
        BY <2>5 DEF Damage, Harmed
      <3>1. PICK j \in DOMAIN m.data :
              /\ m.port = tftpport
              /\ toClient' = (toClient \ {m}) \union {Harmed(m, j)}
        BY <3>0
      <3>2. Brings(image, file, m, n)
        BY <1>4, <2>1, <3>1 DEF Wire
      <3>3. m \in PacketType
        BY DEF NetType
      <3>4. Brings(image, file, Harmed(m, j), n)
        BY <3>1, <3>2, <3>3, DamageCarries
      <3>5. \A r \in toClient' : r \in toClient \/ Brings(image, file, r, n)
        BY <3>1, <3>4
      <3>6. QED
        BY <1>1, <1>4, <2>2, <2>3, <3>5, WireStep
    <2>6. QED
      BY <1>4, <2>4, <2>5
  <1>5. QED
    BY <1>2, <1>3, <1>4

\* Nothing is left of the port a request is made on: it was used longer ago than
\* anything lives.
LEMMA PortPassed ==
  ASSUME tftpport \in Ports
  PROVE  ~Left(NextPort)
  <1>1. PICK q \in Nat : q = PORTS - 1 /\ q >= 1 /\ ~(q < Life)
    BY GetAssumption
  <1>2. (tftpport - NextPort) % PORTS = q
    <2>1. CASE NextPort = tftpport + 1
      <3>1. tftpport - NextPort = -1
        BY <2>1 DEF Ports
      <3>2. (-1) % PORTS = PORTS - 1
        BY GetAssumption
      <3>3. QED
        BY <1>1, <3>1, <3>2
    <2>2. CASE NextPort = 0 /\ tftpport = PORTS - 1
      <3>1. tftpport - NextPort = q /\ q < PORTS
        BY <1>1, <2>2, GetAssumption
      <3>2. q % PORTS = q
        BY <1>1, <3>1, GetAssumption
      <3>3. QED
        BY <3>1, <3>2
    <2>3. QED
      BY <2>1, <2>2, GetAssumption DEF NextPort, Ports
  <1>3. QED
    BY <1>1, <1>2 DEF Left

LEMMA WireRequest == GetInv /\ Request => Wire'
  <1> SUFFICES ASSUME ClientType, NetType, Request PROVE Wire'
    BY DEF GetInv
  <1>1. /\ file' = file /\ tftpport' = NextPort
        /\ toServer' = {m \in toServer : Left(m.port)} \union {Rrq(tftpport', file)}
        /\ toClient' = {m \in toClient : Left(m.port)}
        /\ session' = [p \in Ports |-> IF Left(p) THEN session[p] ELSE NoSession]
    BY Zenon DEF Request, place
  <1>2. tftpport' \in Ports /\ ~Left(tftpport')
    BY <1>1, PortPassed, NextPortType DEF ClientType
  <1>3. \A m \in toServer' : m.port = tftpport' => Asks(m, file', lastblk')
    <2>1. Asks(Rrq(tftpport', file), file', lastblk')
      BY <1>1 DEF Asks, Rrq
    <2>2. QED
      BY <1>1, <1>2, <2>1
  <1>4. Held(session'[tftpport'], file', lastblk')
    BY <1>1, <1>2 DEF Held
  <1>5. \A m \in toClient' : m.port = tftpport' => Brings(image', file', m, lastblk')
    BY <1>1, <1>2
  <1>6. QED
    BY <1>3, <1>4, <1>5 DEF Wire

--------------------------------------------------------------------------------
(* The buffers, from the wire to the disk.                                   *)

\* The units received.
Received == IF tftpend THEN Total(image, file)
            ELSE IF lastblk = -1 THEN 0 ELSE lastblk * TFTPBLOCK

\* What is inflated, waits for it and is in the list are the units received, in order.
Feed ==
  Transfer =>
    /\ Carries(image, file, compressed, seen)
    /\ Carries(image, file, tbuf, seen + Len(compressed))
    /\ seen + Len(compressed) + Len(tbuf) = Received

Active == pc \in {"turn", "key", "poll", "return"}

\* The sectors of the block file passed on the disk.
Flushed == Rank(image, file, FirstOf(file) + sectptr)

Ending ==
  /\ end = 0 /\ sum => seen < Total(image, file)
  /\ end > 0 => sum /\ seen = Total(image, file)
  /\ end = 1 => full
  /\ end = 2 => out = <<>> /\ ~full

\* Before the first buffer is used: it is the header, or what came of a damaged one.
InHeader ==
  /\ sectptr = 0 /\ save_sect = curr /\ end = 0
  /\ ~full => out = <<>> /\ (sum => seen = 0)
  /\ full => IF sum THEN seen = 1 /\ out[1].unit.is = "header" /\ out[1].unit.file = file
             ELSE out[1].unit.is = "bad"
  /\ full => Len(out) = 1

InData ==
  /\ alloc = [of |-> file, bits |-> {s - FirstOf(file) : s \in UsedIn(image, file)}]
  /\ save_sect = curr + Lg(image, file) * Byte /\ files = Blocks(image)
  /\ seen = 1 + Flushed + Len(out) + (IF end > 0 THEN 1 ELSE 0)
  /\ \A j \in 1 .. Len(out) : out[j].unit.data = DataOf(image, file, 1 + Flushed + j)

\* As long as nothing damaged is inflated the output buffer holds what comes after
\* the sectors passed, the header first.
Output ==
  Active => Ending /\ (firstblock => InHeader) /\ (~firstblock /\ sum => InData)

\* The bitmap, damaged or not, and the bits passed.
Table == alloc.bits \subseteq 0 .. ALLOCLG * Byte - 1 /\ sectptr \in 0 .. ALLOCLG * Byte

\* At its place on the disk.
Placed(on, s) == Start + s \in DOMAIN on /\ on[Start + s] = s

\* The earlier block files are on the disk, and the sectors passed of this one, when
\* none was damaged or not written; nothing else is, but for damage.
Disk ==
  /\ pc # "done" => curr = Start + FirstOf(file)
  /\ file > 0 => files = Blocks(image)
  /\ ~holed => \A f \in 0 .. file - 1 : \A s \in UsedIn(image, f) : Placed(disk, s)
  /\ \A d \in DOMAIN disk : disk[d] # Old => d - Start \in image.used \/ (hurt /\ d >= Start)
  /\ Active /\ ~firstblock /\ sum /\ ~told =>
       \A s \in UsedIn(image, file) : s < FirstOf(file) + sectptr => Placed(disk, s)
  /\ ~sum => hurt
  /\ pc = "return" => end = 2
  /\ pc = "done" => file = Blocks(image)

TransferInv == Wire /\ Feed /\ Output /\ Table /\ Disk

LEMMA FeedKept ==
  ASSUME Feed, Transfer' => Transfer,
         UNCHANGED <<image, file, compressed, seen, tbuf, tftpend, lastblk>>
  PROVE  Feed'
  BY DEF Feed, Received

LEMMA OutputKept ==
  ASSUME Output, Active' => Active,
         UNCHANGED <<image, file, files, curr, end, seen, sum, out, full, firstblock, alloc, sectptr, save_sect>>
  PROVE  Output'
  <1>1. Ending' <=> Ending
    BY Zenon DEF Ending
  <1>2. InHeader' <=> InHeader
    BY Zenon DEF InHeader
  <1>3. Flushed' = Flushed
    BY DEF Flushed
  <1>4. InData' <=> InData
    BY <1>3, Zenon DEF InData
  <1>5. QED
    BY <1>1, <1>2, <1>4, Zenon DEF Output

LEMMA DiskKept ==
  ASSUME Disk, UNCHANGED <<image, file, files, curr, disk, holed>>,
         hurt => hurt', ~sum' => hurt',
         pc' # "done" => pc # "done",
         Active' => \/ firstblock'
                    \/ Active /\ UNCHANGED <<firstblock, sectptr, told>> /\ (sum' => sum),
         pc' = "return" => end' = 2, pc' = "done" => pc = "done"
  PROVE  Disk'
  <1>1. pc' # "done" => curr' = Start + FirstOf(file')
    BY Zenon DEF Disk
  <1>2. file' > 0 => files' = Blocks(image')
    BY Zenon DEF Disk
  <1>3. ~holed' => \A f \in 0 .. file' - 1 : \A s \in UsedIn(image', f) : Placed(disk', s)
    BY Zenon DEF Disk
  <1>4. \A d \in DOMAIN disk' : disk'[d] # Old => d - Start \in image'.used \/ (hurt' /\ d >= Start)
    BY Zenon DEF Disk
  <1>5. ASSUME Active', ~firstblock', sum', ~told', NEW s \in UsedIn(image', file'),
               s < FirstOf(file') + sectptr'
        PROVE  Placed(disk', s)
    <2>1. Active /\ ~firstblock /\ sum /\ ~told /\ sectptr' = sectptr
      BY <1>5
    <2>2. QED
      BY <1>5, <2>1 DEF Disk
  <1>6. pc' = "done" => file' = Blocks(image')
    BY DEF Disk
  <1>7. QED
    BY <1>1, <1>2, <1>3, <1>4, <1>5, <1>6 DEF Disk

LEMMA TableKept ==
  ASSUME Table, UNCHANGED <<alloc, sectptr>>
  PROVE  Table'
  BY DEF Table

\* The server and the network.
LEMMA NetTransfer ==
  GetInv /\ TransferInv /\ (Serve \/ Resend \/ Lose \/ Damage) => TransferInv'
  <1> SUFFICES ASSUME GetInv, TransferInv, Serve \/ Resend \/ Lose \/ Damage PROVE TransferInv'
    OBVIOUS
  <1>1. UNCHANGED <<getVars, imageVars>>
    BY Zenon DEF Serve, Resend, Lose, Damage
  <1>2. Wire /\ Feed /\ Output /\ Disk /\ Table
    BY DEF TransferInv
  <1>3. Wire'
    BY <1>2, WireServe, WireNet
  <1>4. UNCHANGED <<image, file, files, curr, disk, firstblock, sectptr, sum, end, pc, compressed, seen, tbuf,
                    tftpend, lastblk, out, full, alloc, save_sect, told, holed, hurt>>
    BY <1>1, Zenon DEF getVars, place, link, stream, writer, imageVars
  <1>5. (Transfer' <=> Transfer) /\ (Active' <=> Active)
    BY <1>4 DEF Transfer, Active
  <1>6. Feed'
    BY <1>2, <1>4, <1>5, FeedKept
  <1>7. Output'
    BY <1>2, <1>4, <1>5, OutputKept
  <1>8. (pc' = "return" => end' = 2) /\ (~sum' => hurt')
    BY <1>2, <1>4 DEF Disk
  <1>9. Disk'
    BY <1>2, <1>4, <1>5, <1>8, DiskKept
  <1>10. Table'
    BY <1>2, <1>4, TableKept
  <1>11. QED
    BY <1>3, <1>6, <1>7, <1>9, <1>10 DEF TransferInv

\* The steps that only move on.
LEMMA MoveTransfer ==
  GetInv /\ TransferInv /\ (NoWork \/ Key \/ NoPacket \/ Returns) => TransferInv'
  <1> SUFFICES ASSUME GetInv, TransferInv, NoWork \/ Key \/ NoPacket \/ Returns PROVE TransferInv'
    OBVIOUS
  <1>1. Wire /\ Feed /\ Output /\ Disk /\ Table /\ NetType /\ ClientType
    BY DEF TransferInv, GetInv
  <1>2. UNCHANGED <<image, file, files, curr, disk, firstblock, sectptr, sum, end, compressed, seen, tbuf,
                    tftpend, lastblk, out, full, alloc, save_sect, tftpport, toServer, toClient, session,
                    told, holed, hurt>>
    BY Zenon DEF NoWork, Key, NoPacket, Returns, place, link, stream, writer, netVars, imageVars
  <1>3. pc \in {"turn", "key", "poll"} /\ pc' \in {"turn", "poll", "return"} /\ (pc' = "return" => end = 2)
    BY DEF NoWork, Key, NoPacket, Returns
  <1>4. Transfer /\ Active
    BY <1>3 DEF Transfer, Active
  <1>5. Wire'
    BY <1>1, <1>2, <1>4, WireLess
  <1>6. Feed'
    BY <1>1, <1>2, <1>4, FeedKept
  <1>7. Output'
    BY <1>1, <1>2, <1>4, OutputKept
  <1>8. Disk'
    <2>1. ~sum' => hurt'
      BY <1>1, <1>2 DEF Disk
    <2>2. QED
      BY <1>1, <1>2, <1>3, <1>4, <2>1, DiskKept
  <1>9. Table'
    BY <1>1, <1>2, TableKept
  <1>10. QED
    BY <1>5, <1>6, <1>7, <1>8, <1>9 DEF TransferInv

\* The transfer is given up: begun again, or the block file is not there.
LEMMA GivenUp ==
  GetInv /\ TransferInv /\ (ZlibError \/ ReceiveWrong \/ Timeout \/ ReceiveNotFound) => TransferInv'
  <1> SUFFICES ASSUME GetInv, TransferInv, ZlibError \/ ReceiveWrong \/ Timeout \/ ReceiveNotFound
               PROVE  TransferInv'
    OBVIOUS
  <1>1. Disk /\ Table
    BY DEF TransferInv
  <1>2. pc' \in {"restart", "failed"} /\ UNCHANGED <<image, file, files, curr, disk, holed, hurt, sum, alloc, sectptr>>
    BY Zenon DEF ZlibError, ReceiveWrong, Timeout, ReceiveNotFound, Restart, place, stream, writer, imageVars
  <1>3. pc \in {"turn", "poll"}
    BY DEF ZlibError, ReceiveWrong, Timeout, ReceiveNotFound, Arrives
  <1>4. ~Transfer' /\ ~Active'
    BY <1>2 DEF Transfer, Active
  <1>5. Disk'
    <2>1. ~sum' => hurt'
      BY <1>1, <1>2 DEF Disk
    <2>2. QED
      BY <1>1, <1>2, <1>3, <1>4, <2>1, DiskKept
  <1>6. Table'
    BY <1>1, <1>2, TableKept
  <1>7. QED
    BY <1>4, <1>5, <1>6 DEF TransferInv, Wire, Feed, Output

\* The sizes of the block file at work.
LEMMA AtWork ==
  ASSUME NetType, ClientType, pc \notin {"done", "failed"}
  PROVE  /\ image \in Volumes /\ VolumeType(image) /\ Blocks(image) \in Nat \ {0}
         /\ file \in Nat /\ file < Blocks(image) /\ file \in 0 .. Blocks(image) - 1
         /\ Size(image, file) \in Nat /\ Total(image, file) \in Nat /\ Total(image, file) > 1
         /\ FirstOf(file) \in Nat /\ Lg(image, file) * Byte \in Nat
  <1>1. image \in Volumes
    BY DEF NetType
  <1>2. VolumeType(image) /\ Blocks(image) \in Nat \ {0}
    BY <1>1, ImageOK
  <1>3. file \in 0 .. Blocks(image) /\ file < Blocks(image)
    BY DEF ClientType
  <1>4. file \in Nat /\ file < Blocks(image) /\ file \in 0 .. Blocks(image) - 1
    BY <1>2, <1>3
  <1>5. Size(image, file) \in Nat
    BY <1>1, <1>4, StreamUnits
  <1>6. Total(image, file) \in Nat /\ Total(image, file) > 1
    BY <1>5 DEF Total
  <1>7. FirstOf(file) \in Nat /\ Lg(image, file) * Byte \in Nat
    BY <1>2, <1>4, SliceType
  <1>8. QED
    BY <1>1, <1>2, <1>4, <1>5, <1>6, <1>7

\* A block file is asked for: the port is fresh, the buffers are empty.
LEMMA RequestTransfer == GetInv /\ TransferInv /\ Request => TransferInv'
  <1> SUFFICES ASSUME GetInv, TransferInv, Request PROVE TransferInv'
    OBVIOUS
  <1>1. Disk /\ Table /\ NetType /\ ClientType
    BY DEF TransferInv, GetInv
  <1>2. pc = "restart" /\ pc' = "turn"
    BY DEF Request
  <1>3. UNCHANGED <<image, file, files, curr, disk, holed, hurt, alloc>>
    BY Zenon DEF Request, place, imageVars
  <1>4. /\ lastblk' = -1 /\ tftpend' = FALSE /\ end' = 0
        /\ tbuf' = <<>> /\ compressed' = <<>> /\ seen' = 0 /\ sum' = TRUE
        /\ out' = <<>> /\ full' = FALSE
        /\ firstblock' = TRUE /\ sectptr' = 0 /\ save_sect' = curr
    BY DEF Request, Forget, Sector
  <1>5. Wire'
    BY WireRequest
  <1>6. Feed'
    <2>1. Received' = 0
      BY <1>4 DEF Received
    <2>2. Len(<<>>) = 0 /\ \A j : j \notin 1 .. 0
      OBVIOUS
    <2>3. /\ Carries(image', file', compressed', seen')
          /\ Carries(image', file', tbuf', seen' + Len(compressed'))
      BY <1>4, <2>2 DEF Carries
    <2>4. seen' + Len(compressed') + Len(tbuf') = 0
      BY <1>4, <2>2
    <2>5. QED
      BY <2>1, <2>3, <2>4 DEF Feed
  <1>7. Output'
    <2>1. Total(image, file) \in Nat /\ Total(image, file) > 1
      BY <1>1, <1>2, AtWork
    <2>2. Ending'
      BY <1>3, <1>4, <2>1 DEF Ending
    <2>3. InHeader'
      BY <1>3, <1>4 DEF InHeader
    <2>4. QED
      BY <1>4, <2>2, <2>3 DEF Output
  <1>8. Disk'
    BY <1>1, <1>2, <1>3, <1>4, DiskKept
  <1>9. Table'
    <2>1. 0 \in 0 .. ALLOCLG * Byte
      BY FormatAssumption
    <2>2. QED
      BY <1>1, <1>3, <1>4, <2>1 DEF Table
  <1>10. QED
    BY <1>5, <1>6, <1>7, <1>8, <1>9 DEF TransferInv

\* Part of the list becomes the input of inflate.
LEMMA GulpTransfer == GetInv /\ TransferInv /\ Gulp => TransferInv'
  <1> SUFFICES ASSUME GetInv, TransferInv, Gulp PROVE TransferInv'
    OBVIOUS
  <1>1. Wire /\ Feed /\ Output /\ Disk /\ Table /\ NetType /\ ClientType
    BY DEF TransferInv, GetInv
  <1>2. UNCHANGED <<image, file, files, curr, disk, firstblock, sectptr, sum, end, seen,
                    tftpend, lastblk, out, full, alloc, save_sect, tftpport, toServer, toClient, session,
                    told, holed, hurt>>
    BY Zenon DEF Gulp, place, link, writer, netVars, imageVars
  <1>3. pc = "turn" /\ pc' = "poll" /\ compressed = <<>>
    BY DEF Gulp, CanGulp
  <1>4. Transfer /\ Active
    BY <1>3 DEF Transfer, Active
  <1>5. Wire'
    BY <1>1, <1>2, <1>4, WireLess
  <1>6. Output'
    BY <1>1, <1>2, <1>4, OutputKept
  <1>7. Disk' /\ Table'
    <2>1. ~sum' => hurt'
      BY <1>1, <1>2 DEF Disk
    <2>2. QED
      BY <1>1, <1>2, <1>3, <1>4, <2>1, DiskKept, TableKept
  <1>8. Feed'
    <2>1. PICK n \in Nat :
           /\ n >= 1 /\ n <= INBUFF /\ n <= Len(tbuf)
           /\ compressed' \in Seq(UnitType) /\ Len(compressed') = n
           /\ tbuf' \in Seq(UnitType) /\ Len(tbuf') = Len(tbuf) - n
           /\ \A j \in 1 .. n : compressed'[j] = tbuf[j]
           /\ \A j \in 1 .. Len(tbuf) - n : tbuf'[j] = tbuf[n + j]
      BY <1>1, GulpIs
    <2>2. PICK w \in Nat : w = seen
      BY <1>1 DEF ClientType
    <2>3. PICK t \in Nat : t = Len(tbuf)
      BY <1>1, LenProperties DEF ClientType
    <2>4. Len(compressed) = 0
      BY <1>3
    <2>5. /\ Carries(image, file, tbuf, seen + Len(compressed))
          /\ seen + Len(compressed) + Len(tbuf) = Received
      BY <1>1, <1>4 DEF Feed
    <2>6. w + 0 = w /\ w + 0 + t = w + n + (t - n) /\ w + t = w + n + (t - n)
      BY <2>1, <2>2, <2>3
    <2>7. \A j \in 1 .. t : UnitAt(image, file, tbuf[j], w + j)
      BY <2>2, <2>3, <2>4, <2>5, <2>6 DEF Carries
    <2>8. \A j \in 1 .. n : UnitAt(image, file, compressed'[j], w + j)
      <3>1. \A j \in 1 .. n : j \in 1 .. t
        BY <2>1, <2>3
      <3>2. QED
        BY <2>1, <2>7, <3>1
    <2>9. ASSUME NEW j \in 1 .. t - n PROVE UnitAt(image, file, tbuf'[j], w + n + j)
      <3>1. n + j \in 1 .. t /\ w + n + j = w + (n + j)
        BY <2>1, <2>2, <2>3
      <3>2. tbuf'[j] = tbuf[n + j]
        BY <2>1, <2>3
      <3>3. QED
        BY <2>7, <3>1, <3>2
    <2>10. /\ Carries(image, file, compressed', w)
           /\ Carries(image, file, tbuf', w + n)
      BY <2>1, <2>3, <2>8, <2>9 DEF Carries
    <2>11. Received' = Received
      BY <1>2 DEF Received
    <2>12. w + n + (t - n) = Received
      BY <2>2, <2>3, <2>4, <2>5, <2>6
    <2>13. QED
      BY <1>2, <2>1, <2>2, <2>3, <2>10, <2>11, <2>12 DEF Feed
  <1>9. QED
    BY <1>5, <1>6, <1>7, <1>8 DEF TransferInv

\* The packet taken is the next one of the block file.
LEMMA NextPacket ==
  ASSUME NEW n \in Int, n < WORD, n >= -1, NEW v, NEW f, NEW m, m.op = "DATA", m.block \in 0 .. WORD - 1,
         m.block = n + 1, Brings(v, f, m, n)
  PROVE  n \in Nat /\ Carrier(v, f, m, n + 1)
  <1>1. PICK b \in 1 .. n + 1 : Carrier(v, f, m, b)
    BY DEF Brings
  <1>2. m.block = b % WORD
    BY <1>1 DEF Carrier
  <1>3. b \in Nat /\ b >= 1 /\ b <= n + 1
    OBVIOUS
  <1>4. n + 1 < WORD
    BY WordNat
  <1>5. b % WORD = b
    BY <1>3, <1>4, WordNat, WordMod
  <1>6. b = n + 1 /\ n \in Nat
    BY <1>2, <1>3, <1>5
  <1>7. QED
    BY <1>1, <1>6

\* The OACK, and a packet in its turn.
LEMMA ReceiveTransfer == GetInv /\ TransferInv /\ (ReceiveOack \/ ReceiveData) => TransferInv'
  <1> SUFFICES ASSUME GetInv, TransferInv, ReceiveOack \/ ReceiveData PROVE TransferInv'
    OBVIOUS
  <1>1. Wire /\ Feed /\ Output /\ Disk /\ Table /\ NetType /\ ClientType
    BY DEF TransferInv, GetInv
  <1>2. /\ UNCHANGED <<image, file, files, curr, disk, firstblock, sectptr, sum, end, seen, compressed,
                       out, full, alloc, save_sect, tftpport, session, told, holed, hurt>>
        /\ pc' = AfterPacket
    BY Zenon DEF ReceiveOack, ReceiveData, place, stream, writer, imageVars
  <1>3. PICK m \in toClient :
          /\ Arrives(m)
          /\ toServer' = toServer \union {Ack(tftpport, lastblk')}
          /\ \/ m.op = "OACK" /\ lastblk = -1 /\ lastblk' = 0 /\ tbuf' = tbuf /\ tftpend' = tftpend
             \/ /\ m.op = "DATA" /\ m.block = lastblk + 1 /\ lastblk' = m.block
                /\ tbuf' = tbuf \o m.data /\ tftpend' = (Len(m.data) < TFTPBLOCK)
    BY DEF ReceiveOack, ReceiveData
  <1>4. /\ toClient' \subseteq toClient
        /\ pc = "poll" /\ ~full /\ ~tftpend /\ m.port = tftpport /\ m \in PacketType
    BY <1>1, <1>3, ArrivesType
  <1>5. Transfer /\ Active /\ pc' \in {"turn", "return"} /\ (pc' = "return" => end' = 2)
    BY <1>2, <1>4 DEF Transfer, Active, AfterPacket
  <1>6. PICK n \in Int : n = lastblk /\ n >= -1 /\ n < WORD
    BY <1>1, WordNat DEF ClientType
  <1>7. m.block \in 0 .. WORD - 1 /\ m.data \in Seq(UnitType)
    BY <1>4 DEF PacketType
  <1>8. PICK o \in Nat : o = lastblk' /\ o < WORD /\ n <= o /\ (m.op = "DATA" => o = n + 1)
    BY <1>3, <1>6, <1>7, WordNat
  <1>9. Wire'
    <2>1. Asks(Ack(tftpport, o), file, o)
      <3>1. o % WORD = o
        BY <1>8, WordMod
      <3>2. QED
        BY <1>8, <3>1 DEF Asks, Ack
    <2>2. \A r \in toServer' : r \in toServer \/ Asks(r, file, lastblk')
      BY <1>3, <1>8, <2>1
    <2>3. lastblk' \in Int /\ lastblk <= lastblk'
      BY <1>6, <1>8
    <2>4. QED
      BY <1>1, <1>2, <1>4, <1>5, <2>2, <2>3, WireStep
  <1>10. Output'
    BY <1>1, <1>2, <1>5, OutputKept
  <1>11. Disk' /\ Table'
    <2>1. ~sum' => hurt'
      BY <1>1, <1>2 DEF Disk
    <2>2. QED
      BY <1>1, <1>2, <1>4, <1>5, <2>1, DiskKept, TableKept
  <1>12. Feed'
    <2>1. /\ Carries(image, file, compressed, seen)
          /\ Carries(image, file, tbuf, seen + Len(compressed))
          /\ seen + Len(compressed) + Len(tbuf) = Received
      BY <1>1, <1>5 DEF Feed
    <2>2. CASE m.op = "OACK"
      <3>1. lastblk = -1 /\ lastblk' = 0 /\ tbuf' = tbuf /\ tftpend' = tftpend
        BY <1>3, <2>2
      <3>2. Received = 0 /\ Received' = 0
        <4>1. 0 * TFTPBLOCK = 0 /\ 0 # -1
          BY GetAssumption
        <4>2. QED
          BY <1>4, <3>1, <4>1 DEF Received
      <3>3. QED
        BY <1>2, <2>1, <3>1, <3>2 DEF Feed
    <2>3. CASE m.op = "DATA"
      <3>1. m.block = n + 1 /\ lastblk' = n + 1 /\ tbuf' = tbuf \o m.data /\ tftpend' = (Len(m.data) < TFTPBLOCK)
        BY <1>3, <1>6, <2>3
      <3>2. Brings(image, file, m, n)
        BY <1>1, <1>4, <1>5, <1>6 DEF Wire
      <3>3. n \in Nat /\ Carrier(image, file, m, n + 1)
        BY <1>6, <1>7, <2>3, <3>1, <3>2, NextPacket
      <3>4. PICK a \in Nat : a = n * TFTPBLOCK
        BY <3>3, GetAssumption
      <3>5. (n + 1 - 1) * TFTPBLOCK = a /\ (n + 1) * TFTPBLOCK = a + TFTPBLOCK
        BY <3>3, <3>4, GetAssumption
      <3>6. Received = a
        <4>1. n # -1
          BY <3>3
        <4>2. QED
          BY <1>4, <1>6, <3>4, <4>1 DEF Received
      <3>7. PICK x \in Nat : x = seen + Len(compressed)
        BY <1>1, LenProperties DEF ClientType
      <3>8. PICK t \in Nat : t = Len(tbuf)
        BY <1>1, LenProperties DEF ClientType
      <3>9. PICK l \in Nat : l = Len(m.data)
        BY <1>7, LenProperties
      <3>10. x + t = a
        BY <2>1, <3>6, <3>7, <3>8
      <3>11. /\ \A j \in 1 .. l : UnitAt(image, file, m.data[j], a + j)
             /\ l <= TFTPBLOCK
             /\ l = TFTPBLOCK \/ a + l = Total(image, file)
        BY <3>3, <3>5, <3>9 DEF Carrier, Carries
      <3>12. /\ Len(tbuf') = t + l
             /\ \A j \in 1 .. t + l : tbuf'[j] = IF j <= t THEN tbuf[j] ELSE m.data[j - t]
        BY <1>1, <1>7, <3>1, <3>8, <3>9, ConcatProperties DEF ClientType
      <3>13. ASSUME NEW j \in 1 .. t + l PROVE UnitAt(image, file, tbuf'[j], x + j)
        <4>1. j \in Nat /\ j >= 1 /\ j <= t + l
          BY <3>8, <3>9
        <4>2. CASE j <= t
          <5>1. j \in 1 .. t
            BY <3>8, <4>1, <4>2
          <5>2. UnitAt(image, file, tbuf[j], x + j)
            BY <2>1, <3>7, <3>8, <5>1 DEF Carries
          <5>3. QED
            BY <3>12, <4>2, <5>2
        <4>3. CASE ~(j <= t)
          <5>1. j - t \in 1 .. l /\ a + (j - t) = x + j
            BY <3>7, <3>8, <3>9, <3>10, <4>1, <4>3, SMTT(30)
          <5>2. QED
            BY <3>11, <3>12, <4>3, <5>1
        <4>4. QED
          BY <4>2, <4>3
      <3>14. Carries(image, file, tbuf', x)
        BY <3>12, <3>13 DEF Carries
      <3>15. x + (t + l) = a + l
        BY <3>7, <3>8, <3>9, <3>10, SMTT(30)
      <3>16. Received' = a + l
        <4>1. CASE l < TFTPBLOCK
          <5>1. l # TFTPBLOCK
            BY <3>9, <4>1, GetAssumption
          <5>2. tftpend' = TRUE
            BY <3>1, <3>9, <4>1
          <5>3. QED
            BY <1>2, <3>11, <5>1, <5>2 DEF Received
        <4>2. CASE ~(l < TFTPBLOCK)
          <5>1. l = TFTPBLOCK
            BY <3>9, <3>11, <4>2, GetAssumption
          <5>2. ~tftpend'
            BY <3>1, <3>9, <4>2
          <5>3. lastblk' # -1
            BY <3>1, <3>3
          <5>4. QED
            BY <3>1, <3>5, <5>1, <5>2, <5>3 DEF Received
        <4>3. QED
          BY <4>1, <4>2
      <3>17. x = seen' + Len(compressed') /\ Carries(image', file', compressed', seen')
        BY <1>2, <2>1, <3>7
      <3>18. QED
        BY <1>2, <3>12, <3>14, <3>15, <3>16, <3>17 DEF Feed
    <2>4. QED
      BY <1>3, <2>2, <2>3
  <1>13. QED
    BY <1>9, <1>10, <1>11, <1>12 DEF TransferInv

\* A unit that is not damaged is the header, a sector or the end by its number.
LEMMA UnitKinds ==
  ASSUME NEW v, NEW f, Size(v, f) \in Nat, NEW u, NEW k \in Nat, UnitAt(v, f, u, k),
         u.unit.is # "bad"
  PROVE  /\ k >= 1 /\ k <= Total(v, f)
         /\ u.unit.is = "header" <=> k = 1
         /\ u.unit.is = "end" <=> k = Total(v, f)
         /\ u.unit.file = f /\ u.k = k /\ u.unit.data = DataOf(v, f, k)
  <1>1. k >= 1 /\ k <= Total(v, f) /\ Total(v, f) > 1
    BY DEF UnitAt, Total
  <1>2. u.unit.file = f /\ u.k = k /\ u.unit.data = DataOf(v, f, k)
    BY DEF UnitAt
  <1>3. u.unit.is = Kind(v, f, k)
    BY DEF UnitAt
  <1>4. (Kind(v, f, k) = "header" <=> k = 1) /\ (Kind(v, f, k) = "end" <=> k = Total(v, f))
    BY <1>1 DEF Kind, Total
  <1>5. QED
    BY <1>1, <1>2, <1>3, <1>4

LEMMA FlushedNat ==
  ASSUME NetType, ClientType, pc \notin {"done", "failed"}, sectptr \in Nat
  PROVE  Flushed \in Nat /\ Flushed <= Size(image, file)
  <1>1. PICK x \in Int : x = FirstOf(file) + sectptr
    BY AtWork
  <1>2. Rank(image, file, x) \in Nat /\ Rank(image, file, x) <= Size(image, file)
    BY AtWork, RankNext
  <1>3. QED
    BY <1>1, <1>2 DEF Flushed

\* Inflate goes through the stream in order: the header alone, sectors, the end.
LEMMA InflateTransfer == GetInv /\ TransferInv /\ Inflate => TransferInv'
  <1> SUFFICES ASSUME GetInv, TransferInv, Inflate PROVE TransferInv'
    OBVIOUS
  <1>1. Wire /\ Feed /\ Output /\ Disk /\ Table /\ NetType /\ ClientType
    BY DEF TransferInv, GetInv
  <1>2. UNCHANGED <<image, file, files, curr, disk, firstblock, sectptr, tbuf, alloc, save_sect,
                    tftpend, lastblk, tftpport, toServer, toClient, session, sum, told, holed, hurt>>
    BY Zenon DEF Inflate, place, link, writer, netVars, imageVars
  <1>3. pc = "turn" /\ pc' = "poll" /\ ~full /\ end = 0 /\ sum
    BY DEF Inflate, CanInflate
  <1>4. Transfer /\ Active /\ Active' /\ pc \notin {"done", "failed"}
    BY <1>3 DEF Transfer, Active
  <1>5. PICK n \in Takes :
           /\ \A j \in 1 .. n : Sound(j)
           /\ out' \in Seq(UnitType) /\ Len(out') = Len(out) + Kept(n)
           /\ \A j \in 1 .. Len(out) : out'[j] = out[j]
           /\ \A j \in 1 .. Kept(n) : out'[Len(out) + j] = compressed[j]
           /\ compressed' \in Seq(UnitType) /\ Len(compressed') = Len(compressed) - n
           /\ \A j \in 1 .. Len(compressed) - n : compressed'[j] = compressed[n + j]
           /\ full' = (\/ compressed[n].unit.is = "end" \/ compressed[1].unit.is = "header"
                       \/ Len(out') = TOTALLG)
           /\ end' = IF compressed[n].unit.is = "end" THEN 1 ELSE end
           /\ seen' = seen + n
    BY <1>1, InflateIs
  <1>6. /\ n \in Nat /\ n >= 1 /\ n <= Len(compressed)
        /\ Kept(n) \in Nat /\ Kept(n) <= n
        /\ n > 1 => \A j \in 1 .. n - 1 : compressed[j].unit.is = "sector"
        /\ \/ n = 1 /\ compressed[1].unit.is = "header"
           \/ compressed[n].unit.is \in {"sector", "end"}
    BY <1>1, <1>3, TakesFit
  <1>7. PICK w \in Nat : w = seen
    BY <1>1 DEF ClientType
  <1>8. PICK c \in Nat : c = Len(compressed)
    BY <1>1, LenProperties DEF ClientType
  <1>9. /\ \A j \in 1 .. c : UnitAt(image, file, compressed[j], w + j)
        /\ Carries(image, file, tbuf, w + c)
        /\ w + c + Len(tbuf) = Received
    BY <1>1, <1>4, <1>7, <1>8 DEF Feed, Carries
  <1>10. Size(image, file) \in Nat /\ Total(image, file) \in Nat
    BY <1>1, <1>4, AtWork
  <1>11. Wire'
    BY <1>1, <1>2, <1>4, WireLess
  <1>12. Feed'
    <2>1. ASSUME NEW j \in 1 .. c - n PROVE UnitAt(image, file, compressed'[j], w + n + j)
      <3>1. n + j \in 1 .. c /\ w + n + j = w + (n + j)
        BY <1>6, <1>7, <1>8
      <3>2. compressed'[j] = compressed[n + j]
        BY <1>5, <1>8
      <3>3. QED
        BY <1>9, <3>1, <3>2
    <2>2. Carries(image, file, compressed', w + n)
      BY <1>5, <1>8, <2>1 DEF Carries
    <2>3. w + n + (c - n) = w + c
      BY <1>6, <1>7, <1>8
    <2>4. Received' = Received
      BY <1>2 DEF Received
    <2>5. seen' = w + n /\ Len(compressed') = c - n
      BY <1>5, <1>7, <1>8
    <2>6. QED
      BY <1>2, <1>9, <2>2, <2>3, <2>4, <2>5 DEF Feed
  <1>13. Disk' /\ Table'
    <2>1. ~sum' => hurt'
      BY <1>2, <1>3
    <2>2. QED
      BY <1>1, <1>2, <1>3, <1>4, <2>1, DiskKept, TableKept
  <1>14. PICK T \in Nat : T = Total(image, file)
    BY <1>10
  <1>15. w + n <= T /\ (compressed[n].unit.is = "end" <=> w + n = T)
    <2>1. n \in 1 .. c /\ w + n \in Nat
      BY <1>6, <1>7, <1>8
    <2>2. UnitAt(image, file, compressed[n], w + n)
      BY <1>9, <2>1
    <2>3. compressed[n].unit.is # "bad"
      BY <1>5, <1>6, <2>1 DEF Sound
    <2>4. QED
      BY <1>10, <1>14, <2>1, <2>2, <2>3, UnitKinds
  <1>16. end' = (IF w + n = T THEN 1 ELSE 0) /\ seen' = w + n
         /\ Kept(n) = (IF w + n = T THEN n - 1 ELSE n)
    BY <1>3, <1>5, <1>7, <1>15 DEF Kept
  <1>17. (end' = 1 => full') /\ sum'
    BY <1>2, <1>3, <1>5, <1>15, <1>16
  <1>18. Ending'
    <2>1. end' \in {0, 1} /\ (end' = 0 => w + n < T) /\ (end' = 1 => w + n = T)
      <3>1. PICK x \in Nat : x = w + n
        BY <1>6
      <3>2. x <= T /\ end' = IF x = T THEN 1 ELSE 0
        BY <1>15, <1>16, <3>1
      <3>3. end' \in {0, 1} /\ (end' = 0 => x < T) /\ (end' = 1 => x = T)
        BY <3>2
      <3>4. QED
        BY <3>1, <3>3
    <2>2. QED
      BY <1>2, <1>14, <1>16, <1>17, <2>1 DEF Ending
  <1>19. CASE firstblock
    <2>1. sectptr = 0 /\ save_sect = curr /\ w = 0 /\ out = <<>>
      BY <1>1, <1>3, <1>4, <1>7, <1>19 DEF Output, InHeader
    <2>2. 1 \in 1 .. c /\ w + 1 = 1
      BY <1>6, <1>8, <2>1
    <2>3. compressed[1].unit.is = "header" /\ compressed[1].unit.file = file
      <3>1. UnitAt(image, file, compressed[1], 1)
        BY <1>9, <2>2
      <3>2. 1 \in 1 .. n
        BY <1>6
      <3>3. compressed[1].unit.is # "bad"
        BY <1>5, <3>2 DEF Sound
      <3>4. QED
        BY <1>10, <3>1, <3>3, UnitKinds
    <2>4. n = 1
      <3>1. CASE n > 1
        <4>1. 1 \in 1 .. n - 1
          BY <1>6, <3>1
        <4>2. QED
          BY <1>6, <2>3, <3>1, <4>1
      <3>2. QED
        BY <1>6, <3>1
    <2>5. T > 1
      BY <1>1, <1>4, <1>14, AtWork
    <2>6. seen' = 1 /\ end' = 0 /\ Kept(n) = 1
      BY <1>16, <2>1, <2>4, <2>5
    <2>7. full'
      BY <1>5, <2>3
    <2>8. Len(out) = 0
      BY <2>1
    <2>9. Len(out') = 1
      BY <1>5, <2>6, <2>8
    <2>10. out'[1] = compressed[1]
      <3>1. 1 \in 1 .. Kept(n) /\ Len(out) + 1 = 1
        BY <2>6, <2>8
      <3>2. QED
        BY <1>5, <3>1
    <2>11. out'[1].unit.file = file /\ out'[1].unit.is = "header"
      BY <2>3, <2>10
    <2>12. InHeader'
      BY <1>2, <1>17, <2>1, <2>6, <2>7, <2>9, <2>11 DEF InHeader
    <2>13. QED
      BY <1>2, <1>11, <1>12, <1>13, <1>18, <1>19, <2>12 DEF TransferInv, Output
  <1>20. CASE ~firstblock
    <2>1. InData
      BY <1>1, <1>3, <1>4, <1>20 DEF Output
    <2>2. PICK l \in Nat : l = Len(out)
      BY <1>1, LenProperties DEF ClientType
    <2>3. Flushed' = Flushed
      BY <1>2 DEF Flushed
    <2>4. PICK g \in Nat : g = Flushed
      <3>1. sectptr \in Nat
        BY <1>1, FormatAssumption DEF Table
      <3>2. QED
        BY <1>1, <1>4, <3>1, FlushedNat
    <2>5. w = 1 + g + l
      <3>1. ~(end > 0)
        BY <1>3
      <3>2. w = 1 + g + l + 0
        BY <1>7, <2>1, <2>2, <2>4, <3>1 DEF InData
      <3>3. QED
        BY <2>2, <2>4, <3>2
    <2>6. w + n = 1 + g + (l + Kept(n)) + (IF end' > 0 THEN 1 ELSE 0)
      <3>1. CASE w + n = T
        <4>1. end' > 0 /\ Kept(n) = n - 1
          BY <1>16, <3>1
        <4>2. n \in Nat /\ w \in Nat
          BY <1>6, <1>7
        <4>3. w + n = 1 + g + (l + (n - 1)) + 1
          BY <2>5, <4>2
        <4>4. QED
          BY <4>1, <4>3
      <3>2. CASE w + n # T
        <4>1. ~(end' > 0) /\ Kept(n) = n
          BY <1>16, <3>2
        <4>2. n \in Nat
          BY <1>6
        <4>3. w + n = 1 + g + (l + n) + 0
          BY <2>5, <4>2
        <4>4. QED
          BY <4>1, <4>3
      <3>3. QED
        BY <3>1, <3>2
    <2>7. ASSUME NEW j \in 1 .. Len(out')
          PROVE  out'[j].unit.data = DataOf(image, file, 1 + g + j)
      <3>2. j \in Nat /\ j >= 1 /\ j <= l + Kept(n)
        BY <1>5, <1>6, <2>2
      <3>3. CASE j <= l
        <4>1. j \in 1 .. Len(out)
          BY <2>2, <3>2, <3>3
        <4>2. out'[j] = out[j]
          BY <1>5, <4>1
        <4>3. QED
          BY <2>1, <2>4, <4>1, <4>2 DEF InData
      <3>4. CASE ~(j <= l)
        <4>1. PICK i \in Nat : i = j - l /\ i \in 1 .. Kept(n) /\ i \in 1 .. n /\ i \in 1 .. c
          BY <1>6, <1>8, <2>2, <3>2, <3>4
        <4>2. Len(out) + i = j /\ w + i = 1 + g + j
          BY <2>2, <2>4, <2>5, <3>2, <4>1
        <4>3. out'[j] = compressed[i]
          BY <1>5, <4>1, <4>2
        <4>4. UnitAt(image, file, compressed[i], 1 + g + j)
          BY <1>9, <4>1, <4>2
        <4>5. QED
          BY <4>3, <4>4 DEF UnitAt
      <3>5. QED
        BY <3>3, <3>4
    <2>8. InData'
      <3>1. /\ alloc' = [of |-> file', bits |-> {s - FirstOf(file') : s \in UsedIn(image', file')}]
            /\ save_sect' = curr' + Lg(image', file') * Byte /\ files' = Blocks(image')
        BY <1>2, <2>1 DEF InData
      <3>2. Len(out') = l + Kept(n)
        BY <1>5, <2>2
      <3>3. seen' = 1 + Flushed' + Len(out') + (IF end' > 0 THEN 1 ELSE 0)
        BY <1>16, <2>3, <2>4, <2>6, <3>2
      <3>4. \A j \in 1 .. Len(out') : out'[j].unit.data = DataOf(image', file', 1 + Flushed' + j)
        BY <1>2, <2>3, <2>4, <2>7
      <3>5. QED
        BY <3>1, <3>3, <3>4 DEF InData
    <2>9. QED
      BY <1>2, <1>11, <1>12, <1>13, <1>18, <1>20, <2>8 DEF TransferInv, Output
  <1>21. QED
    BY <1>19, <1>20

\* Damage: from here on nothing is known of the output but how much of it fits.
LEMMA DamagedTransfer == GetInv /\ TransferInv /\ InflateDamaged => TransferInv'
  <1> SUFFICES ASSUME GetInv, TransferInv, InflateDamaged PROVE TransferInv'
    OBVIOUS
  <1>1. Wire /\ Feed /\ Output /\ Disk /\ Table /\ NetType /\ ClientType
    BY DEF TransferInv, GetInv
  <1>2. UNCHANGED <<image, file, files, curr, disk, firstblock, sectptr, tbuf, alloc, save_sect, end,
                    tftpend, lastblk, tftpport, toServer, toClient, session, told, holed>>
    BY Zenon DEF InflateDamaged, place, link, writer, netVars, imageVars
  <1>3. pc = "turn" /\ pc' = "poll" /\ ~full /\ end = 0 /\ sum' = FALSE /\ hurt' = TRUE
    BY DEF InflateDamaged, CanInflate
  <1>4. Transfer /\ Active /\ Active' /\ pc \notin {"done", "failed"}
    BY <1>3 DEF Transfer, Active
  <1>5. firstblock => InHeader /\ out = <<>>
    BY <1>1, <1>3, <1>4 DEF Output, InHeader
  <1>6. PICK n \in Nat :
           /\ n >= 1 /\ n <= Len(compressed)
           /\ compressed' \in Seq(UnitType) /\ Len(compressed') = Len(compressed) - n
           /\ \A j \in 1 .. Len(compressed) - n : compressed'[j] = compressed[n + j]
           /\ seen' = seen + n
           /\ firstblock => IF full' THEN Len(out') = 1 /\ out'[1].unit.is = "bad" ELSE out' = <<>>
    BY <1>1, <1>5, DamagedIs, Zenon
  <1>7. PICK w \in Nat : w = seen
    BY <1>1 DEF ClientType
  <1>8. PICK c \in Nat : c = Len(compressed)
    BY <1>1, LenProperties DEF ClientType
  <1>9. /\ \A j \in 1 .. c : UnitAt(image, file, compressed[j], w + j)
        /\ Carries(image, file, tbuf, w + c)
        /\ w + c + Len(tbuf) = Received
    BY <1>1, <1>4, <1>7, <1>8 DEF Feed, Carries
  <1>10. Wire'
    BY <1>1, <1>2, <1>4, WireLess
  <1>11. Feed'
    <2>1. ASSUME NEW j \in 1 .. c - n PROVE UnitAt(image, file, compressed'[j], w + n + j)
      <3>1. n + j \in 1 .. c /\ w + n + j = w + (n + j)
        BY <1>6, <1>7, <1>8
      <3>2. compressed'[j] = compressed[n + j]
        BY <1>6, <1>8
      <3>3. QED
        BY <1>9, <3>1, <3>2
    <2>2. Carries(image, file, compressed', w + n)
      BY <1>6, <1>8, <2>1 DEF Carries
    <2>3. w + n + (c - n) = w + c
      BY <1>6, <1>7, <1>8
    <2>4. Received' = Received
      BY <1>2 DEF Received
    <2>5. seen' = w + n /\ Len(compressed') = c - n
      BY <1>6, <1>7, <1>8
    <2>6. QED
      BY <1>2, <1>9, <2>2, <2>3, <2>4, <2>5 DEF Feed
  <1>12. Disk' /\ Table'
    BY <1>1, <1>2, <1>3, <1>4, DiskKept, TableKept
  <1>13. Output'
    <2>1. Ending'
      BY <1>2, <1>3 DEF Ending
    <2>2. ASSUME firstblock PROVE InHeader'
      <3>1. sectptr = 0 /\ save_sect = curr
        BY <1>5, <2>2 DEF InHeader
      <3>2. IF full' THEN Len(out') = 1 /\ out'[1].unit.is = "bad" ELSE out' = <<>>
        BY <1>6, <2>2
      <3>3. QED
        BY <1>2, <1>3, <3>1, <3>2, Zenon DEF InHeader
    <2>3. QED
      BY <1>2, <1>3, <2>1, <2>2 DEF Output
  <1>14. QED
    BY <1>10, <1>11, <1>12, <1>13 DEF TransferInv

\* The bits of a slice fit in alloc[].
LEMMA TrueTable ==
  ASSUME NEW v, VolumeType(v), NEW f \in Nat, f < Blocks(v)
  PROVE  {s - FirstOf(f) : s \in UsedIn(v, f)} \subseteq 0 .. ALLOCLG * Byte - 1
  <1> SUFFICES ASSUME NEW s \in UsedIn(v, f) PROVE s - FirstOf(f) \in 0 .. ALLOCLG * Byte - 1
    OBVIOUS
  <1>1. PICK g \in Nat : g = Lg(v, f) * Byte /\ g <= ALLOCLG * Byte
    BY SliceType
  <1>2. PICK a \in Nat : a = ALLOCLG * Byte
    BY FormatAssumption
  <1>3. PICK F \in Nat : F = FirstOf(f)
    BY SliceType
  <1>4. s \in Nat /\ s >= F /\ s < F + g
    BY <1>1, <1>3, UsedType
  <1>5. s - F \in 0 .. a - 1
    BY <1>1, <1>2, <1>4
  <1>6. QED
    BY <1>2, <1>3, <1>5

\* The header is read: the sectors of the block file come next, or junk.
LEMMA HeaderTransfer == GetInv /\ TransferInv /\ FlushHeader => TransferInv'
  <1> SUFFICES ASSUME GetInv, TransferInv, FlushHeader PROVE TransferInv'
    OBVIOUS
  <1>1. Wire /\ Feed /\ Output /\ Disk /\ Table /\ NetType /\ ClientType
    BY DEF TransferInv, GetInv
  <1>2. UNCHANGED <<image, file, curr, disk, sum, seen, compressed, tbuf, told, holed, hurt,
                    tftpend, lastblk, tftpport, toServer, toClient, session>>
    BY Zenon DEF FlushHeader, link, netVars, imageVars
  <1>3. /\ pc = "turn" /\ pc' = "poll" /\ full /\ firstblock /\ firstblock' = FALSE
        /\ sectptr' = 0
        /\ full' = FALSE /\ out' = <<>> /\ end' = (IF end = 1 THEN 2 ELSE end)
    BY DEF FlushHeader, Emptied
  <1>4. PICK f : f = out[1].unit.file
    OBVIOUS
  <1>5. \/ /\ out[1].unit.is = "header"
           /\ alloc' = [of |-> f, bits |-> {s - FirstOf(f) : s \in UsedIn(image, f)}]
           /\ save_sect' = save_sect + Lg(image, f) * Byte
           /\ files' = IF f = 0 THEN Blocks(image) ELSE files
        \/ /\ out[1].unit.is = "bad" /\ alloc' = NoTable
           /\ files' \in {files} \union (IF file = 0 THEN Misread ELSE {})
    BY <1>4 DEF FlushHeader, val_ALLOCTABLELG, exist_BLOCKS
  <1>6. Transfer /\ Active /\ Active' /\ pc \notin {"done", "failed"}
    BY <1>3 DEF Transfer, Active
  <1>7. /\ sectptr = 0 /\ save_sect = curr /\ end = 0
        /\ IF sum THEN seen = 1 /\ out[1].unit.is = "header" /\ out[1].unit.file = file
           ELSE out[1].unit.is = "bad"
    BY <1>1, <1>3, <1>6 DEF Output, InHeader
  <1>8. end' = 0 /\ file \in Nat
    BY <1>1, <1>3, <1>6, <1>7, AtWork
  <1>9. ASSUME sum
        PROVE  /\ f = file /\ files' = Blocks(image)
               /\ alloc' = [of |-> file, bits |-> {s - FirstOf(file) : s \in UsedIn(image, file)}]
               /\ save_sect' = curr + Lg(image, file) * Byte
    <2>1. f = file /\ out[1].unit.is = "header"
      BY <1>4, <1>7, <1>9
    <2>2. file > 0 => files = Blocks(image)
      BY <1>1 DEF Disk
    <2>3. /\ alloc' = [of |-> f, bits |-> {s - FirstOf(f) : s \in UsedIn(image, f)}]
          /\ save_sect' = save_sect + Lg(image, f) * Byte
          /\ files' = IF f = 0 THEN Blocks(image) ELSE files
      BY <1>5, <2>1
    <2>4. QED
      BY <1>7, <1>8, <2>1, <2>2, <2>3
  <1>10. file > 0 => files' = Blocks(image)
    <2>1. CASE sum
      BY <1>9, <2>1
    <2>2. CASE ~sum
      <3>1. file > 0 => files = Blocks(image)
        BY <1>1 DEF Disk
      <3>2. files' \in {files} \union (IF file = 0 THEN Misread ELSE {})
        BY <1>5, <1>7, <2>2
      <3>3. QED
        BY <1>8, <3>1, <3>2
    <2>3. QED
      BY <2>1, <2>2
  <1>11. Wire'
    BY <1>1, <1>2, <1>6, WireLess
  <1>12. Feed'
    BY <1>1, <1>2, <1>6, FeedKept
  <1>13. Table'
    <2>1. 0 \in 0 .. ALLOCLG * Byte
      BY FormatAssumption
    <2>2. CASE sum
      <3>1. {s - FirstOf(file) : s \in UsedIn(image, file)} \subseteq 0 .. ALLOCLG * Byte - 1
        BY <1>1, <1>6, AtWork, TrueTable
      <3>2. QED
        BY <1>3, <1>9, <2>1, <2>2, <3>1 DEF Table
    <2>3. CASE ~sum
      <3>1. alloc' = NoTable
        BY <1>5, <1>7, <2>3
      <3>2. QED
        BY <1>3, <2>1, <3>1 DEF Table, NoTable
    <2>4. QED
      BY <2>2, <2>3
  <1>14. PICK F \in Nat : F = FirstOf(file)
    BY <1>1, <1>6, AtWork
  <1>15. FirstOf(file) + sectptr' = FirstOf(file)
    BY <1>3, <1>14
  <1>16. Flushed' = 0
    <2>1. Rank(image, file, FirstOf(file)) = 0
      BY <1>1, <1>6, AtWork, RankEnds
    <2>2. QED
      BY <1>2, <1>15, <2>1 DEF Flushed
  <1>17. Output'
    <2>1. sum => seen < Total(image, file)
      BY <1>1, <1>6, <1>7 DEF Output, Ending
    <2>2. Ending'
      BY <1>2, <1>3, <1>8, <2>1 DEF Ending
    <2>3. ASSUME sum PROVE InData'
      <3>1. Len(out') = 0 /\ \A j : j \notin 1 .. 0
        BY <1>3
      <3>2. seen' = 1 + Flushed' + Len(out') + (IF end' > 0 THEN 1 ELSE 0)
        BY <1>2, <1>7, <1>8, <1>16, <2>3, <3>1
      <3>3. QED
        BY <1>2, <1>9, <2>3, <3>1, <3>2 DEF InData
    <2>4. QED
      BY <1>2, <1>3, <2>2, <2>3 DEF Output
  <1>18. Disk'
    <2>1. ASSUME NEW s \in UsedIn(image', file'), s < FirstOf(file') + sectptr' PROVE Placed(disk', s)
      <3>1. s \in UsedIn(image, file) /\ s < F
        BY <1>2, <1>14, <1>15, <2>1
      <3>2. s \in Nat /\ s >= F
        BY <1>1, <1>6, <1>14, <3>1, AtWork, UsedType
      <3>3. QED
        BY <1>14, <3>1, <3>2
    <2>2. pc' # "done" => curr' = Start + FirstOf(file')
      BY <1>1, <1>2, <1>3 DEF Disk
    <2>3. file' > 0 => files' = Blocks(image')
      BY <1>2, <1>10
    <2>4. ~holed' => \A g \in 0 .. file' - 1 : \A s \in UsedIn(image', g) : Placed(disk', s)
      BY <1>1, <1>2, Zenon DEF Disk
    <2>5. \A d \in DOMAIN disk' : disk'[d] # Old => d - Start \in image'.used \/ (hurt' /\ d >= Start)
      BY <1>1, <1>2, Zenon DEF Disk
    <2>6. ~sum' => hurt'
      BY <1>1, <1>2 DEF Disk
    <2>7. QED
      BY <1>3, <2>1, <2>2, <2>3, <2>4, <2>5, <2>6 DEF Disk
  <1>19. QED
    BY <1>11, <1>12, <1>13, <1>17, <1>18 DEF TransferInv

\* A buffer in terms of the bits: so many of its sectors have one, those with a place
\* on the disk, the one that goes to d, and what is wrong with a write.
Hits == Min({Len(out), Cardinality(Ahead)})
Fit == {j \in 1 .. Hits : Place(j) < DiskSize}
At(l, d) == {j \in Fit \ l : Place(j) = d}
Wrong(l, r) == l # {} \/ Fit # 1 .. Hits \/ Cardinality(r) < Len(out) - Hits

LEMMA FlushIs ==
  ASSUME FlushData
  PROVE  \E l \in SUBSET Fit : \E r \in SUBSET Astray :
           /\ Cardinality(r) <= Len(out) - Hits
           /\ disk' = [d \in DOMAIN disk |->
                        IF At(l, d) # {} THEN out[CHOOSE j \in At(l, d) : TRUE].unit.data
                        ELSE IF d \in r THEN Garbage ELSE disk[d]]
           /\ told' = (told \/ Wrong(l, r))
  BY Zenon DEF FlushData, Hits, Fit, At, Wrong

LEMMA AheadIs ==
  ASSUME Table
  PROVE  /\ IsFiniteSet(Ahead) /\ Ahead \subseteq Nat /\ Cardinality(Ahead) \in Nat
         /\ \A b \in Ahead : b >= sectptr /\ b < ALLOCLG * Byte
  <1>1. PICK a \in Nat : a = ALLOCLG * Byte
    BY FormatAssumption
  <1>2. PICK x \in Nat : x = sectptr
    BY <1>1 DEF Table
  <1>3. Ahead \subseteq 0 .. a - 1
    BY <1>1 DEF Table, Ahead
  <1>4. IsFiniteSet(0 .. a - 1)
    BY FS_Interval
  <1>5. IsFiniteSet(Ahead) /\ Cardinality(Ahead) \in Nat
    BY <1>3, <1>4, FS_Subset, FS_CardinalityType
  <1>6. ASSUME NEW b \in Ahead PROVE b \in Nat /\ b >= x /\ b < a
    <2>1. b \in 0 .. a - 1 /\ b \notin 0 .. x - 1
      BY <1>2, <1>3 DEF Ahead
    <2>2. QED
      BY <2>1
  <1>7. QED
    BY <1>1, <1>2, <1>5, <1>6

LEMMA HitsAre ==
  ASSUME ClientType, Table
  PROVE  /\ Hits \in Nat /\ Len(out) \in Nat /\ Hits <= Len(out) /\ Hits <= Cardinality(Ahead)
         /\ Len(out) <= Cardinality(Ahead) => Hits = Len(out)
         /\ \A j \in 1 .. Hits : j \in Nat \ {0} /\ Kth(Ahead, j) \in Ahead
  <1>1. PICK l \in Nat : l = Len(out)
    BY LenProperties DEF ClientType
  <1>2. PICK c \in Nat : c = Cardinality(Ahead)
    BY AheadIs
  <1>3. Hits = IF l <= c THEN l ELSE c
    BY <1>1, <1>2, MinTwo DEF Hits
  <1>4. ASSUME NEW j \in 1 .. Hits PROVE j \in Nat \ {0} /\ Kth(Ahead, j) \in Ahead
    <2>1. j \in Nat \ {0} /\ j <= Cardinality(Ahead)
      BY <1>2, <1>3
    <2>2. QED
      BY <2>1, AheadIs, KthIn
  <1>5. QED
    BY <1>1, <1>2, <1>3, <1>4

\* Whatever the bitmap and the buffer hold, nothing in front of the block file's
\* place is written and the position stays within alloc[].
LEMMA FlushBeyond ==
  ASSUME ClientType, Table, curr \in Nat, FlushData
  PROVE  /\ DOMAIN disk' = DOMAIN disk
         /\ \A d \in DOMAIN disk : disk'[d] # disk[d] => d \in Int /\ d >= curr
         /\ sectptr' \in 0 .. ALLOCLG * Byte
  <1>1. PICK l \in SUBSET Fit, r \in SUBSET Astray :
           disk' = [d \in DOMAIN disk |->
                      IF At(l, d) # {} THEN out[CHOOSE j \in At(l, d) : TRUE].unit.data
                      ELSE IF d \in r THEN Garbage ELSE disk[d]]
    BY FlushIs
  <1>2. PICK a \in Nat : a = ALLOCLG * Byte
    BY FormatAssumption
  <1>3. ASSUME NEW d \in DOMAIN disk, disk'[d] # disk[d] PROVE d \in Int /\ d >= curr
    <2>1. d \in Int
      BY DEF ClientType
    <2>2. At(l, d) # {} \/ d \in r
      BY <1>1, <1>3
    <2>3. CASE At(l, d) # {}
      <3>1. PICK j \in 1 .. Hits : curr + Kth(Ahead, j) = d
        BY <2>3 DEF At, Fit, Place
      <3>2. PICK b \in Nat : b = Kth(Ahead, j)
        BY HitsAre, AheadIs
      <3>3. QED
        BY <2>1, <3>1, <3>2
    <2>4. CASE d \in r
      <3>1. d - curr >= (IF alloc = NoTable THEN 0 ELSE a)
        BY <1>2, <2>4 DEF Astray
      <3>2. QED
        BY <2>1, <3>1
    <2>5. QED
      BY <2>2, <2>3, <2>4
  <1>4. sectptr' \in 0 .. ALLOCLG * Byte
    <2>1. sectptr' = IF Len(out) > Hits THEN a ELSE IF Len(out) = 0 THEN sectptr ELSE Kth(Ahead, Len(out)) + 1
      BY <1>2 DEF FlushData, Hits
    <2>2. sectptr \in 0 .. a
      BY <1>2 DEF Table
    <2>3. ASSUME ~(Len(out) > Hits), Len(out) # 0 PROVE Kth(Ahead, Len(out)) + 1 \in 0 .. a
      <3>1. Len(out) \in 1 .. Hits
        BY <2>3, HitsAre
      <3>2. PICK b \in Nat : b = Kth(Ahead, Len(out)) /\ b < a
        BY <1>2, <3>1, HitsAre, AheadIs
      <3>3. QED
        BY <3>2
    <2>4. QED
      BY <1>2, <2>1, <2>2, <2>3
  <1>5. DOMAIN disk' = DOMAIN disk
    BY <1>1
  <1>6. QED
    BY <1>3, <1>4, <1>5

\* The bit the loader finds for the j-th sector of the buffer is that sector's.
LEMMA BufferBits ==
  ASSUME NetType, ClientType, Output, Table, pc = "turn", ~firstblock, sum,
         NEW j \in 1 .. Len(out)
  PROVE  /\ Kth(Ahead, j) \in Nat /\ Kth(Ahead, j) >= sectptr /\ j <= Cardinality(Ahead)
         /\ FirstOf(file) + Kth(Ahead, j) \in UsedIn(image, file)
         /\ Rank(image, file, FirstOf(file) + Kth(Ahead, j)) = Flushed + j - 1
         /\ j \in Nat /\ Flushed \in Nat /\ Flushed + j <= Size(image, file)
  <1>1. InData /\ Ending
    BY DEF Output, Active
  <1>2. sectptr \in Nat /\ alloc.bits = {r - FirstOf(file) : r \in UsedIn(image, file)}
    BY <1>1, FormatAssumption DEF InData, Table
  <1>3. PICK x \in Nat : x = sectptr
    BY <1>2
  <1>4. PICK F \in Nat : F = FirstOf(file)
    BY AtWork
  <1>5. PICK N \in Nat : N = Size(image, file)
    BY AtWork
  <1>6. PICK m \in Nat : m = Flushed /\ m = Rank(image, file, F + x)
    BY <1>2, <1>3, <1>4, FlushedNat DEF Flushed
  <1>7. PICK l \in Nat : l = Len(out)
    BY LenProperties DEF ClientType
  <1>8. j \in Nat \ {0} /\ j <= l
    BY <1>7
  <1>9. m + j <= N
    <2>1. seen = 1 + m + l + (IF end > 0 THEN 1 ELSE 0)
      BY <1>1, <1>6, <1>7 DEF InData
    <2>2. CASE end = 0
      <3>1. seen < N + 2 /\ ~(end > 0)
        BY <1>1, <1>5, <2>2 DEF Ending, Total
      <3>2. QED
        BY <1>5, <1>6, <1>7, <1>8, <2>1, <3>1
    <2>3. CASE end # 0
      <3>1. seen = N + 2 /\ end > 0
        BY <1>1, <1>5, <2>3 DEF Ending, Total, ClientType
      <3>2. QED
        BY <1>5, <1>6, <1>7, <1>8, <2>1, <3>1, SMTT(30)
    <2>4. QED
      BY <2>2, <2>3
  <1>10. PICK B : B = BitsFrom(image, file, x)
    OBVIOUS
  <1>11. PICK s \in UsedIn(image, file) :
           /\ s \in Int /\ s >= F + x
           /\ Rank(image, file, s) = m + j - 1
           /\ Kth(B, j) = s - F
    BY <1>4, <1>5, <1>6, <1>8, <1>9, <1>10, AtWork, BitKth, SMTT(30)
  <1>12. PICK t \in Nat : t = s - F
    BY <1>3, <1>4, <1>11
  <1>13. IsFiniteSet(B) /\ t \in B /\ B \subseteq Int
    <2>1. /\ \A r \in UsedIn(image, file) : r \in Int /\ r - F \in Nat
          /\ \A r \in UsedIn(image, file) : r - F \in B <=> r >= F + x
          /\ \A c \in B : \E r \in UsedIn(image, file) : c = r - F /\ r >= F + x
          /\ IsFiniteSet(B)
      BY <1>4, <1>10, AtWork, BitsFromIs
    <2>2. QED
      BY <1>11, <1>12, <2>1
  <1>14. Cardinality(Under(B, t)) = j - 1
    <2>1. Cardinality(Under(B, s - F)) = Rank(image, file, s) - m
      <3>1. VolumeType(image) /\ file \in Nat /\ file < Blocks(image) /\ s >= FirstOf(file) + x
        BY <1>4, <1>11, AtWork
      <3>2. Cardinality(Under(BitsFrom(image, file, x), s - FirstOf(file))) =
              Rank(image, file, s) - Rank(image, file, FirstOf(file) + x)
        BY <3>1, BitsUnder
      <3>3. QED
        BY <1>4, <1>6, <1>10, <3>2
    <2>2. m + j - 1 - m = j - 1
      BY <1>6, <1>8
    <2>3. QED
      BY <1>11, <1>12, <2>1, <2>2
  <1>15. Cardinality(Under(B, t + 1)) = Cardinality(Under(B, t)) + 1
    BY <1>13, UnderNext
  <1>16. Cardinality(Under(B, t + 1)) <= Cardinality(B) /\ Cardinality(B) \in Nat
    BY <1>13, UnderFinite, FS_CardinalityType
  <1>17. ~(j > Cardinality(B))
    BY <1>8, <1>14, <1>15, <1>16
  <1>18. B = Ahead
    BY <1>2, <1>3, <1>10 DEF BitsFrom, Ahead
  <1>19. Kth(Ahead, j) = t
    BY <1>11, <1>12, <1>18
  <1>20. F + t = s /\ t >= x
    BY <1>3, <1>4, <1>11, <1>12
  <1>21. j <= Cardinality(Ahead)
    BY <1>8, <1>16, <1>17, <1>18
  <1>22. QED
    BY <1>3, <1>4, <1>5, <1>6, <1>8, <1>9, <1>11, <1>12, <1>19, <1>20, <1>21

\* No sector of an undamaged buffer is without a bit.
LEMMA AllHit ==
  ASSUME NetType, ClientType, Output, Table, pc = "turn", ~firstblock, sum
  PROVE  Hits = Len(out)
  <1>1. PICK l \in Nat : l = Len(out)
    BY HitsAre
  <1>2. PICK c \in Nat : c = Cardinality(Ahead)
    BY AheadIs
  <1>3. CASE l = 0
    BY <1>1, <1>2, <1>3, HitsAre
  <1>4. CASE l # 0
    <2>1. l \in 1 .. Len(out)
      BY <1>1, <1>4
    <2>2. l <= Cardinality(Ahead)
      BY <2>1, BufferBits
    <2>3. QED
      BY <1>1, <2>2, HitsAre
  <1>5. QED
    BY <1>3, <1>4

\* The position after the buffer: that many sectors further.
LEMMA PointerMoves ==
  ASSUME NetType, ClientType, Output, Table, sum, FlushData
  PROVE  /\ sectptr' \in Nat /\ sectptr <= sectptr'
         /\ Rank(image, file, FirstOf(file) + sectptr') = Flushed + Len(out)
  <1>1. /\ pc = "turn" /\ ~firstblock
        /\ sectptr' = IF Len(out) > Hits THEN ALLOCLG * Byte
                      ELSE IF Len(out) = 0 THEN sectptr ELSE Kth(Ahead, Len(out)) + 1
    BY DEF FlushData, Hits
  <1>2. sectptr \in Nat
    BY FormatAssumption DEF Table
  <1>3. PICK x \in Nat : x = sectptr
    BY <1>2
  <1>4. PICK F \in Nat : F = FirstOf(file)
    BY <1>1, AtWork
  <1>5. PICK m \in Nat : m = Flushed /\ m = Rank(image, file, F + x)
    BY <1>1, <1>2, <1>3, <1>4, FlushedNat DEF Flushed
  <1>6. PICK l \in Nat : l = Len(out) /\ Hits = l
    BY <1>1, AllHit, HitsAre
  <1>7. CASE l = 0
    <2>1. sectptr' = x /\ m + l = m /\ x <= x
      BY <1>1, <1>3, <1>5, <1>6, <1>7
    <2>2. QED
      BY <1>3, <1>4, <1>5, <1>6, <2>1
  <1>8. CASE l # 0
    <2>1. l \in 1 .. Len(out)
      BY <1>6, <1>8
    <2>2. PICK b \in Nat : b = Kth(Ahead, l) /\ b >= x
      BY <1>1, <1>3, <2>1, BufferBits
    <2>3. F + b \in UsedIn(image, file) /\ Rank(image, file, F + b) = m + l - 1
      BY <1>1, <1>4, <1>5, <2>1, <2>2, BufferBits
    <2>4. sectptr' = b + 1
      BY <1>1, <1>6, <1>8, <2>2
    <2>5. F + b \in Int /\ F + (b + 1) = F + b + 1
      BY <1>4, <2>2
    <2>6. Rank(image, file, F + b + 1) = Rank(image, file, F + b) + 1
      BY <1>1, <2>3, <2>5, AtWork, RankNext
    <2>7. m + l - 1 + 1 = m + l /\ b + 1 \in Nat /\ x <= b + 1
      BY <1>3, <1>5, <1>6, <2>2
    <2>8. Rank(image, file, F + sectptr') = m + l
      BY <2>3, <2>4, <2>5, <2>6, <2>7
    <2>9. QED
      BY <1>3, <1>4, <1>5, <1>6, <2>4, <2>7, <2>8
  <1>9. QED
    BY <1>7, <1>8

\* What an undamaged buffer changes on the disk: only sectors of the block file not
\* passed yet, and those it passes hold their own contents when all were written.
LEMMA BufferWrites ==
  ASSUME NetType, ClientType, Output, Table, Disk, sum, FlushData
  PROVE  /\ \A d \in DOMAIN disk : disk'[d] # disk[d] =>
              d \in Int /\ d - Start \in UsedIn(image, file) /\ d - Start >= FirstOf(file) + sectptr
         /\ ~told' => ~told
         /\ ~told' => \A s \in UsedIn(image, file) :
              FirstOf(file) + sectptr <= s /\ s < FirstOf(file) + sectptr' => Placed(disk', s)
  <1>1. pc = "turn" /\ ~firstblock
    BY DEF FlushData
  <1>2. PICK u \in SUBSET Fit, r \in SUBSET Astray :
           /\ Cardinality(r) <= Len(out) - Hits
           /\ disk' = [d \in DOMAIN disk |->
                        IF At(u, d) # {} THEN out[CHOOSE j \in At(u, d) : TRUE].unit.data
                        ELSE IF d \in r THEN Garbage ELSE disk[d]]
           /\ told' = (told \/ Wrong(u, r))
    BY FlushIs
  <1>3. PICK x \in Nat : x = sectptr
    BY FormatAssumption DEF Table
  <1>4. PICK F \in Nat : F = FirstOf(file)
    BY <1>1, AtWork
  <1>5. PICK m \in Nat : m = Flushed /\ m = Rank(image, file, F + x)
    BY <1>1, <1>3, <1>4, FlushedNat DEF Flushed
  <1>6. PICK l \in Nat : l = Len(out) /\ l = Hits
    BY <1>1, AllHit, HitsAre
  <1>7. curr = Start + F /\ Start \in Nat
    BY <1>1, <1>4, GetAssumption DEF Disk
  <1>8. PICK S : S = UsedIn(image, file)
    OBVIOUS
  <1>9. IsFiniteSet(S) /\ S \subseteq Int
    BY <1>1, <1>8, AtWork, UsedType
  <1>10. ASSUME NEW j \in 1 .. l
         PROVE  /\ j \in Nat /\ Kth(Ahead, j) \in Nat /\ Kth(Ahead, j) >= x /\ F + Kth(Ahead, j) \in S
                /\ Cardinality(Under(S, F + Kth(Ahead, j))) = m + j - 1
                /\ m + j <= Size(image, file)
    BY <1>1, <1>3, <1>4, <1>5, <1>6, <1>8, BufferBits DEF Rank
  <1>11. \A d \in DOMAIN disk : d \in Int
    BY DEF ClientType
  <1>12. r = {}
    <2>1. IsFiniteSet(0 .. DiskSize - 1)
      BY FS_Interval, GetAssumption
    <2>2. IsFiniteSet(r) /\ Cardinality(r) \in Nat
      BY <2>1, FS_Subset, FS_CardinalityType DEF Astray, ClientType
    <2>3. Cardinality(r) = 0
      BY <1>2, <1>6, <2>2
    <2>4. QED
      BY <2>2, <2>3, FS_EmptySet
  <1>13. ASSUME NEW d \in DOMAIN disk, disk'[d] # disk[d]
         PROVE  d \in Int /\ d - Start \in S /\ d - Start >= F + x
    <2>1. At(u, d) # {}
      BY <1>2, <1>12, <1>13
    <2>2. PICK j \in 1 .. l : curr + Kth(Ahead, j) = d
      BY <1>6, <2>1 DEF At, Fit, Place
    <2>3. PICK b \in Nat : b = Kth(Ahead, j) /\ b >= x /\ F + b \in S
      BY <1>10
    <2>4. d \in Int
      BY <1>11
    <2>5. d - Start = F + b
      BY <1>4, <1>7, <2>2, <2>3, <2>4
    <2>6. QED
      BY <1>3, <1>4, <2>3, <2>4, <2>5
  <1>14. ASSUME ~told' PROVE ~told /\ u = {} /\ Fit = 1 .. l
    BY <1>2, <1>6, <1>14 DEF Wrong
  <1>15. ASSUME ~told', NEW s \in S, F + x <= s, s < F + sectptr'
         PROVE  Start + s \in DOMAIN disk /\ disk'[Start + s] = s
    <2>1. PICK y \in Nat : y = sectptr' /\ Rank(image, file, F + y) = m + l
      BY <1>4, <1>5, <1>6, PointerMoves
    <2>2. s \in Int /\ F + x \in Int /\ F + y \in Int /\ s + 1 \in Int /\ s + 1 <= F + y
      BY <1>3, <1>4, <1>9, <1>15, <2>1
    <2>3. PICK q \in Nat : q = Cardinality(Under(S, s))
      BY <1>9, UnderFinite
    <2>4. Cardinality(Under(S, s + 1)) = q + 1
      BY <1>9, <2>2, <2>3, UnderNext
    <2>5. m <= q
      <3>1. Cardinality(Under(S, F + x)) <= Cardinality(Under(S, s))
        BY <1>9, <1>15, <2>2, UnderMono
      <3>2. QED
        BY <1>5, <1>8, <2>3, <3>1 DEF Rank
    <2>6. q + 1 <= m + l
      <3>1. Cardinality(Under(S, s + 1)) <= Cardinality(Under(S, F + y))
        BY <1>9, <2>2, UnderMono
      <3>2. QED
        BY <1>8, <2>1, <2>4, <3>1 DEF Rank
    <2>7. PICK j \in Nat : j = q - m + 1 /\ j \in 1 .. l /\ m + j - 1 = q /\ m + j = q + 1
      <3>1. m \in Nat /\ q \in Nat /\ l \in Nat
        OBVIOUS
      <3>2. q - m + 1 \in Nat /\ q - m + 1 >= 1 /\ q - m + 1 <= l
        BY <2>5, <2>6, <3>1
      <3>3. m + (q - m + 1) - 1 = q /\ m + (q - m + 1) = q + 1
        BY <3>1
      <3>4. QED
        BY <3>1, <3>2, <3>3
    <2>8. F + Kth(Ahead, j) = s
      <3>1. PICK t : t = F + Kth(Ahead, j)
        OBVIOUS
      <3>2. t \in S /\ Cardinality(Under(S, t)) = Cardinality(Under(S, s))
        BY <1>10, <2>3, <2>7, <3>1
      <3>3. t = s
        BY <1>9, <3>2, RankUnique
      <3>4. QED
        BY <3>1, <3>3
    <2>9. PICK d \in Nat : d = Start + s /\ Place(j) = d
      <3>1. PICK b \in Nat : b = Kth(Ahead, j)
        BY <1>10, <2>7
      <3>2. QED
        BY <1>4, <1>7, <2>2, <2>8, <3>1 DEF Place
    <2>10. j \in At(u, d)
      BY <1>14, <1>15, <2>7, <2>9 DEF At
    <2>11. d \in DOMAIN disk
      <3>1. d < DiskSize
        BY <1>14, <1>15, <2>7, <2>9 DEF Fit
      <3>2. QED
        BY <3>1, GetAssumption DEF ClientType
    <2>12. PICK k \in 1 .. l : Place(k) = d /\ disk'[d] = out[k].unit.data
      <3>1. PICK k : k = CHOOSE i \in At(u, d) : TRUE
        OBVIOUS
      <3>2. k \in At(u, d)
        BY <2>10, <3>1
      <3>3. disk'[d] = out[k].unit.data
        BY <1>2, <2>10, <2>11, <3>1
      <3>4. k \in 1 .. l /\ Place(k) = d
        BY <1>6, <3>2 DEF At, Fit
      <3>5. QED
        BY <3>3, <3>4
    <2>13. k = j
      <3>1. Kth(Ahead, k) = Kth(Ahead, j)
        <4>1. PICK b \in Nat : b = Kth(Ahead, k)
          BY <1>10
        <4>2. PICK c \in Nat : c = Kth(Ahead, j)
          BY <1>10, <2>7
        <4>3. curr + b = curr + c
          BY <2>9, <2>12, <4>1, <4>2 DEF Place
        <4>4. QED
          BY <1>4, <1>7, <4>1, <4>2, <4>3
      <3>2. m + k - 1 = m + j - 1
        BY <1>10, <2>7, <3>1
      <3>3. QED
        BY <1>5, <1>6, <2>7, <3>2, SMTT(30)
    <2>14. out[j].unit.data = DataOf(image, file, 1 + m + j)
      BY <1>1, <1>5, <1>6, <2>7 DEF Output, Active, InData
    <2>15. DataOf(image, file, 1 + m + j) = Kth(S, m + j)
      <3>1. Size(image, file) \in Nat /\ m + j <= Size(image, file) /\ j >= 1
        BY <1>1, <1>10, <2>7, AtWork
      <3>2. 1 + m + j \in 2 .. Size(image, file) + 1 /\ 1 + m + j - 1 = m + j
        BY <1>5, <2>7, <3>1
      <3>3. QED
        BY <1>8, <3>2 DEF DataOf
    <2>16. Kth(S, m + j) = s
      <3>1. PICK c \in Int : c = m + j
        OBVIOUS
      <3>2. Cardinality(Under(S, s)) = c - 1
        BY <2>3, <2>7, <3>1
      <3>3. QED
        BY <1>9, <1>15, <3>1, <3>2, KthIs
    <2>17. QED
      BY <2>9, <2>11, <2>12, <2>13, <2>14, <2>15, <2>16
  <1>16. DOMAIN disk' = DOMAIN disk
    BY <1>2
  <1>17. QED
    BY <1>3, <1>4, <1>8, <1>13, <1>14, <1>15, <1>16 DEF Placed

\* A buffer of sectors is written.
LEMMA DataTransfer == GetInv /\ TransferInv /\ FlushData => TransferInv'
  <1> SUFFICES ASSUME GetInv, TransferInv, FlushData PROVE TransferInv'
    OBVIOUS
  <1>1. Wire /\ Feed /\ Output /\ Disk /\ Table /\ NetType /\ ClientType
    BY DEF TransferInv, GetInv
  <1>2. UNCHANGED <<image, file, files, curr, sum, seen, compressed, tbuf, firstblock, alloc, save_sect,
                    tftpend, lastblk, tftpport, toServer, toClient, session, holed, hurt>>
    BY Zenon DEF FlushData, place, imageVars
  <1>3. /\ pc = "turn" /\ pc' \in {"key", "poll"} /\ full /\ ~firstblock
        /\ full' = FALSE /\ out' = <<>> /\ end' = (IF end = 1 THEN 2 ELSE end)
    BY DEF FlushData, Emptied
  <1>4. Transfer /\ Active /\ Active' /\ pc \notin {"done", "failed"}
    BY <1>3 DEF Transfer, Active
  <1>5. Wire'
    BY <1>1, <1>2, <1>4, WireLess
  <1>6. Feed'
    BY <1>1, <1>2, <1>4, FeedKept
  <1>7. Ending /\ (sum => InData)
    BY <1>1, <1>3, <1>4 DEF Output
  <1>8. /\ end \in {0, 1} /\ ((end' > 0) <=> (end > 0)) /\ end' \in {0, 2} /\ (end' = 0 <=> end = 0)
        /\ (end' > 0 => sum)
    <2>1. end \in {0, 1}
      <3>1. end \in {0, 1, 2}
        BY <1>1 DEF ClientType
      <3>2. end # 2
        BY <1>3, <1>7 DEF Ending
      <3>3. QED
        BY <3>1, <3>2
    <2>2. QED
      BY <1>3, <1>7, <2>1 DEF Ending
  <1>9. PICK F \in Nat : F = FirstOf(file)
    BY <1>1, <1>4, AtWork
  <1>10. curr = Start + F /\ curr \in Nat /\ Start \in Nat
    BY <1>1, <1>3, <1>9, GetAssumption DEF Disk
  <1>11. /\ DOMAIN disk' = DOMAIN disk
         /\ \A d \in DOMAIN disk : disk'[d] # disk[d] => d \in Int /\ d >= curr
         /\ sectptr' \in 0 .. ALLOCLG * Byte
    BY <1>1, <1>10, FlushBeyond
  <1>12. Table'
    BY <1>1, <1>2, <1>11 DEF Table
  <1>13. PICK x \in Nat : x = sectptr
    BY <1>1, FormatAssumption DEF Table
  <1>14. Output'
    <2>1. Ending'
      BY <1>2, <1>3, <1>7, <1>8 DEF Ending
    <2>2. ASSUME sum PROVE InData'
      <3>1. InData
        BY <1>7, <2>2
      <3>2. PICK m \in Nat : m = Flushed
        BY <1>1, <1>4, <1>13, FlushedNat
      <3>3. PICK l \in Nat : l = Len(out)
        BY <1>1, LenProperties DEF ClientType
      <3>4. PICK e \in Nat : e = (IF end > 0 THEN 1 ELSE 0) /\ e = (IF end' > 0 THEN 1 ELSE 0)
        BY <1>8
      <3>5. seen = 1 + m + l + e
        BY <3>1, <3>2, <3>3, <3>4 DEF InData
      <3>6. Len(out') = 0 /\ \A j : j \notin 1 .. 0
        BY <1>3
      <3>7. Flushed' = m + l
        BY <1>1, <1>2, <2>2, <3>2, <3>3, PointerMoves DEF Flushed
      <3>8. seen' = 1 + (m + l) + 0 + e
        BY <1>2, <3>2, <3>3, <3>4, <3>5
      <3>9. seen' = 1 + Flushed' + Len(out') + (IF end' > 0 THEN 1 ELSE 0)
        BY <3>4, <3>6, <3>7, <3>8
      <3>10. /\ alloc' = [of |-> file', bits |-> {s - FirstOf(file') : s \in UsedIn(image', file')}]
             /\ save_sect' = curr' + Lg(image', file') * Byte /\ files' = Blocks(image')
        BY <1>2, <3>1 DEF InData
      <3>11. QED
        BY <3>6, <3>9, <3>10 DEF InData
    <2>3. QED
      BY <1>2, <1>3, <2>1, <2>2 DEF Output
  <1>15. ASSUME NEW s \in Nat, NEW y \in Int, s < y, Placed(disk, s),
                \A d \in DOMAIN disk : disk'[d] # disk[d] => d \in Int /\ d - Start >= y
         PROVE  Placed(disk', s)
    <2>1. Start + s \in DOMAIN disk /\ disk[Start + s] = s
      BY <1>15 DEF Placed
    <2>2. PICK d \in Int : d = Start + s /\ ~(d - Start >= y)
      BY <1>10, <1>15
    <2>3. disk'[d] = disk[d]
      BY <1>15, <2>1, <2>2, Zenon
    <2>4. QED
      BY <1>11, <2>1, <2>2, <2>3 DEF Placed
  <1>16. \A d \in DOMAIN disk : disk'[d] # disk[d] => d \in Int /\ d - Start >= F
    BY <1>10, <1>11
  <1>17. ASSUME NEW f \in 0 .. file' - 1, NEW s \in UsedIn(image', f), ~holed' PROVE Placed(disk', s)
    <2>1. f \in 0 .. file - 1 /\ s \in UsedIn(image, f) /\ ~holed
      BY <1>2, <1>17
    <2>2. Placed(disk, s)
      BY <1>1, <2>1 DEF Disk
    <2>3. f \in Nat /\ f < file /\ file \in Nat /\ file < Blocks(image)
      BY <1>1, <1>4, <2>1, AtWork
    <2>4. s \in Nat /\ s < F
      BY <1>1, <1>4, <1>9, <2>1, <2>3, AtWork, SlicesApart
    <2>5. QED
      BY <1>15, <1>16, <2>2, <2>4
  <1>18. ASSUME NEW d \in DOMAIN disk', disk'[d] # Old
         PROVE  d - Start \in image'.used \/ (hurt' /\ d >= Start)
    <2>1. CASE disk'[d] = disk[d]
      BY <1>1, <1>2, <1>11, <1>18, <2>1 DEF Disk
    <2>2. CASE disk'[d] # disk[d] /\ sum
      <3>1. d - Start \in UsedIn(image, file)
        BY <1>1, <1>11, <2>2, BufferWrites
      <3>2. QED
        BY <1>2, <3>1 DEF UsedIn
    <2>3. CASE disk'[d] # disk[d] /\ ~sum
      <3>1. d \in Int /\ d >= curr
        BY <1>11, <2>3
      <3>2. d >= Start
        BY <1>10, <3>1
      <3>3. QED
        BY <1>1, <1>2, <2>3, <3>2 DEF Disk
    <2>4. QED
      BY <2>1, <2>2, <2>3
  <1>19. ASSUME sum', ~told', NEW s \in UsedIn(image', file'), s < FirstOf(file') + sectptr'
         PROVE  Placed(disk', s)
    <2>1. sum /\ s \in UsedIn(image, file) /\ s < F + sectptr'
      BY <1>2, <1>9, <1>19
    <2>2. s \in Nat
      BY <1>1, <1>4, <2>1, AtWork, UsedType
    <2>3. /\ \A d \in DOMAIN disk : disk'[d] # disk[d] => d \in Int /\ d - Start >= F + x
          /\ ~told
          /\ F + x <= s => Placed(disk', s)
      BY <1>1, <1>9, <1>13, <1>19, <2>1, BufferWrites
    <2>4. CASE s < F + x
      <3>1. Placed(disk, s)
        BY <1>1, <1>3, <1>4, <1>9, <1>13, <2>1, <2>3, <2>4 DEF Disk
      <3>2. F + x \in Int
        OBVIOUS
      <3>3. QED
        BY <1>15, <2>2, <2>3, <2>4, <3>1, <3>2
    <2>5. CASE ~(s < F + x)
      BY <2>2, <2>3, <2>5
    <2>6. QED
      BY <2>4, <2>5
  <1>20. Disk'
    <2>1. pc' # "done" => curr' = Start + FirstOf(file')
      BY <1>1, <1>2, <1>3 DEF Disk
    <2>2. file' > 0 => files' = Blocks(image')
      BY <1>1, <1>2 DEF Disk
    <2>3. ~sum' => hurt'
      BY <1>1, <1>2 DEF Disk
    <2>4. QED
      BY <1>3, <1>17, <1>18, <1>19, <2>1, <2>2, <2>3 DEF Disk
  <1>21. QED
    BY <1>5, <1>6, <1>12, <1>14, <1>20 DEF TransferInv

\* When new_get returns the checksum was right, so every used sector of the block
\* file is on the disk but those the operator was told of.
LEMMA FileComplete ==
  ASSUME NetType, ClientType, Output, Table, Disk, pc = "return"
  PROVE  /\ files = Blocks(image) /\ save_sect = Start + FirstOf(file) + Lg(image, file) * Byte
         /\ ~told => \A s \in UsedIn(image, file) : Placed(disk, s)
  <1>1. end = 2 /\ Active /\ Ending /\ (firstblock => InHeader) /\ (~firstblock /\ sum => InData)
    BY DEF Disk, Output, Active
  <1>2. ~firstblock /\ sum /\ out = <<>> /\ InData /\ seen = Total(image, file)
    BY <1>1 DEF InHeader, Ending
  <1>3. PICK F \in Nat : F = FirstOf(file)
    BY AtWork
  <1>4. PICK x \in Nat : x = sectptr
    BY FormatAssumption DEF Table
  <1>5. PICK N \in Nat : N = Size(image, file)
    BY AtWork
  <1>6. Flushed \in Nat
    BY <1>4, FlushedNat
  <1>7. Flushed = N
    <2>1. Len(out) = 0 /\ end > 0
      BY <1>1, <1>2
    <2>2. N + 2 = 1 + Flushed + 0 + 1
      BY <1>2, <1>5, <2>1 DEF InData, Total
    <2>3. QED
      BY <1>5, <1>6, <2>2
  <1>8. ASSUME NEW s \in UsedIn(image, file) PROVE s < F + x
    <2>1. PICK S : S = UsedIn(image, file)
      OBVIOUS
    <2>2. IsFiniteSet(S) /\ S \subseteq Int /\ s \in S /\ s \in Int
      BY <2>1, AtWork, UsedType
    <2>3. CASE F + x <= s
      <3>1. Cardinality(Under(S, F + x)) = N
        BY <1>3, <1>4, <1>7, <2>1 DEF Flushed, Rank
      <3>2. F + x \in Int /\ s + 1 \in Int
        BY <2>2
      <3>3. Cardinality(Under(S, F + x)) <= Cardinality(Under(S, s))
        BY <2>2, <2>3, <3>2, UnderMono
      <3>4. Cardinality(Under(S, s + 1)) = Cardinality(Under(S, s)) + 1
        BY <2>2, UnderNext
      <3>5. Cardinality(Under(S, s + 1)) <= Cardinality(S) /\ Cardinality(Under(S, s)) \in Nat
        BY <2>2, UnderFinite
      <3>6. Cardinality(S) = N
        BY <1>5, <2>1 DEF Size
      <3>7. QED
        BY <3>1, <3>3, <3>4, <3>5, <3>6
    <2>4. QED
      BY <2>2, <2>3
  <1>9. ~told => \A s \in UsedIn(image, file) : Placed(disk, s)
    BY <1>1, <1>2, <1>3, <1>4, <1>8 DEF Disk
  <1>10. curr = Start + FirstOf(file)
    BY DEF Disk
  <1>11. QED
    BY <1>2, <1>9, <1>10 DEF InData

\* On to the next block file, where this one ends.
LEMMA NextTransfer == GetInv /\ TransferInv /\ NextFile => TransferInv'
  <1> SUFFICES ASSUME GetInv, TransferInv, NextFile PROVE TransferInv'
    OBVIOUS
  <1>1. Output /\ Disk /\ Table /\ NetType /\ ClientType
    BY DEF TransferInv, GetInv
  <1>2. /\ UNCHANGED <<image, files, disk, alloc, sectptr, sum, hurt>> /\ pc = "return"
        /\ curr' = save_sect /\ file' = file + 1
        /\ pc' = IF file + 1 < files THEN "restart" ELSE "done"
    BY DEF NextFile, Curr, stream, writer, imageVars
  <1>3. ASSUME ~holed' PROVE ~holed /\ ~told
    BY <1>3 DEF NextFile
  <1>4. /\ files = Blocks(image) /\ save_sect = Start + FirstOf(file) + Lg(image, file) * Byte
        /\ ~told => \A s \in UsedIn(image, file) : Placed(disk, s)
    BY <1>1, <1>2, FileComplete
  <1>5. /\ VolumeType(image) /\ file \in Nat /\ file < Blocks(image) /\ Blocks(image) \in Nat
        /\ FirstOf(file) \in Nat /\ Lg(image, file) * Byte \in Nat
    BY <1>1, <1>2, AtWork
  <1>6. ~Transfer' /\ ~Active'
    BY <1>2 DEF Transfer, Active
  <1>7. ASSUME pc' # "done" PROVE curr' = Start + FirstOf(file')
    <2>1. file + 1 < Blocks(image)
      BY <1>2, <1>4, <1>7
    <2>2. FirstOf(file + 1) = FirstOf(file) + Lg(image, file) * Byte
      BY <1>5, <2>1, SliceType
    <2>3. QED
      BY <1>2, <1>4, <1>5, <2>2, GetAssumption
  <1>8. pc' = "done" => file' = Blocks(image')
    BY <1>2, <1>4, <1>5
  <1>9. ASSUME ~holed', NEW f \in 0 .. file' - 1, NEW s \in UsedIn(image', f) PROVE Placed(disk', s)
    <2>1. f \in 0 .. file - 1 \/ f = file
      BY <1>2, <1>5
    <2>2. QED
      BY <1>1, <1>2, <1>3, <1>4, <1>9, <2>1 DEF Disk
  <1>10. \A d \in DOMAIN disk' : disk'[d] # Old => d - Start \in image'.used \/ (hurt' /\ d >= Start)
    BY <1>1, <1>2, Zenon DEF Disk
  <1>11. Disk'
    <2>1. file' > 0 => files' = Blocks(image')
      BY <1>2, <1>4
    <2>2. pc' \in {"restart", "done"}
      BY <1>2
    <2>3. ~sum' => hurt'
      BY <1>1, <1>2 DEF Disk
    <2>4. QED
      BY <1>6, <1>7, <1>8, <1>9, <1>10, <2>1, <2>2, <2>3 DEF Disk
  <1>12. Table'
    BY <1>1, <1>2, TableKept
  <1>13. QED
    BY <1>6, <1>11, <1>12 DEF TransferInv, Wire, Feed, Output

LEMMA TransferStarts == Init => TransferInv
  <1> SUFFICES ASSUME Init PROVE TransferInv
    OBVIOUS
  <1>1. /\ pc = "restart" /\ file = 0 /\ curr = Start /\ disk = [d \in 0 .. DiskSize - 1 |-> Old]
        /\ alloc = NoTable /\ sectptr = 0 /\ sum = TRUE
    BY DEF Init
  <1>2. ~Transfer /\ ~Active
    BY <1>1 DEF Transfer, Active
  <1>3. FirstOf(0) = 0
    BY FormatAssumption DEF FirstOf
  <1>4. curr = Start + FirstOf(file)
    BY <1>1, <1>3, GetAssumption
  <1>5. Disk
    BY <1>1, <1>2, <1>4 DEF Disk
  <1>6. Table
    <2>1. 0 \in 0 .. ALLOCLG * Byte
      BY FormatAssumption
    <2>2. QED
      BY <1>1, <2>1 DEF Table, NoTable
  <1>7. QED
    BY <1>2, <1>5, <1>6 DEF TransferInv, Wire, Feed, Output

LEMMA TransferStep == GetInv /\ TransferInv /\ [Next]_vars => TransferInv'
  <1> SUFFICES ASSUME GetInv, TransferInv, [Next]_vars PROVE TransferInv'
    OBVIOUS
  <1>1. CASE UNCHANGED vars
    <2>1. UNCHANGED <<getVars, netVars, imageVars>>
      BY <1>1, Zenon DEF vars
    <2>2. UNCHANGED <<image, file, files, curr, disk, firstblock, sectptr, sum, end, pc, compressed, seen, tbuf,
                      tftpend, lastblk, out, full, alloc, save_sect, tftpport, toServer, toClient, session,
                      told, holed, hurt>>
      BY <2>1, Zenon DEF getVars, place, link, stream, writer, netVars, imageVars
    <2>3. Wire /\ Feed /\ Output /\ Disk /\ Table /\ NetType /\ ClientType
      BY DEF TransferInv, GetInv
    <2>4. (Transfer' <=> Transfer) /\ (Active' <=> Active)
      BY <2>2 DEF Transfer, Active
    <2>5. Wire'
      BY <2>2, <2>3, <2>4, WireLess
    <2>6. Feed'
      BY <2>2, <2>3, <2>4, FeedKept
    <2>7. Output'
      BY <2>2, <2>3, <2>4, OutputKept
    <2>8. (pc' = "return" => end' = 2) /\ (~sum' => hurt')
      BY <2>2, <2>3 DEF Disk
    <2>9. Disk'
      BY <2>2, <2>3, <2>4, <2>8, DiskKept
    <2>10. Table'
      BY <2>2, <2>3, TableKept
    <2>11. QED
      BY <2>5, <2>6, <2>7, <2>9, <2>10 DEF TransferInv
  <1>2. CASE Client \/ Key
    BY <1>2, RequestTransfer, HeaderTransfer, DataTransfer, InflateTransfer, DamagedTransfer, GivenUp,
       GulpTransfer, MoveTransfer, ReceiveTransfer, NextTransfer DEF Client
  <1>3. CASE Serve \/ Resend \/ Lose \/ Damage
    BY <1>3, NetTransfer
  <1>4. QED
    BY <1>1, <1>2, <1>3 DEF Next, Finished

LEMMA TypeStep == GetInv /\ TransferInv /\ [Next]_vars => GetInv'
  <1> SUFFICES ASSUME GetInv, TransferInv, [Next]_vars PROVE GetInv'
    OBVIOUS
  <1>1. NetType /\ ClientType /\ Output /\ Table /\ Disk
    BY DEF GetInv, TransferInv
  <1>2. pc = "return" => files = Blocks(image)
    BY <1>1, FileComplete
  <1>3. pc = "turn" /\ firstblock /\ ~full => out = <<>>
    BY <1>1 DEF Output, Active, InHeader
  <1>4. QED
    BY <1>2, <1>3, GetStep

LEMMA TransferInvariant == Spec => [](GetInv /\ TransferInv)
  BY GetInit, TypeStep, TransferStarts, TransferStep, PTL DEF Spec

--------------------------------------------------------------------------------
(* What the restore promises.                                                *)

\* Counters, buffers and the position in the bitmap keep to their sizes, for every
\* geometry and whatever a damaged header reads (builtins_lbs.c 95-123, 662-679).
THEOREM GetTypeOK == Spec => []TypeOK
  <1>1. GetInv /\ TransferInv => TypeOK
    <2> SUFFICES ASSUME NetType, ClientType, Table PROVE TypeOK
      BY DEF GetInv, TransferInv
    <2>1. {firstblock, sum, open, told, holed, hurt} \subseteq BOOLEAN
      BY DEF ClientType
    <2>2. QED
      BY <2>1 DEF TypeOK, ClientType, NetType, Table
  <1>2. QED
    BY <1>1, TransferInvariant, PTL

\* Whatever of earlier requests is still about when a port comes round again, all that
\* reaches the client there is of the block file it asked for, for every number of
\* ports greater than the requests a packet outlives (builtins_lbs.c 644-648).
THEOREM GetFresh == Spec => []Fresh
  <1>1. GetInv /\ TransferInv => Fresh
    <2> SUFFICES ASSUME NetType, Wire, Transfer PROVE Fresh
      BY DEF GetInv, TransferInv, Fresh, Transfer
    <2>1. ASSUME NEW m \in toClient, m.port = tftpport, NEW j \in DOMAIN m.data
          PROVE  m.data[j].unit.file = file
      <3>1. Brings(image, file, m, lastblk)
        BY <2>1 DEF Wire
      <3>2. m.data \in Seq(UnitType)
        BY DEF NetType, PacketType
      <3>3. j \in 1 .. Len(m.data)
        BY <3>2, LenProperties
      <3>4. CASE m.op = "DATA"
        <4>1. PICK b : Carries(image, file, m.data, (b - 1) * TFTPBLOCK)
          BY <3>1, <3>4 DEF Brings, Carrier
        <4>2. QED
          BY <3>3, <4>1 DEF Carries, UnitAt
      <3>5. CASE m.op # "DATA"
        <4>1. m.data = <<>>
          BY <3>1, <3>5 DEF Brings
        <4>2. QED
          BY <3>3, <4>1
      <3>6. QED
        BY <3>4, <3>5
    <2>2. session[tftpport] # NoSession => session[tftpport].file = file
      BY DEF Wire, Held
    <2>3. QED
      BY <2>1, <2>2 DEF Fresh
  <1>2. QED
    BY <1>1, TransferInvariant, PTL

\* A list shorter than inflate's input leaves a packet buffer free: the packets
\* but the last are whole, so as many as there are buffers fill the input.
LEMMA BufferFree ==
  ASSUME NetType, ClientType, Feed, Transfer, ~tftpend, compressed = <<>>, Len(tbuf) < INBUFF
  PROVE  get_empty
  <1>1. PICK w \in Nat : w = seen
    BY DEF ClientType
  <1>2. PICK t \in Nat : t = Len(tbuf) /\ DOMAIN tbuf = 1 .. t
    BY LenProperties DEF ClientType
  <1>3. PICK n \in Nat : w + t = n * TFTPBLOCK
    <2>1. Len(compressed) = 0
      OBVIOUS
    <2>2. w + 0 + t = Received
      BY <1>1, <1>2, <2>1 DEF Feed
    <2>3. lastblk \in -1 .. WORD - 1 /\ 0 * TFTPBLOCK = 0
      BY GetAssumption DEF ClientType
    <2>4. CASE lastblk = -1
      BY <1>1, <1>2, <2>2, <2>3, <2>4 DEF Received
    <2>5. CASE lastblk # -1
      <3>1. lastblk \in Nat
        BY <2>3, <2>5, WordNat
      <3>2. QED
        BY <1>1, <1>2, <2>2, <2>5, <3>1 DEF Received
    <2>6. QED
      BY <2>4, <2>5
  <1>4. \A j \in 1 .. t : tbuf[j].k = w + j
    <2>1. Len(compressed) = 0 /\ w + 0 = w
      OBVIOUS
    <2>2. Carries(image, file, tbuf, w)
      BY <1>1, <2>1 DEF Feed
    <2>3. QED
      BY <1>2, <2>2 DEF Carries, UnitAt
  <1>5. PICK p \in Nat : p = w \div TFTPBLOCK /\ p * TFTPBLOCK <= w /\ w < p * TFTPBLOCK + TFTPBLOCK
    BY DivBelow, GetAssumption
  <1> DEFINE Q == {(tbuf[j].k - 1) \div TFTPBLOCK : j \in DOMAIN tbuf}
  <1>6. ASSUME NEW q \in Q PROVE q \in p .. n - 1
    <2>1. PICK j \in 1 .. t : q = (tbuf[j].k - 1) \div TFTPBLOCK
      BY <1>2
    <2>2. PICK x \in Nat : x = tbuf[j].k - 1 /\ w <= x /\ x < w + t
      BY <1>1, <1>2, <1>4, <2>1
    <2>3. q = x \div TFTPBLOCK
      BY <2>1, <2>2
    <2>4. q \in Nat /\ q * TFTPBLOCK <= x /\ x < q * TFTPBLOCK + TFTPBLOCK
      BY <2>2, <2>3, DivBelow, GetAssumption
    <2>5. q < n
      BY <1>3, <2>2, <2>3, DivBounds, GetAssumption
    <2>6. p <= q
      <3>1. CASE q < p
        <4>1. (q + 1) * TFTPBLOCK <= p * TFTPBLOCK
          BY <2>4, <3>1, MulMono, GetAssumption
        <4>2. (q + 1) * TFTPBLOCK = q * TFTPBLOCK + TFTPBLOCK
          BY <2>4, GetAssumption
        <4>3. PICK a \in Nat : a = q * TFTPBLOCK
          BY <2>4, GetAssumption
        <4>4. PICK b \in Nat : b = p * TFTPBLOCK
          BY GetAssumption
        <4>5. a + TFTPBLOCK <= b /\ b <= w /\ w <= x /\ x < a + TFTPBLOCK
          BY <1>5, <2>2, <2>4, <4>1, <4>2, <4>3, <4>4
        <4>6. QED
          BY SMTT(40), <2>2, <4>3, <4>4, <4>5, GetAssumption
      <3>2. QED
        BY <2>4, <3>1
    <2>7. QED
      BY <2>4, <2>5, <2>6
  <1>7. IsFiniteSet(p .. n - 1) /\ Cardinality(p .. n - 1) = IF p <= n - 1 THEN n - 1 - p + 1 ELSE 0
    <2>1. p \in Int /\ n - 1 \in Int
      OBVIOUS
    <2>2. QED
      BY <2>1, FS_Interval
  <1>8. IsFiniteSet(Q) /\ Cardinality(Q) <= Cardinality(p .. n - 1) /\ Cardinality(Q) \in Nat
    <2>1. Q \subseteq p .. n - 1
      BY <1>6
    <2> HIDE DEF Q
    <2>2. QED
      BY <1>7, <2>1, FS_Subset, FS_CardinalityType
  <1>9. InUse = Cardinality(Q)
    BY DEF InUse
  <1> HIDE DEF Q
  <1>10. CASE p + NB_BUF <= n
    <2>1. (p + NB_BUF) * TFTPBLOCK <= n * TFTPBLOCK
      BY <1>10, MulMono, GetAssumption
    <2>2. (p + NB_BUF) * TFTPBLOCK = p * TFTPBLOCK + TFTPBLOCK + (NB_BUF - 1) * TFTPBLOCK
      BY GetAssumption
    <2>3. PICK a \in Nat : a = p * TFTPBLOCK
      BY GetAssumption
    <2>4. PICK b \in Nat : b = (NB_BUF - 1) * TFTPBLOCK /\ b + 1 >= INBUFF
      <3>1. NB_BUF - 1 \in Nat
        BY GetAssumption
      <3>2. QED
        BY <3>1, GetAssumption
    <2>5. a + TFTPBLOCK + b <= w + t /\ w < a + TFTPBLOCK /\ t < INBUFF
      BY <1>2, <1>3, <1>5, <2>1, <2>2, <2>3, <2>4
    <2>6. QED
      BY <2>3, <2>4, <2>5, GetAssumption
  <1>11. CASE ~(p + NB_BUF <= n)
    <2>1. n < p + NB_BUF
      BY <1>11, GetAssumption
    <2>2. Cardinality(Q) < NB_BUF
      BY <1>7, <1>8, <2>1, GetAssumption
    <2>3. QED
      BY <1>9, <2>2 DEF get_empty
  <1>12. QED
    BY <1>10, <1>11

LEMMA NeverStalls == GetInv /\ TransferInv => NoStall
  <1> SUFFICES ASSUME NetType, ClientType, Feed, Output, pc = "poll",
                      full \/ ~get_empty \/ (tftpend /\ sum), ~Work, end # 2
               PROVE  FALSE
    BY DEF GetInv, TransferInv, NoStall
  <1>1. ~full /\ ~CanInflate /\ ~CanGulp
    BY DEF Work
  <1>2. Transfer /\ Ending
    BY DEF Output, Transfer, Active
  <1>3. end = 0 /\ (sum => seen < Total(image, file))
    <2>1. end \in {0, 1, 2}
      BY DEF ClientType
    <2>2. QED
      BY <1>1, <1>2, <2>1 DEF Ending
  <1>4. compressed = <<>>
    BY <1>1, <1>3 DEF CanInflate
  <1>5. PICK t \in Nat : t = Len(tbuf)
    BY LenProperties DEF ClientType
  <1>6. t < INBUFF /\ (tftpend => t = 0)
    BY <1>1, <1>4, <1>5, GetAssumption DEF CanGulp, tot_lg
  <1>7. CASE tftpend /\ sum
    <2>1. PICK w \in Nat : w = seen
      BY DEF ClientType
    <2>2. Len(compressed) = 0
      BY <1>4
    <2>3. w + 0 + 0 = Total(image, file)
      BY <1>2, <1>5, <1>6, <1>7, <2>1, <2>2 DEF Feed, Received
    <2>4. QED
      BY <1>3, <1>7, <2>1, <2>3
  <1>8. CASE tftpend /\ ~sum
    <2>1. DOMAIN tbuf = {}
      <3>1. DOMAIN tbuf = 1 .. 0
        BY <1>5, <1>6, <1>8, LenProperties DEF ClientType
      <3>2. QED
        BY <3>1
    <2>2. InUse = 0
      BY <2>1, FS_EmptySet DEF InUse
    <2>3. QED
      BY <1>1, <1>8, <2>2, GetAssumption DEF get_empty
  <1>9. CASE ~tftpend
    BY <1>1, <1>2, <1>4, <1>5, <1>6, <1>9, BufferFree
  <1>10. QED
    BY <1>7, <1>8, <1>9

\* new_get never waits for a packet it has no buffer for, nor, of an undamaged stream,
\* for input after the last packet, for every size of the buffers that fits
\* (builtins_lbs.c 854-925).
THEOREM GetNoStall == Spec => []NoStall
  BY NeverStalls, TransferInvariant, PTL

\* A restore that ends well has put every used sector of the volume at its place but
\* for those the operator was told of, and touched no other but for damage, and then
\* none in front of the volume; a block file is always begun at its own place.  For
\* every volume, geometry and number of faults, and for damage anywhere in a block
\* file, its header and bitmap included (builtins_lbs.c 589-1036).
THEOREM GetRestores == Spec => []RestoredExactly
  <1>1. GetInv /\ TransferInv => RestoredExactly
    <2> SUFFICES ASSUME NetType, ClientType, Disk, pc = "done", ~holed, NEW s \in image.used
                 PROVE  Placed(disk, s)
      BY DEF GetInv, TransferInv, Disk, RestoredExactly, Placed
    <2>1. image \in Volumes /\ VolumeType(image) /\ Blocks(image) \in Nat \ {0}
      BY ImageOK DEF NetType
    <2>2. file = Blocks(image)
      BY DEF Disk
    <2>3. s \in Nat /\ s < image.lg * Byte
      <3>1. image.lg \in Nat \ {0} /\ image.used \subseteq 0 .. image.lg * Byte - 1
        BY <2>1, VolumeAssumption
      <3>2. image.lg * Byte \in Nat
        BY <3>1, FormatAssumption
      <3>3. QED
        BY <3>1, <3>2
    <2>4. PICK f \in 0 .. Blocks(image) - 1 : s \in UsedIn(image, f)
      BY <2>1, <2>3, InABlockFile
    <2>5. QED
      BY <2>2, <2>4 DEF Disk
  <1>2. QED
    BY <1>1, TransferInvariant, PTL

\* The abstract specification uses its own copy of the image format.
LEMMA SameImage ==
  ASSUME NEW v, NEW f
  PROVE  Copy!UsedIn(v, f) = UsedIn(v, f) /\ Copy!Blocks(v) = Blocks(v) /\ Copy!FirstOf(f) = FirstOf(f)
  BY DEF Copy!UsedIn, UsedIn, Copy!Slice, Slice, Copy!Lg, Lg, Copy!FirstOf, FirstOf, Copy!Blocks, Blocks

LEMMA GetCopyStarts == Init => Copy!CopyInit
  <1> SUFFICES ASSUME Init PROVE Copy!CopyInit
    OBVIOUS
  <1>1. /\ disk = [d \in 0 .. DiskSize - 1 |-> Old] /\ file = 0 /\ pc = "restart"
        /\ hurt = FALSE /\ holed = FALSE
    BY DEF Init
  <1>2. \A d \in DOMAIN disk : disk[d] = Copy!Old
    BY <1>1 DEF Old, Copy!Old
  <1>3. QED
    BY <1>1, <1>2 DEF Copy!CopyInit

\* Every step of the loader is one of the restore, or none.
LEMMA GetCopyStep == GetInv /\ TransferInv /\ [Next]_vars => [Copy!CopyNext]_(Copy!copyVars)
  <1> SUFFICES ASSUME NetType, ClientType, Output, Table, Disk, [Next]_vars
               PROVE  Copy!CopyNext \/ UNCHANGED Copy!copyVars
    BY DEF GetInv, TransferInv
  <1>1. ASSUME UNCHANGED <<image, disk, file, hurt, holed>>,
               pc' = pc \/ (pc \notin {"done", "failed"} /\ pc' \notin {"done", "failed"})
        PROVE  UNCHANGED Copy!copyVars
    BY <1>1 DEF Copy!copyVars
  <1>2. CASE UNCHANGED vars
    <2>1. UNCHANGED <<getVars, netVars, imageVars>>
      BY <1>2, Zenon DEF vars
    <2>2. UNCHANGED <<image, disk, file, hurt, holed, pc>>
      BY <2>1, Zenon DEF getVars, place, stream, writer, imageVars
    <2>3. QED
      BY <1>1, <2>2
  <1>3. CASE Serve \/ Resend \/ Lose \/ Damage
    <2>1. UNCHANGED <<getVars, imageVars>>
      BY <1>3, Zenon DEF Serve, Resend, Lose, Damage
    <2>2. UNCHANGED <<image, disk, file, hurt, holed, pc>>
      BY <2>1, Zenon DEF getVars, place, stream, writer, imageVars
    <2>3. QED
      BY <1>1, <2>2
  <1>4. CASE Request \/ FlushHeader \/ Inflate \/ Gulp
    <2>1. UNCHANGED <<image, disk, file, hurt, holed>>
      BY <1>4, Zenon DEF Request, FlushHeader, Inflate, Gulp, place, writer, imageVars
    <2>2. pc \in {"restart", "turn"} /\ pc' \in {"turn", "poll"}
      BY <1>4 DEF Request, FlushHeader, Inflate, Gulp
    <2>3. QED
      BY <1>1, <2>1, <2>2
  <1>5. CASE NoWork \/ Key \/ NoPacket \/ Returns
    <2>1. UNCHANGED <<image, disk, file, hurt, holed>>
      BY <1>5, Zenon DEF NoWork, Key, NoPacket, Returns, place, stream, writer, imageVars
    <2>2. pc \in {"turn", "key", "poll"} /\ pc' \in {"turn", "poll", "return"}
      BY <1>5 DEF NoWork, Key, NoPacket, Returns
    <2>3. QED
      BY <1>1, <2>1, <2>2
  <1>6. CASE ReceiveOack \/ ReceiveData
    <2>1. UNCHANGED <<image, disk, file, hurt, holed>>
      BY <1>6, Zenon DEF ReceiveOack, ReceiveData, place, stream, writer, imageVars
    <2>2. pc = "poll" /\ pc' \in {"turn", "return"}
      BY <1>6 DEF ReceiveOack, ReceiveData, Arrives, AfterPacket
    <2>3. QED
      BY <1>1, <2>1, <2>2
  <1>7. CASE ZlibError \/ ReceiveWrong \/ Timeout
    <2>1. UNCHANGED <<image, disk, file, hurt, holed>>
      BY <1>7, Zenon DEF ZlibError, ReceiveWrong, Timeout, Restart, place, stream, writer, imageVars
    <2>2. pc \in {"turn", "poll"} /\ pc' = "restart"
      BY <1>7 DEF ZlibError, ReceiveWrong, Timeout, Arrives, Restart
    <2>3. QED
      BY <1>1, <2>1, <2>2
  <1>8. CASE ReceiveNotFound
    <2>1. image' = image /\ pc' = "failed"
      BY <1>8 DEF ReceiveNotFound, imageVars
    <2>2. QED
      BY <2>1 DEF Copy!CopyNext, Copy!Fail
  <1>9. CASE InflateDamaged
    <2>1. pc = "turn" /\ pc' = "poll" /\ hurt' = TRUE /\ UNCHANGED <<image, disk, file, holed>>
      BY <1>9 DEF InflateDamaged, place, writer, imageVars
    <2>2. CASE holed'
      BY <2>1, <2>2 DEF Copy!CopyNext, Copy!Fail
    <2>3. CASE ~holed'
      <3>1. Copy!WriteSome
        BY <2>1, <2>3 DEF Copy!WriteSome
      <3>2. QED
        BY <3>1 DEF Copy!CopyNext
    <2>4. QED
      BY <2>2, <2>3
  <1>10. CASE FlushData
    <2>1. pc = "turn" /\ pc' \in {"key", "poll"} /\ UNCHANGED <<image, file, holed, hurt, sum>>
      BY <1>10 DEF FlushData, place, imageVars
    <2>2. curr = Start + FirstOf(file) /\ FirstOf(file) \in Nat /\ Start \in Nat /\ (~sum => hurt)
      BY <2>1, AtWork, GetAssumption DEF Disk
    <2>3. curr \in Nat
      BY <2>2
    <2>4. DOMAIN disk' = DOMAIN disk /\ \A d \in DOMAIN disk : disk'[d] # disk[d] => d \in Int /\ d >= curr
      BY <1>10, <2>3, FlushBeyond
    <2>5. ASSUME NEW d \in DOMAIN disk, disk'[d] # disk[d]
          PROVE  d - Start \in UsedIn(image, file) \/ (hurt' /\ d - Start >= FirstOf(file))
      <3>1. CASE sum
        BY <1>10, <2>5, <3>1, BufferWrites
      <3>2. CASE ~sum
        <4>1. d \in Int /\ d >= curr
          BY <2>4, <2>5
        <4>2. QED
          BY <2>1, <2>2, <3>2, <4>1
      <3>3. QED
        BY <3>1, <3>2
    <2>6. CASE holed'
      BY <2>1, <2>6 DEF Copy!CopyNext, Copy!Fail
    <2>7. CASE ~holed'
      <3>1. Copy!WriteSome
        BY <2>1, <2>4, <2>5, <2>7, SameImage DEF Copy!WriteSome
      <3>2. QED
        BY <3>1 DEF Copy!CopyNext
    <2>8. QED
      BY <2>6, <2>7
  <1>11. CASE NextFile
    <2>1. /\ pc = "return" /\ UNCHANGED <<image, disk, hurt>> /\ file' = file + 1
          /\ pc' = IF file + 1 < files THEN "restart" ELSE "done"
      BY <1>11 DEF NextFile, stream, writer, imageVars
    <2>2. CASE holed'
      BY <2>1, <2>2 DEF Copy!CopyNext, Copy!Fail
    <2>3. CASE ~holed'
      <3>1. ~holed /\ ~told
        BY <1>11, <2>3 DEF NextFile
      <3>2. files = Blocks(image) /\ \A s \in UsedIn(image, file) : Placed(disk, s)
        BY <2>1, <3>1, FileComplete
      <3>3. file \in Nat /\ file < Blocks(image) /\ Blocks(image) \in Nat
        BY <2>1, AtWork
      <3>4. pc' = IF file' = Blocks(image) THEN "done" ELSE "restart"
        BY <2>1, <3>2, <3>3
      <3>5. Copy!Restored(file)
        BY <3>2, SameImage DEF Placed, Copy!Restored
      <3>6. Copy!FinishFile
        BY <2>1, <2>3, <3>1, <3>3, <3>4, <3>5, SameImage DEF Copy!FinishFile
      <3>7. QED
        BY <3>6 DEF Copy!CopyNext
    <2>4. QED
      BY <2>2, <2>3
  <1>12. QED
    BY <1>2, <1>3, <1>4, <1>5, <1>6, <1>7, <1>8, <1>9, <1>10, <1>11 DEF Next, Client, Finished

\* Block files reach the disk in order, each complete before the next is begun or
\* the operator told, and not even a damaged bitmap harms the earlier ones: the loader
\* implements ImageCopy too, whatever the network does (builtins_lbs.c 471-497 and
\* 589-1036).
THEOREM GetCopied == Spec => CopiesImage
  BY TransferInvariant, GetCopyStarts, GetCopyStep, PTL DEF Spec, CopiesImage, Copy!CopySpec
================================================================================
