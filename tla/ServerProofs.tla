------------------------------ MODULE ServerProofs ------------------------------
(***************************************************************************)
(* Theorems about the server, for every request, every answer and every    *)
(* way in which the request's bytes arrive: first about                    *)
(* ServerHandshake::run on its own, then about the whole session, in which *)
(* a WebSocket takes over the stream where run() stopped reading it.       *)
(***************************************************************************)
EXTENDS ServerSession, WebSocketProofs

\* run() and the network keep the socket's variables in their ranges.
LEMMA ShutType ==
  ASSUME SocketTypeOK, Stop, tx' \in Seq(Byte)
  PROVE  SocketTypeOK'
<1>1. <<>> \in Seq(Byte)
  OBVIOUS
<1> QED BY <1>1 DEF SocketTypeOK, Stop

LEMMA SubSeqBytes ==
  ASSUME NEW s \in Seq(Byte), NEW m \in 1..(Len(s) + 1), NEW n \in Nat, n <= Len(s)
  PROVE  SubSeq(s, m, n) \in Seq(Byte)
  OBVIOUS

\* A value is cut out of a line that has the prefix in front of it.
LEMMA ValueBytes ==
  ASSUME NEW line \in Seq(Byte), NEW prefix \in Seq(Byte)
  PROVE  ValueAfter(prefix, line) \in Seq(Byte)
<1> DEFINE first == Len(prefix) + 1
           last == Len(line) - 2
<1>1. first \in Nat \ {0} /\ last \in Int /\ last <= Len(line)
  OBVIOUS
<1>2. CASE last < first
  <2>1. SubSeq(line, first, last) = <<>> /\ <<>> \in Seq(Byte)
    BY <1>1, <1>2
  <2> QED BY <2>1 DEF ValueAfter
<1>3. CASE ~(last < first)
  BY <1>1, <1>3, SubSeqBytes DEF ValueAfter
<1> QED BY <1>2, <1>3

LEMMA ServerInitType == ServerInit => ServerTypeOK
<1>1. <<>> \in Seq(Byte)
  OBVIOUS
<1> QED BY <1>1 DEF ServerInit, SocketInit, ServerTypeOK, SocketTypeOK

LEMMA ReadRequestByteType ==
  ASSUME ServerTypeOK, ReadRequestByte
  PROVE  ServerTypeOK'
<1>1. rx \in Seq(Byte) /\ rx # <<>> /\ temp \in Seq(Byte)
  <2>1. rx = <<>> => RequestByte = -1
    BY DEF RequestByte
  <2> QED BY <2>1 DEF ReadRequestByte, MoreToRead, ServerTypeOK, SocketTypeOK
<1>2. RequestByte \in Byte /\ rx' \in Seq(Byte)
  BY <1>1 DEF ReadRequestByte, RequestByte
<1>3. SocketTypeOK'
  BY <1>2 DEF ReadRequestByte, ServerTypeOK, SocketTypeOK
<1> DEFINE line == Append(temp, RequestByte)
<1>4. line \in Seq(Byte) /\ <<>> \in Seq(Byte)
  BY <1>1, <1>2
<1> HIDE DEF line
<1>5. temp' \in Seq(Byte)
  BY <1>4 DEF ReadRequestByte, line
<1>6. ASSUME TakeLine(line)
      PROVE  foundupgrade' \in BOOLEAN /\ newkey' \in Seq(Byte) /\ origin_' \in Seq(Byte)
  <2>1. ValueAfter(OriginPrefix, line) \in Seq(Byte) /\ ValueAfter(KeyPrefix, line) \in Seq(Byte)
    BY <1>4, ValueBytes, RequestsAssumption
  <2> QED BY <1>6, <2>1 DEF TakeLine, ServerTypeOK
<1>7. foundupgrade' \in BOOLEAN /\ newkey' \in Seq(Byte) /\ origin_' \in Seq(Byte)
  BY <1>6 DEF ReadRequestByte, ServerTypeOK, line
<1> QED BY <1>3, <1>5, <1>7 DEF ReadRequestByte, ServerTypeOK

LEMMA ServerStepType ==
  ASSUME ServerTypeOK, ServerStep
  PROVE  ServerTypeOK'
<1>1. CASE StartRun
  BY <1>1 DEF StartRun, ServerTypeOK, SocketTypeOK, socketVars
<1>2. CASE Decide
  <2>1. tx' \in Seq(Byte)
    <3>1. tx \in Seq(Byte) /\ tx \o Response \in Seq(Byte)
      BY RequestsAssumption DEF ServerTypeOK, SocketTypeOK
    <3> QED BY <1>2, <3>1 DEF Decide, Write
  <2> QED BY <1>2, <2>1 DEF Decide, ServerTypeOK, SocketTypeOK
<1>3. CASE Refuse
  <2>1. tx' \in Seq(Byte)
    <3>1. Quit \in Seq(Byte) /\ tx \in Seq(Byte)
      BY DEF Quit, Byte, ServerTypeOK, SocketTypeOK
    <3>2. tx \o Quit \in Seq(Byte)
      BY <3>1
    <3> QED BY <1>3, <3>2 DEF Refuse, Terminate
  <2>2. SocketTypeOK'
    BY <1>3, <2>1, ShutType DEF Refuse, Terminate, ServerTypeOK
  <2> QED BY <1>3, <2>2 DEF Refuse, ServerTypeOK
<1> QED BY <1>1, <1>2, <1>3, ReadRequestByteType DEF ServerStep

LEMMA ServerPeerType ==
  ASSUME ServerTypeOK,
         RequestArrives \/ ClientLeaves \/ \E r \in Requests : ClientSends(r)
  PROVE  ServerTypeOK'
<1>1. CASE RequestArrives
  <2>1. PICK k \in 1..Len(wire) : Arrive(k)
    BY <1>1 DEF RequestArrives
  <2>2. wire \in Seq(Byte) /\ rx \in Seq(Byte) /\ Len(wire) \in Nat
    BY DEF ServerTypeOK, SocketTypeOK
  <2>3. SubSeq(wire, 1, k) \in Seq(Byte) /\ SubSeq(wire, k + 1, Len(wire)) \in Seq(Byte)
    BY <2>2, SubSeqBytes
  <2>4. rx' \in Seq(Byte) /\ wire' \in Seq(Byte)
    BY <2>1, <2>2, <2>3 DEF Arrive
  <2> QED BY <1>1, <2>1, <2>4 DEF RequestArrives, Arrive, requestVars, ServerTypeOK, SocketTypeOK
<1>2. CASE ClientLeaves
  <2>1. <<>> \in Seq(Byte)
    OBVIOUS
  <2>2. SocketTypeOK'
    BY <1>2, <2>1 DEF ClientLeaves, PeerCloses, PeerVanishes, ServerTypeOK, SocketTypeOK
  <2> QED BY <1>2, <2>2 DEF ClientLeaves, requestVars, ServerTypeOK
<1>3. ASSUME NEW r \in Requests, ClientSends(r) PROVE ServerTypeOK'
  <2>1. r.bytes \in Seq(Byte) /\ wire \in Seq(Byte)
    BY RequestsAssumption DEF ServerTypeOK, SocketTypeOK
  <2>2. wire \o r.bytes \in Seq(Byte)
    BY <2>1
  <2> QED BY <1>3, <2>2 DEF ClientSends, PeerWrites, ServerTypeOK, SocketTypeOK
<1> QED BY <1>1, <1>2, <1>3

\* Every variable keeps its range, whatever lines the client sends.
THEOREM RequestsTyped == ServerSpec => []ServerTypeOK
<1>1. ServerTypeOK /\ [ServerNext]_serverVars => ServerTypeOK'
  <2> SUFFICES ASSUME ServerTypeOK, [ServerNext]_serverVars
               PROVE  ServerTypeOK'
    OBVIOUS
  <2>1. CASE UNCHANGED serverVars
    BY <2>1 DEF serverVars, socketVars, requestVars, ServerTypeOK, SocketTypeOK
  <2> QED BY <2>1, ServerStepType, ServerPeerType DEF ServerNext
<1> QED BY <1>1, ServerInitType, PTL DEF ServerSpec

-------------------------------------------------------------------------------
(* How run() ends. *)

\* Until run() has decided, nothing is written and nothing established.
Undecided == spc # "done" => tx = <<>> /\ established = FALSE

LEMMA UndecidedStep == Undecided /\ [ServerNext]_serverVars => Undecided'
  BY DEF Undecided, ServerNext, ServerStep, StartRun, ReadRequestByte, Decide, Refuse,
         RequestArrives, Arrive, ClientLeaves, PeerCloses, PeerVanishes, ClientSends, PeerWrites,
         serverVars, socketVars, requestVars

\* The step that ends run().
LEMMA VerdictStep ==
  ASSUME ServerTypeOK, Undecided, [ServerNext]_serverVars, spc # "done", spc' = "done"
  PROVE  IF established' THEN up' /\ tx' = Response
         ELSE (~Connected)' /\ tx' \in {<<>>, Quit}
<1>1. tx = <<>> /\ established = FALSE
  BY DEF Undecided
<1>2. CASE StartRun
  BY <1>1, <1>2 DEF StartRun, Connected, socketVars
<1>3. CASE Decide
  <2>1. <<>> \o Response = Response
    BY RequestsAssumption
  <2> QED BY <1>1, <1>3, <2>1 DEF Decide, Write, Connected
<1>4. CASE Refuse
  <2>1. <<>> \o Quit = Quit
    BY DEF Quit
  <2> QED BY <1>1, <1>4, <2>1 DEF Refuse, Terminate, Stop, Connected
<1> QED BY <1>2, <1>3, <1>4
        DEF ServerNext, ServerStep, ReadRequestByte, RequestArrives, ClientLeaves, ClientSends,
            serverVars, requestVars

\* run() answers and leaves the connection up, or stops it and answers nothing
\* but its two bytes of goodbye.
THEOREM RunAnswersOrStops == ServerSpec => AnsweredOrStopped
<1>1. ServerInit => Undecided
  BY DEF ServerInit, SocketInit, Undecided
<1>2. ServerTypeOK /\ Undecided /\ [ServerNext]_serverVars
        => [spc # "done" /\ spc' = "done" =>
              IF established' THEN up' /\ tx' = Response
              ELSE (~Connected)' /\ tx' \in {<<>>, Quit}]_serverVars
  BY VerdictStep
<1> QED BY <1>1, <1>2, UndecidedStep, RequestsTyped, PTL DEF ServerSpec, AnsweredOrStopped

-------------------------------------------------------------------------------
(* The key that is answered. *)

\* The first n bytes of s have been read, and those from b on are the line so far.
InRequestLine(s, b, n) ==
  /\ b \in 1..n + 1 /\ n \in 0..Len(s)
  /\ b = 1 \/ s[b - 1] = LineFeed
  /\ \A p \in b..n : s[p] # LineFeed
  /\ temp = SubSeq(s, b, n)

\* The stream holds no more of s than what comes behind its first n bytes.
RestFollows(s, n) ==
  /\ StreamLength > 0 => StreamLength <= Len(s) - n
  /\ \A p \in 1..StreamLength : StreamAt(p) = s[n + p]

RequestRead ==
  \E b, n \in Nat : InRequestLine(request.bytes, b, n) /\ RestFollows(request.bytes, n)

\* Until it has answered, run() has read a part of the request up to some byte of
\* a line; the key is none or the one of the request, and there is one if it has.
KeyInv ==
  /\ ~established => RequestRead
  /\ newkey \in {<<>>, request.key}
  /\ established => newkey # <<>> /\ spc = "done"

AllNameKeys == \A r \in Requests : NamesKey(r)

LEMMA OneMoreOfLine ==
  ASSUME NEW s \in Seq(Byte), NEW n \in Nat, n < Len(s), NEW b \in 1..n + 1
  PROVE  /\ Append(SubSeq(s, b, n), s[n + 1]) = SubSeq(s, b, n + 1)
         /\ SubSeq(s, n + 2, n + 1) = <<>>
<1> DEFINE t == Append(SubSeq(s, b, n), s[n + 1])
           u == SubSeq(s, b, n + 1)
<1>1. SubSeq(s, b, n) \in Seq(Byte) /\ Len(SubSeq(s, b, n)) = n + 1 - b /\ n + 1 \in 1..Len(s)
  OBVIOUS
<1>2. t \in Seq(Byte) /\ u \in Seq(Byte) /\ Len(t) = n + 2 - b /\ Len(u) = n + 2 - b
  BY <1>1
<1>3. \A p \in 1..n + 2 - b : t[p] = u[p]
  <2> SUFFICES ASSUME NEW p \in 1..n + 2 - b PROVE t[p] = u[p]
    OBVIOUS
  <2>1. u[p] = s[b + p - 1]
    OBVIOUS
  <2>2. CASE p \in 1..n + 1 - b
    <3>1. t[p] = SubSeq(s, b, n)[p]
      BY <1>1, <2>2
    <3>2. SubSeq(s, b, n)[p] = s[b + p - 1]
      BY <2>2
    <3> QED BY <2>1, <3>1, <3>2
  <2>3. CASE p = n + 2 - b
    <3>1. t[p] = s[n + 1] /\ b + p - 1 = n + 1
      BY <1>1, <2>3
    <3> QED BY <2>1, <3>1
  <2> QED BY <2>2, <2>3
<1>4. t = u
  <2> HIDE DEF t, u
  <2> QED BY <1>2, <1>3
<1> QED BY <1>4

\* What stands between the prefix and the line's end is the value.
LEMMA ValueOfLine ==
  ASSUME NEW prefix \in Seq(Byte), NEW value \in Seq(Byte)
  PROVE  ValueAfter(prefix, prefix \o value \o <<13, LineFeed>>) = value
<1> DEFINE front == prefix \o value
           line == front \o <<13, LineFeed>>
           n == Len(prefix)
           v == Len(value)
<1>1. n \in Nat /\ v \in Nat /\ <<13, LineFeed>> \in Seq(Byte) /\ Len(<<13, LineFeed>>) = 2
  BY DEF Byte, LineFeed
<1>2. /\ front \in Seq(Byte) /\ Len(front) = n + v
      /\ \A p \in n + 1..n + v : front[p] = value[p - n]
  BY SequencesJoined
<1>3. /\ line \in Seq(Byte) /\ Len(line) = n + v + 2 /\ \A p \in 1..n + v : line[p] = front[p]
  <2> HIDE DEF front, n, v
  <2> QED BY <1>1, <1>2, SequencesJoined
<1>4. ValueAfter(prefix, line) = SubSeq(line, n + 1, n + v)
  <2>1. Len(line) - 2 = n + v
    BY <1>1, <1>3
  <2> QED BY <2>1 DEF ValueAfter
<1> HIDE DEF line, front
<1> DEFINE w == SubSeq(line, n + 1, n + v)
<1>5. w \in Seq(Byte) /\ Len(w) = v /\ \A p \in 1..v : w[p] = line[n + p]
  <2> HIDE DEF n, v
  <2> QED BY <1>1, <1>3
<1>6. \A p \in 1..v : w[p] = value[p]
  <2> SUFFICES ASSUME NEW p \in 1..v PROVE w[p] = value[p]
    OBVIOUS
  <2> HIDE DEF n, v, w
  <2>1. n + p \in 1..n + v /\ n + p \in n + 1..n + v /\ (n + p) - n = p
    BY <1>1
  <2> QED BY <1>2, <1>3, <1>5, <2>1
<1>7. w = value
  <2> HIDE DEF w
  <2> QED BY <1>5, <1>6
<1> QED BY <1>4, <1>7 DEF line, front

\* A line that is taken leaves the key none or the request's.
LEMMA LineKeepsKey ==
  ASSUME ServerTypeOK, newkey \in {<<>>, request.key}, NEW line, TakeLine(line),
         request.key \in Seq(Byte),
         IsPrefix(KeyPrefix, line) => line = KeyPrefix \o request.key \o <<13, LineFeed>>
  PROVE  newkey' \in {<<>>, request.key}
<1>1. CASE newkey' = newkey
  BY <1>1
<1>2. CASE IsPrefix(KeyPrefix, line) /\ newkey' = ValueAfter(KeyPrefix, line)
  <2>1. newkey' = request.key
    BY <1>2, ValueOfLine, RequestsAssumption
  <2> QED BY <2>1
<1> QED BY <1>1, <1>2 DEF TakeLine

\* What the request is, before and after it has come.
LEMMA RequestType ==
  ASSUME ServerTypeOK
  PROVE  /\ request.bytes \in Seq(Byte) /\ request.key \in Seq(Byte)
         /\ AllNameKeys => NamesKey(request)
<1>1. NoRequest.bytes \in Seq(Byte) /\ NoRequest.key \in Seq(Byte) /\ NoRequest.bytes = <<>>
  BY DEF NoRequest
<1>2. DOMAIN NoRequest.bytes = {}
  BY <1>1
<1>3. NamesKey(NoRequest)
  BY <1>2 DEF NamesKey
<1> QED BY <1>1, <1>3, RequestsAssumption DEF ServerTypeOK, AllNameKeys

\* A byte of the request is read.
LEMMA ReadByteKeeps ==
  ASSUME AllNameKeys, ServerTypeOK, KeyInv, ReadRequestByte
  PROVE  KeyInv'
<1> DEFINE s == request.bytes
<1>1. /\ ~established /\ established' = FALSE /\ request' = request /\ s \in Seq(Byte)
      /\ request.key \in Seq(Byte) /\ NamesKey(request)
  BY RequestType DEF KeyInv, ReadRequestByte, ServerTypeOK
<1>2. PICK b \in Nat, n \in Nat : InRequestLine(s, b, n) /\ RestFollows(s, n)
  BY <1>1 DEF KeyInv, RequestRead
<1>3. /\ RequestByte = StreamAt(1) /\ 1 \in 1..StreamLength /\ StreamLength \in Nat
      /\ rx \in Seq(Byte) /\ Len(rx) \in Nat /\ 1 <= Len(rx) /\ SocketTypeOK
  <2>1. SocketTypeOK
    BY DEF ServerTypeOK
  <2>2. rx \in Seq(Byte) /\ rx # <<>> /\ RequestByte = rx[1]
    BY <2>1 DEF RequestByte, ReadRequestByte, MoreToRead, SocketTypeOK
  <2>3. Len(rx) \in Nat /\ Len(wire) \in Nat /\ 1 <= Len(rx)
    BY <2>1, <2>2, StreamNat
  <2> QED BY <2>1, <2>2, <2>3 DEF StreamAt, StreamLength
<1>4. StreamCut(1) /\ StreamLength' = StreamLength - 1
  <2>1. 1 \in 0..Len(rx) /\ rx' = SubSeq(rx, 1 + 1, Len(rx)) /\ UNCHANGED <<up, peer, wire>>
    BY <1>3 DEF ReadRequestByte
  <2> QED BY <1>3, <2>1, ReadCut
<1>5. n \in 0..Len(s) /\ b \in 1..n + 1 /\ StreamLength <= Len(s) - n
  BY <1>2, <1>3 DEF InRequestLine, RestFollows
<1>6. n < Len(s) /\ RequestByte = s[n + 1]
  BY <1>1, <1>2, <1>3, <1>5 DEF RestFollows
<1>7. RestFollows(s, n + 1)'
  <2>1. StreamLength' <= Len(s) - (n + 1)
    BY <1>1, <1>3, <1>4, <1>5
  <2>2. ASSUME NEW p \in 1..StreamLength' PROVE StreamAt(p)' = s[(n + 1) + p]
    <3>1. p + 1 \in 1..StreamLength
      BY <1>3, <1>4
    <3>2. StreamAt(p)' = StreamAt(p + 1)
      BY <1>4 DEF StreamCut
    <3>3. StreamAt(p + 1) = s[n + (p + 1)]
      BY <1>2, <3>1 DEF RestFollows
    <3>4. n + (p + 1) = (n + 1) + p
      OBVIOUS
    <3> QED BY <3>2, <3>3, <3>4
  <2>3. \A p : StreamAt(p)' = StreamAt(p)'
    OBVIOUS
  <2> QED BY <1>1, <2>1, <2>2 DEF RestFollows
<1> DEFINE line == Append(temp, RequestByte)
<1>8. line = SubSeq(s, b, n + 1) /\ SubSeq(s, n + 2, n + 1) = <<>>
  BY <1>1, <1>2, <1>5, <1>6, OneMoreOfLine DEF InRequestLine
<1>9. CASE RequestByte = LineFeed
  <2>1. temp' = <<>> /\ TakeLine(line)
    BY <1>9 DEF ReadRequestByte
  <2>2. IsLine(s, b, n + 1) /\ n + 1 \in DOMAIN s /\ b \in 1..n + 1
    <3>1. n + 1 \in 1..Len(s) /\ (n + 1) - 1 = n
      BY <1>1, <1>5, <1>6
    <3> QED BY <1>1, <1>2, <1>5, <1>6, <1>9, <3>1 DEF IsLine, InRequestLine
  <2>3. IsPrefix(KeyPrefix, line) => line = KeyPrefix \o request.key \o <<13, LineFeed>>
    BY <1>1, <1>8, <2>2 DEF NamesKey
  <2>4. newkey' \in {<<>>, request.key}
    <3>1. newkey \in {<<>>, request.key}
      BY DEF KeyInv
    <3> HIDE DEF line
    <3> QED BY <1>1, <2>1, <2>3, <3>1, LineKeepsKey
  <2>5. InRequestLine(s, n + 2, n + 1)'
    <3>1. n + 2 \in 1..(n + 1) + 1 /\ n + 1 \in 0..Len(s) /\ (n + 2) - 1 = n + 1
      BY <1>1, <1>5, <1>6
    <3>2. \A p \in n + 2..n + 1 : FALSE
      OBVIOUS
    <3> QED BY <1>1, <1>6, <1>8, <1>9, <2>1, <3>1, <3>2 DEF InRequestLine
  <2>6. n + 2 \in Nat /\ n + 1 \in Nat
    OBVIOUS
  <2>7. RequestRead'
    BY <1>1, <1>7, <2>5, <2>6 DEF RequestRead
  <2> QED BY <1>1, <2>4, <2>7 DEF KeyInv
<1>10. CASE RequestByte # LineFeed
  <2>1. temp' = line /\ newkey' = newkey
    BY <1>10 DEF ReadRequestByte
  <2>2. InRequestLine(s, b, n + 1)'
    <3>1. b \in 1..(n + 1) + 1 /\ n + 1 \in 0..Len(s)
      BY <1>1, <1>5, <1>6
    <3>2. \A p \in b..n + 1 : p \in b..n \/ p = n + 1
      BY <1>5
    <3> QED BY <1>1, <1>2, <1>6, <1>8, <1>10, <2>1, <3>1, <3>2 DEF InRequestLine
  <2>3. n + 1 \in Nat
    OBVIOUS
  <2>4. RequestRead'
    BY <1>1, <1>7, <2>2, <2>3 DEF RequestRead
  <2> QED BY <1>1, <2>1, <2>4 DEF KeyInv
<1> QED BY <1>9, <1>10

\* The network delivers, or the client leaves.
LEMMA CutKeepsRead ==
  ASSUME ServerTypeOK, SocketTypeOK', StreamCut(0), RequestRead, UNCHANGED <<temp, request>>
  PROVE  RequestRead'
<1>1. PICK b \in Nat, n \in Nat : InRequestLine(request.bytes, b, n) /\ RestFollows(request.bytes, n)
  BY DEF RequestRead
<1>2. InRequestLine(request.bytes, b, n)'
  BY <1>1 DEF InRequestLine
<1>3. StreamLength \in Nat /\ StreamLength' \in Nat
  <2>1. rx' \in Seq(Byte) /\ wire' \in Seq(Byte)
    BY DEF SocketTypeOK
  <2>2. StreamLength' \in Nat
    BY <2>1 DEF StreamLength
  <2> QED BY <2>2, StreamNat DEF ServerTypeOK
<1>4. ASSUME StreamLength' > 0 PROVE StreamLength' <= StreamLength /\ StreamLength > 0
  BY <1>3, <1>4 DEF StreamCut
<1>5. ASSUME NEW p \in 1..StreamLength' PROVE StreamAt(p)' = request.bytes[n + p]
  <2>1. p \in 1..StreamLength /\ p + 0 = p
    BY <1>3, <1>4
  <2>2. StreamAt(p)' = StreamAt(p)
    BY <2>1 DEF StreamCut
  <2> QED BY <1>1, <2>1, <2>2 DEF RestFollows
<1>6. StreamLength' > 0 => StreamLength' <= Len(request.bytes) - n
  <2>1. n \in Nat /\ Len(request.bytes) \in Nat
    BY RequestType
  <2> QED BY <1>1, <1>3, <1>4, <2>1 DEF RestFollows
<1>7. RestFollows(request.bytes, n)'
  BY <1>5, <1>6 DEF RestFollows
<1> QED BY <1>2, <1>7 DEF RequestRead

\* The request is written to an empty stream, whatever run() is doing.
LEMMA SendKeeps ==
  ASSUME ServerTypeOK, KeyInv, NEW r \in Requests, ClientSends(r)
  PROVE  KeyInv'
<1>1. /\ request = NoRequest /\ request' = r /\ PeerWrites(r.bytes)
      /\ UNCHANGED <<spc, temp, foundupgrade, newkey, origin_, established>>
  BY DEF ClientSends
<1>2. newkey = <<>> /\ ~established /\ RequestRead
  BY <1>1 DEF KeyInv, NoRequest
<1>3. r.bytes \in Seq(Byte) /\ SocketTypeOK
  BY RequestsAssumption DEF ServerTypeOK
<1>4. PICK b \in Nat, n \in Nat : InRequestLine(<<>>, b, n) /\ RestFollows(<<>>, n)
  BY <1>1, <1>2 DEF RequestRead, NoRequest
<1>5. n = 0 /\ b = 1 /\ temp = <<>>
  BY <1>4 DEF InRequestLine
<1>6. StreamLength = 0
  <2>1. StreamLength \in Nat
    BY <1>3, StreamNat
  <2> QED BY <1>4, <1>5, <2>1 DEF RestFollows
<1>7. StreamLength' = Len(r.bytes) /\ \A p \in 1..Len(r.bytes) : StreamAt(p)' = r.bytes[p]
  <2>1. /\ StreamLength' = StreamLength + Len(r.bytes)
        /\ \A p \in StreamLength + 1..StreamLength + Len(r.bytes) :
             StreamAt(p)' = r.bytes[p - StreamLength]
    BY <1>1, <1>3, WritesGrow
  <2> QED BY <1>3, <1>6, <2>1
<1>8. InRequestLine(r.bytes, 1, 0)'
  <2>1. SubSeq(r.bytes, 1, 0) = <<>> /\ Len(r.bytes) \in Nat
    BY <1>3
  <2> QED BY <1>1, <1>5, <2>1 DEF InRequestLine
<1>9. RestFollows(r.bytes, 0)'
  BY <1>3, <1>7 DEF RestFollows
<1>10. RequestRead'
  BY <1>1, <1>8, <1>9 DEF RequestRead
<1> QED BY <1>1, <1>2, <1>10 DEF KeyInv

\* A step of run() that reads nothing.
LEMMA RunKeeps ==
  ASSUME ServerTypeOK, SocketTypeOK', KeyInv, StartRun \/ Decide \/ Refuse
  PROVE  KeyInv'
<1>1. UNCHANGED <<temp, newkey, request>> /\ ~established /\ RequestRead
  BY DEF StartRun, Decide, Refuse, KeyInv
<1>2. StreamLength' = StreamLength \/ StreamLength' = 0
  BY DEF StartRun, Decide, Refuse, Terminate, Stop, socketVars, StreamLength
<1>3. StreamLength \in Nat
  BY StreamNat DEF ServerTypeOK
<1>4. StreamCut(0)
  <2>1. CASE Refuse
    BY <1>3, <2>1 DEF Refuse, Terminate, Stop, StreamCut, StreamLength
  <2>2. CASE StartRun \/ Decide
    <3>1. UNCHANGED <<up, peer, wire, rx>>
      BY <2>2 DEF StartRun, Decide, socketVars
    <3>2. StreamLength' = StreamLength /\ \A p : StreamAt(p)' = StreamAt(p)
      BY <3>1 DEF StreamLength, StreamAt
    <3> QED BY <1>3, <3>1, <3>2 DEF StreamCut
  <2> QED BY <2>1, <2>2
<1>5. RequestRead'
  BY <1>1, <1>4, CutKeepsRead
<1>6. established' => newkey' # <<>> /\ spc' = "done"
  BY <1>1 DEF StartRun, Decide, Refuse, Acceptable
<1> QED BY <1>1, <1>5, <1>6 DEF KeyInv

LEMMA KeyInvStays ==
  ASSUME AllNameKeys, ServerTypeOK, ServerTypeOK', KeyInv, [ServerNext]_serverVars
  PROVE  KeyInv'
<1>1. SocketTypeOK /\ SocketTypeOK'
  BY DEF ServerTypeOK
<1>2. CASE ServerStep
  BY <1>1, <1>2, ReadByteKeeps, RunKeeps DEF ServerStep
<1>3. CASE RequestArrives \/ ClientLeaves \/ UNCHANGED serverVars
  <2>1. UNCHANGED requestVars
    BY <1>3 DEF RequestArrives, ClientLeaves, serverVars
  <2>2. StreamCut(0)
    <3>1. CASE RequestArrives \/ ClientLeaves
      BY <1>1, <3>1, NetworkCut DEF RequestArrives, ClientLeaves
    <3>2. CASE UNCHANGED serverVars
      <4>1. StreamLength' = StreamLength /\ \A p : StreamAt(p)' = StreamAt(p)
        BY <3>2 DEF serverVars, socketVars, StreamLength, StreamAt
      <4>2. StreamLength \in Nat
        BY <1>1, StreamNat
      <4> QED BY <3>2, <4>1, <4>2 DEF serverVars, socketVars, StreamCut
    <3> QED BY <1>3, <3>1, <3>2
  <2>3. RequestRead => RequestRead'
    BY <1>1, <2>1, <2>2, CutKeepsRead DEF requestVars
  <2> QED BY <2>1, <2>3 DEF KeyInv, requestVars
<1>4. CASE \E r \in Requests : ClientSends(r)
  BY <1>4, SendKeeps
<1> QED BY <1>2, <1>3, <1>4 DEF ServerNext

LEMMA KeyInvInit == ServerInit => KeyInv
<1> SUFFICES ASSUME ServerInit PROVE KeyInv
  OBVIOUS
<1>1. rx = <<>> /\ wire = <<>> /\ temp = <<>> /\ newkey = <<>> /\ request = NoRequest /\ ~established
  BY DEF ServerInit, SocketInit
<1>2. StreamLength = 0
  BY <1>1 DEF StreamLength
<1>3. InRequestLine(<<>>, 1, 0) /\ RestFollows(<<>>, 0)
  <2>1. SubSeq(<<>>, 1, 0) = <<>> /\ Len(<<>>) = 0
    OBVIOUS
  <2> QED BY <1>1, <1>2, <2>1 DEF InRequestLine, RestFollows
<1>4. RequestRead
  BY <1>1, <1>3 DEF RequestRead, NoRequest
<1> QED BY <1>1, <1>4 DEF KeyInv

\* Whatever pieces a request comes in, and wherever its key's line is: run() never
\* answers with a part of the key, with no key or with one of another line.
THEOREM AnswersWholeKey ==
  ASSUME AllNameKeys PROVE ServerSpec => []KeyIsWhole
<1>1. ServerTypeOK /\ ServerTypeOK' /\ KeyInv /\ [ServerNext]_serverVars => KeyInv'
  BY KeyInvStays
<1>2. KeyInv => KeyIsWhole
  BY DEF KeyInv, KeyIsWhole
<1> QED BY <1>1, <1>2, KeyInvInit, RequestsTyped, PTL DEF ServerSpec

-------------------------------------------------------------------------------
(* The server: run() may leave the rest of a late request in the stream, and   *)
(* no byte of a request begins a frame.                                        *)

\* Requests are text.
AllText == \A r \in Requests : \A p \in DOMAIN r.bytes : r.bytes[p] < Flag_Fin

TextOnly == \A p \in 1..StreamLength : StreamAt(p) < Flag_Fin

\* While run() reads nothing was served, and what is to come is text.  Once it has
\* answered, nothing is served until what it has not read has ended the connection.
ServiceInv ==
  /\ TypeOK /\ ServerTypeOK /\ FirstConnection /\ unread \in Nat
  /\ request = NoRequest => StreamLength = 0 /\ newkey = <<>>
  /\ established => spc = "done" /\ newkey # <<>>
  /\ ~established => delivered = <<>> /\ AtBoundary /\ TextOnly
  /\ established /\ unread > 0 => Dud /\ (Dry => Ending)

LEMMA ServiceInvInit == OneCleanConnection /\ ServiceInit => ServiceInv
<1> SUFFICES ASSUME OneCleanConnection, ServiceInit PROVE ServiceInv
  OBVIOUS
<1>1. TypeOK /\ ServerTypeOK /\ FirstConnection
  BY InitType, ServerInitType, StaysFirst DEF ServiceInit
<1>2. rx = <<>> /\ wire = <<>> /\ newkey = <<>> /\ established = FALSE /\ delivered = <<>>
  BY DEF ServiceInit, ServerInit, SocketInit, Init
<1>3. StreamLength = 0 /\ AtBoundary
  BY <1>2 DEF StreamLength, ServiceInit, Init, OneCleanConnection, AtBoundary
<1>4. unread = 0
  BY DEF ServiceInit
<1> QED BY <1>1, <1>2, <1>3, <1>4 DEF ServiceInv, TextOnly

\* What is cut from the stream leaves text.
LEMMA CutLeavesText ==
  ASSUME TypeOK, TypeOK', NEW d \in Nat, StreamCut(d), TextOnly, d <= StreamLength
  PROVE  TextOnly' /\ (StreamLength = 0 => StreamLength' = 0)
<1>1. StreamLength \in Nat /\ StreamLength' \in Nat
  BY Lengths, LengthsNext
<1>2. ASSUME NEW p \in 1..StreamLength' PROVE StreamAt(p)' < Flag_Fin
  <2>1. StreamAt(p)' = StreamAt(p + d) /\ StreamLength' <= StreamLength - d
    BY <1>1 DEF StreamCut
  <2>2. p + d \in 1..StreamLength
    BY <1>1, <2>1
  <2> QED BY <2>1, <2>2 DEF TextOnly
<1>3. StreamLength = 0 => StreamLength' = 0
  BY <1>1 DEF StreamCut
<1> QED BY <1>2, <1>3 DEF TextOnly

\* Before the answer: run() reads, answers or refuses.
LEMMA RunInService ==
  ASSUME ServiceInv, RunHandshake
  PROVE  ServiceInv'
<1>1. /\ ServerStep /\ UNCHANGED readerVars /\ TypeOK /\ ServerTypeOK
      /\ unread' = IF spc' = "done" THEN StreamLength ELSE unread
  <2>1. Len(wire) + Len(rx) = StreamLength
    <3>1. Len(rx) \in Nat /\ Len(wire) \in Nat
      BY Lengths DEF ServiceInv
    <3> QED BY <3>1 DEF StreamLength
  <2> QED BY <2>1 DEF RunHandshake, ServiceInv
<1>2. ~established /\ spc # "done" /\ delivered = <<>> /\ AtBoundary /\ TextOnly
  BY <1>1 DEF ServiceInv, ServerStep, StartRun, ReadRequestByte, Decide, Refuse
<1>3. ServerTypeOK' /\ TypeOK'
  <2>1. ServerTypeOK'
    BY <1>1, ServerStepType
  <2> QED BY <1>1, <2>1 DEF ServerTypeOK, TypeOK, ParserTypeOK, ControlTypeOK, HistoryTypeOK,
                            readerVars, parserVars, historyVars
<1>4. FirstConnection' /\ delivered' = <<>> /\ AtBoundary'
  BY <1>1, <1>2 DEF ServiceInv, FirstConnection, AtBoundary, readerVars, parserVars, historyVars
<1>5. request' = request /\ StreamLength \in Nat
  BY <1>1, Lengths DEF ServerStep, StartRun, ReadRequestByte, Decide, Refuse
<1>6. unread' \in Nat
  BY <1>1, <1>5 DEF ServiceInv
<1>7. CASE ReadRequestByte
  <2>1. rx # <<>> /\ rx' = SubSeq(rx, 2, Len(rx)) /\ UNCHANGED <<up, peer, wire, established>>
    BY <1>7 DEF ReadRequestByte, MoreToRead, RequestByte
  <2>2. Len(rx) \in Nat /\ Len(wire) \in Nat /\ rx \in Seq(Byte) /\ SocketTypeOK
    BY <1>1, Lengths DEF TypeOK, SocketTypeOK
  <2>3. 1 \in 0..Len(rx) /\ 1 <= StreamLength /\ StreamLength # 0
    BY <2>1, <2>2 DEF StreamLength
  <2>4. StreamCut(1)
    <3>1. rx' = SubSeq(rx, 1 + 1, Len(rx))
      BY <2>1
    <3> QED BY <2>1, <2>2, <2>3, <3>1, ReadCut
  <2>5. TextOnly'
    BY <1>1, <1>2, <1>3, <2>3, <2>4, CutLeavesText
  <2>6. request' # NoRequest
    BY <1>5, <2>3 DEF ServiceInv
  <2> QED BY <1>2, <1>3, <1>4, <1>6, <2>1, <2>5, <2>6 DEF ServiceInv
<1>8. CASE StartRun \/ Refuse \/ (Decide /\ ~established')
  <2>1. UNCHANGED <<up, peer, wire, rx>> \/ Stop
    BY <1>8 DEF StartRun, Refuse, Decide, Terminate, socketVars
  <2>2. StreamCut(0)
    <3>1. CASE Stop
      <4>1. up' = FALSE /\ StreamLength' = 0
        BY <3>1 DEF Stop, StreamLength
      <4> QED BY <4>1 DEF StreamCut
    <3> QED BY <1>1, <1>3, <2>1, <3>1, QuietStream
  <2>3. TextOnly' /\ (StreamLength = 0 => StreamLength' = 0)
    BY <1>1, <1>2, <1>3, <1>5, <2>2, CutLeavesText
  <2>4. ~established' /\ newkey' = newkey
    BY <1>2, <1>8 DEF StartRun, Refuse, Decide
  <2> QED BY <1>3, <1>4, <1>5, <1>6, <2>3, <2>4 DEF ServiceInv
<1>9. CASE Decide /\ established'
  <2>1. /\ UNCHANGED <<up, peer, wire, rx, newkey>> /\ newkey # <<>> /\ spc' = "done"
    BY <1>2, <1>9 DEF Decide, Acceptable
  <2>2. StreamLength' = StreamLength /\ \A p : StreamAt(p)' = StreamAt(p)
    BY <2>1 DEF StreamLength, StreamAt
  <2>3. unread' = StreamLength
    BY <1>1, <2>1, <2>2
  <2>4. ASSUME unread' > 0 PROVE Dud' /\ ~Dry'
    <3>1. 1 \in 1..StreamLength /\ StreamLength # 0
      BY <1>5, <2>3, <2>4
    <3>2. StreamAt(1) < Flag_Fin
      BY <1>2, <3>1 DEF TextOnly
    <3> QED BY <1>4, <2>2, <3>1, <3>2 DEF Dud, Unfit, Dry
  <2>5. request # NoRequest
    BY <2>1 DEF ServiceInv
  <2> QED BY <1>3, <1>4, <1>5, <1>6, <1>9, <2>1, <2>4, <2>5 DEF ServiceInv
<1> QED BY <1>1, <1>7, <1>8, <1>9 DEF ServerStep

\* After it: the WebSocket, its peer and the network.
LEMMA ServedInService ==
  ASSUME OneCleanConnection, ServiceInv, established, [Next]_vars, UNCHANGED <<requestVars, unread>>
  PROVE  ServiceInv'
<1>1. FirstConnection' /\ ~Reconnect /\ TypeOK /\ TypeOK'
  BY StaysFirst, StepType DEF ServiceInv
<1>2. ServerTypeOK'
  BY <1>1 DEF ServiceInv, ServerTypeOK, TypeOK, requestVars
<1>3. established' /\ spc' = "done" /\ newkey' # <<>> /\ request' # NoRequest /\ unread' = unread
  BY DEF ServiceInv, requestVars
<1>4. ASSUME unread > 0 PROVE Dud' /\ (Dry' => Ending')
  <2>1. Dud /\ (Dry => Ending)
    BY <1>4 DEF ServiceInv
  <2>2. Ending \/ StreamLength # 0 \/ ~\E f \in PeerFrames : PeerSends(f)
    <3>1. ASSUME NEW f \in PeerFrames, PeerSends(f), StreamLength = 0 PROVE Dry
      BY <3>1 DEF PeerSends, PeerWrites, Dry, Connected
    <3> QED BY <2>1, <3>1
  <2>3. Dud' /\ (Dry' => Ending' \/ Dry)
    BY <1>1, <2>1, <2>2, DudKept
  <2>4. Ending => Ending'
    BY <1>1, EndingKept
  <2> QED BY <2>1, <2>3, <2>4
<1> QED BY <1>1, <1>2, <1>3, <1>4 DEF ServiceInv

\* Before it: the client's request, and the network.
LEMMA WaitingInService ==
  ASSUME AllText, ServiceInv, ~established, UNCHANGED unread,
         \/ \E r \in Requests : ClientSends(r) /\ UNCHANGED readerVars
         \/ (BytesArrive \/ PeerLeaves) /\ UNCHANGED requestVars
  PROVE  ServiceInv'
<1>1. /\ TypeOK /\ ServerTypeOK /\ FirstConnection /\ delivered = <<>> /\ AtBoundary /\ TextOnly
      /\ StreamLength \in Nat
  BY Lengths DEF ServiceInv
<1>2. CASE (BytesArrive \/ PeerLeaves) /\ UNCHANGED requestVars
  <2>1. TypeOK' /\ UNCHANGED <<parserVars, delivered, clean, connections>>
    BY <1>1, <1>2, StepType DEF Next, BytesArrive, PeerLeaves, historyVars
  <2>2. ServerTypeOK'
    BY <1>1, <1>2, <2>1 DEF ServerTypeOK, TypeOK, requestVars
  <2>3. StreamCut(0)
    BY <1>1, <1>2, <2>1, QuietStream
  <2>4. TextOnly' /\ (StreamLength = 0 => StreamLength' = 0)
    BY <1>1, <2>1, <2>3, CutLeavesText
  <2> QED BY <1>1, <1>2, <2>1, <2>2, <2>4
          DEF ServiceInv, requestVars, FirstConnection, AtBoundary, parserVars
<1>3. ASSUME NEW r \in Requests, ClientSends(r), UNCHANGED readerVars PROVE ServiceInv'
  <2>1. /\ request = NoRequest /\ request' = r /\ PeerWrites(r.bytes)
        /\ UNCHANGED <<established, newkey, parserVars, pc, raised, delivered, historyVars>>
    BY <1>3 DEF ClientSends, readerVars
  <2>2. StreamLength = 0 /\ newkey = <<>> /\ r.bytes \in Seq(Byte)
    BY <2>1, RequestsAssumption DEF ServiceInv
  <2>3. /\ SocketTypeOK' /\ StreamLength' = 0 + Len(r.bytes) /\ Len(r.bytes) \in Nat
        /\ \A p \in 0 + 1..0 + Len(r.bytes) : StreamAt(p)' = r.bytes[p - 0]
    BY <1>1, <2>1, <2>2, WritesGrow DEF TypeOK
  <2>4. ServerTypeOK' /\ TypeOK'
    BY <1>1, <1>3, <2>1, <2>3, ServerPeerType
       DEF TypeOK, ParserTypeOK, ControlTypeOK, HistoryTypeOK, parserVars, historyVars
  <2>5. TextOnly'
    <3>1. ASSUME NEW p \in 1..StreamLength' PROVE StreamAt(p)' < Flag_Fin
      <4>1. p \in DOMAIN r.bytes /\ p \in 0 + 1..0 + Len(r.bytes) /\ p - 0 = p
        BY <2>2, <2>3
      <4> QED BY <2>3, <4>1 DEF AllText
    <3> QED BY <3>1 DEF TextOnly
  <2>6. request' = NoRequest => StreamLength' = 0
    BY <2>1, <2>3 DEF NoRequest
  <2>7. FirstConnection' /\ AtBoundary' /\ delivered' = <<>>
    BY <1>1, <2>1 DEF FirstConnection, AtBoundary, parserVars, historyVars
  <2> QED BY <2>1, <2>2, <2>4, <2>5, <2>6, <2>7 DEF ServiceInv
<1> QED BY <1>2, <1>3

LEMMA ServiceInvStays ==
  ASSUME OneCleanConnection, AllText, ServiceInv, [ServiceNext]_serviceVars
  PROVE  ServiceInv'
<1>1. CASE RunHandshake
  BY <1>1, RunInService
<1>2. CASE ServeFrames
  BY <1>2, ServedInService DEF ServeFrames, Next
<1>3. CASE ServiceClient
  <2>1. CASE established
    <3>1. ASSUME NEW r \in Requests, ClientSends(r) PROVE FALSE
      BY <2>1, <3>1 DEF ClientSends, ServiceInv
    <3>2. [Next]_vars /\ UNCHANGED <<requestVars, unread>>
      BY <1>3, <3>1 DEF ServiceClient, Next
    <3> QED BY <2>1, <3>2, ServedInService
  <2>2. CASE ~established
    BY <1>3, <2>2, WaitingInService DEF ServiceClient
  <2> QED BY <2>1, <2>2
<1>4. CASE UNCHANGED serviceVars
  <2>1. UNCHANGED vars /\ UNCHANGED requestVars /\ UNCHANGED unread /\ TypeOK'
    BY <1>4, StepType DEF serviceVars, ServiceInv
  <2>2. UNCHANGED <<up, peer, wire, rx, pc, parserVars, delivered, clean, connections>>
    BY <2>1 DEF vars, socketVars, historyVars
  <2>3. StreamLength' = StreamLength /\ \A p : StreamAt(p)' = StreamAt(p)
    BY <2>2 DEF StreamLength, StreamAt
  <2>4. ServerTypeOK'
    BY <2>1 DEF ServiceInv, ServerTypeOK, TypeOK, requestVars
  <2> QED BY <2>1, <2>2, <2>3, <2>4
          DEF ServiceInv, requestVars, FirstConnection, TextOnly, Dud, Unfit, AtBoundary, Dry,
              Connected, Ending, parserVars
<1> QED BY <1>1, <1>2, <1>3, <1>4 DEF ServiceNext

\* Wherever run() stops reading a late request: nothing of the rest is taken for a
\* frame with a handler, and no frame behind it is served.
THEOREM RestServesNothing ==
  ASSUME OneCleanConnection, AllText PROVE ServiceSpec => []RestIsNoFrame
<1>1. ServiceInv => RestIsNoFrame
  BY DEF ServiceInv, Dud, RestIsNoFrame
<1>2. ServiceInv /\ [ServiceNext]_serviceVars => ServiceInv'
  BY ServiceInvStays
<1> QED BY <1>1, <1>2, ServiceInvInit, PTL DEF ServiceSpec

-------------------------------------------------------------------------------
(* What the WebSocket does not change in what run() has done. *)

LEMMA ServiceType == OneCleanConnection /\ AllText => (ServiceSpec => [](ServiceInv /\ ServerTypeOK))
<1> SUFFICES ASSUME OneCleanConnection, AllText PROVE ServiceSpec => [](ServiceInv /\ ServerTypeOK)
  OBVIOUS
<1>1. ServiceInv => ServerTypeOK
  BY DEF ServiceInv
<1>2. ServiceInv /\ [ServiceNext]_serviceVars => ServiceInv'
  BY ServiceInvStays
<1> QED BY <1>1, <1>2, ServiceInvInit, PTL DEF ServiceSpec

\* A step of a session is one of run() and its client, or leaves run() alone.
LEMMA ServiceSteps ==
  [ServiceNext]_serviceVars =>
    [ServerNext]_serverVars \/ (established /\ UNCHANGED requestVars)
  BY DEF ServiceNext, RunHandshake, ServeFrames, ServiceClient, ServerNext, RequestArrives,
         ClientLeaves, BytesArrive, PeerLeaves, serviceVars, vars, serverVars

\* A client that is served has been answered for its whole key.
THEOREM ServedForWholeKey ==
  ASSUME OneCleanConnection, AllText, AllNameKeys PROVE ServiceSpec => []KeyIsWhole
<1>1. ServiceInit => KeyInv
  BY KeyInvInit DEF ServiceInit
<1>2. KeyInv => KeyIsWhole
  BY DEF KeyInv, KeyIsWhole
<1>3. ServerTypeOK /\ ServerTypeOK' /\ KeyInv /\ [ServiceNext]_serviceVars => KeyInv'
  <2>1. KeyInv /\ established /\ UNCHANGED requestVars => KeyInv'
    BY DEF KeyInv, requestVars
  <2> QED BY <2>1, KeyInvStays, ServiceSteps
<1> QED BY <1>1, <1>2, <1>3, ServiceType, PTL DEF ServiceSpec

\* In a session too run() answers and leaves the connection up, or stops it.
THEOREM ServiceAnswersOrStops ==
  ASSUME OneCleanConnection, AllText PROVE ServiceSpec => AnsweredOrStopped
<1>1. ServiceInit => Undecided
  BY DEF ServiceInit, ServerInit, SocketInit, Undecided
<1>2. Undecided /\ [ServiceNext]_serviceVars => Undecided'
  <2>1. Undecided /\ established /\ UNCHANGED requestVars => Undecided'
    BY DEF Undecided, requestVars
  <2> QED BY <2>1, UndecidedStep, ServiceSteps
<1>3. ServerTypeOK /\ Undecided /\ [ServiceNext]_serviceVars
        => [spc # "done" /\ spc' = "done" =>
              IF established' THEN up' /\ tx' = Response
              ELSE (~Connected)' /\ tx' \in {<<>>, Quit}]_serverVars
  <2>1. established /\ UNCHANGED requestVars => ~(spc # "done" /\ spc' = "done")
    BY DEF requestVars
  <2>2. [ServerNext]_serverVars /\ Undecided /\ ServerTypeOK /\ spc # "done" /\ spc' = "done"
          => IF established' THEN up' /\ tx' = Response
             ELSE (~Connected)' /\ tx' \in {<<>>, Quit}
    BY VerdictStep
  <2> QED BY <2>1, <2>2, ServiceSteps
<1> QED BY <1>1, <1>2, <1>3, ServiceType, PTL DEF ServiceSpec, AnsweredOrStopped
===============================================================================
