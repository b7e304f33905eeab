---------------------------- MODULE EndpointsProofs ----------------------------
(***************************************************************************)
(* Theorems about the two ends of one connection, for every request,       *)
(* answer and messages of theirs and every way in which the bytes travel.  *)
(* Each end keeps the invariant of its own proofs; what is new is that the *)
(* bytes one end writes are the frames and the answer that the other end's *)
(* invariant is about, and how far each end is when they come.             *)
(***************************************************************************)
EXTENDS Endpoints, ServerProofs

\* The facts of ClientHandshakeProofs, about the client's Socket.
ClientFacts == INSTANCE ClientHandshakeProofs WITH
  up <- cUp, peer <- cPeer, wire <- cWire, rx <- cRx, tx <- cTx,
  Request <- ClientRequest.bytes, Responses <- {Answered, Rejected}

-------------------------------------------------------------------------------
(* The two instances of ClientHandshake are the same. *)

LEMMA ClientAssumptions == ClientFacts!ResponseAssumption /\ ClientFacts!RequestAssumption
<1>1. Byte = ClientFacts!Byte
  BY DEF Byte, ClientFacts!Byte
<1>2. Response \in Seq(Byte) /\ ClientRequest.bytes \in Seq(Byte) /\ Quit \in Seq(Byte)
  BY RequestsAssumption, EndpointsAssumption DEF Quit, Byte
<1>3. Len(Response) \in Nat /\ Len(Quit) + 3 \in Nat
  BY <1>2
<1> QED BY <1>1, <1>2, <1>3, EndpointsAssumption
        DEF ClientFacts!ResponseAssumption, ClientFacts!RequestAssumption, Answered, Rejected

LEMMA SameSocket ==
  /\ Byte = ClientFacts!Byte
  /\ Client!Connected <=> ClientFacts!Connected
  /\ Client!PeerVanishes <=> ClientFacts!PeerVanishes
  /\ Client!HandshakeBytesArrive <=> ClientFacts!HandshakeBytesArrive
<1>1. Byte = ClientFacts!Byte
  BY DEF Byte, ClientFacts!Byte
<1>2. Client!Connected <=> ClientFacts!Connected
  BY DEF Client!Connected, ClientFacts!Connected
<1>3. Client!PeerVanishes <=> ClientFacts!PeerVanishes
  BY DEF Client!PeerVanishes, ClientFacts!PeerVanishes
<1>4. Client!HandshakeBytesArrive <=> ClientFacts!HandshakeBytesArrive
  BY DEF Client!HandshakeBytesArrive, ClientFacts!HandshakeBytesArrive, Client!Arrive,
         ClientFacts!Arrive, Client!handshakeVars, ClientFacts!handshakeVars
<1> QED BY <1>1, <1>2, <1>3, <1>4

LEMMA SameInit == Client!HandshakeInit => ClientFacts!HandshakeInit
  BY DEF Client!HandshakeInit, ClientFacts!HandshakeInit, Client!SocketInit,
         ClientFacts!SocketInit, Client!NoResponse, ClientFacts!NoResponse

LEMMA SameStep == Client!HandshakeStep => ClientFacts!HandshakeStep
<1> USE DEF Client!parserUnchanged, ClientFacts!parserUnchanged, Client!Return, ClientFacts!Return,
            Client!socketVars, ClientFacts!socketVars, Client!Connected, ClientFacts!Connected,
            Client!Bite, ClientFacts!Bite, Client!Take, ClientFacts!Take,
            Client!Reading, ClientFacts!Reading, Client!Remainder, ClientFacts!Remainder,
            Client!LF, ClientFacts!LF, Client!CR, ClientFacts!CR, Client!Space, ClientFacts!Space,
            Client!Colon, ClientFacts!Colon, Client!ValueByte, ClientFacts!ValueByte,
            Client!IsAccept, ClientFacts!IsAccept
<1>1. Client!SendRequest => ClientFacts!SendRequest
  BY DEF Client!SendRequest, ClientFacts!SendRequest, Client!Write, ClientFacts!Write
<1>2. Client!WaitEnds => ClientFacts!WaitEnds
  BY DEF Client!WaitEnds, ClientFacts!WaitEnds, Client!Available, ClientFacts!Available
<1>3. Client!ReadNothing => ClientFacts!ReadNothing
  BY DEF Client!ReadNothing, ClientFacts!ReadNothing, Client!Lost, ClientFacts!Lost
<1>4. Client!StatusLine => ClientFacts!StatusLine
  BY DEF Client!StatusLine, ClientFacts!StatusLine
<1>5. Client!EndOfHeader => ClientFacts!EndOfHeader
  BY DEF Client!EndOfHeader, ClientFacts!EndOfHeader
<1>6. Client!HeaderName => ClientFacts!HeaderName
  BY DEF Client!HeaderName, ClientFacts!HeaderName
<1>7. Client!HeaderSep => ClientFacts!HeaderSep
  BY DEF Client!HeaderSep, ClientFacts!HeaderSep
<1>8. Client!HeaderValue => ClientFacts!HeaderValue
  BY DEF Client!HeaderValue, ClientFacts!HeaderValue
<1>9. Client!CompareKeys => ClientFacts!CompareKeys
  BY DEF Client!CompareKeys, ClientFacts!CompareKeys
<1> QED BY <1>1, <1>2, <1>3, <1>4, <1>5, <1>6, <1>7, <1>8, <1>9
        DEF Client!HandshakeStep, ClientFacts!HandshakeStep

LEMMA SameHeader == Client!WellFormed(Answered) => ClientFacts!WellFormed(Answered)
<1>1. Client!Field = ClientFacts!Field
  BY DEF Client!Field, ClientFacts!Field, Client!Byte, ClientFacts!Byte, Client!CR, ClientFacts!CR,
         Client!LF, ClientFacts!LF, Client!Colon, ClientFacts!Colon, Client!Space,
         ClientFacts!Space
<1>2. \A f : Client!FieldLine(f) = ClientFacts!FieldLine(f)
  BY DEF Client!FieldLine, ClientFacts!FieldLine, Client!CR, ClientFacts!CR, Client!LF,
         ClientFacts!LF, Client!Colon, ClientFacts!Colon, Client!Space, ClientFacts!Space
<1>3. \A fields, off : /\ Client!HasFields(Answered, fields, off)
                            => ClientFacts!HasFields(Answered, fields, off)
                       /\ Client!ProvesByField(Answered, fields)
                            => ClientFacts!ProvesByField(Answered, fields)
  BY <1>2 DEF Client!HasFields, ClientFacts!HasFields, Client!ProvesByField,
              ClientFacts!ProvesByField, Client!CR, ClientFacts!CR, Client!LF, ClientFacts!LF
<1> QED BY <1>1, <1>3 DEF Client!WellFormed, ClientFacts!WellFormed

\* Two bytes are well-formed as the beginning of a header without fields,
LEMMA RejectedWellFormed == ClientFacts!WellFormed(Rejected)
<1> DEFINE fields == <<>>
           off == [i \in 1..1 |-> 3]
<1>1. /\ Rejected.bytes = <<135, 0>> /\ Rejected.head = 5 /\ Rejected.proves = FALSE
      /\ Len(Rejected.bytes) = 2
  BY DEF Rejected, Quit
<1>2. /\ fields \in Seq(ClientFacts!Field) /\ Len(fields) = 0 /\ DOMAIN fields = {}
      /\ off \in [1..Len(fields) + 1 -> Nat] /\ off[1] = 3
  OBVIOUS
<1> HIDE DEF fields, off
<1>3. ClientFacts!HasFields(Rejected, fields, off)
  <2>1. \A p \in DOMAIN Rejected.bytes : p \in 1..2 /\ Rejected.bytes[p] \in {135, 0}
    BY <1>1
  <2>2. off[Len(fields) + 1] = 3
    BY <1>2
  <2>3. \A p \in DOMAIN Rejected.bytes :
          /\ p < off[1] => Rejected.bytes[p] # ClientFacts!LF
          /\ p \in {off[1], Rejected.head} => Rejected.bytes[p] = ClientFacts!LF
          /\ p = Rejected.head - 1 => Rejected.bytes[p] = ClientFacts!CR
    BY <1>1, <1>2, <2>1 DEF ClientFacts!LF
  <2> QED BY <1>1, <1>2, <2>2, <2>3 DEF ClientFacts!HasFields
<1>4. ClientFacts!ProvesByField(Rejected, fields)
  BY <1>1, <1>2 DEF ClientFacts!ProvesByField
<1> QED BY <1>2, <1>3, <1>4 DEF ClientFacts!WellFormed

\* and an answer that is well-formed is not empty.
LEMMA AnsweredSize ==
  ASSUME ClientFacts!WellFormed(Answered)
  PROVE  Len(Response) \in Nat /\ Len(Response) > 2
<1>1. Answered.head = Len(Response) /\ Len(Response) \in Nat
  BY RequestsAssumption DEF Answered
<1>2. PICK fields \in Seq(ClientFacts!Field) : \E off \in [1..Len(fields) + 1 -> Nat] :
        ClientFacts!HasFields(Answered, fields, off)
  BY DEF ClientFacts!WellFormed
<1>3. PICK off \in [1..Len(fields) + 1 -> Nat] : ClientFacts!HasFields(Answered, fields, off)
  BY <1>2
<1>4. off[1] \in Nat /\ off[1] > 0 /\ off[1] + 2 <= Answered.head
  BY <1>1, <1>3, ClientAssumptions, ClientFacts!Places
<1> QED BY <1>1, <1>4

-------------------------------------------------------------------------------
(* The invariant. *)

\* The server is in a session with one client, which sends one request.
ServerInv ==
  /\ ServiceInv /\ KeyInv /\ Undecided
  /\ request \in {NoRequest, ClientRequest}
  /\ established => request # NoRequest
  /\ ~established => sent = <<>> /\ raised = {}

\* How much of the answer the client has read or has still to read.
AnswerComes == taken + ClientFacts!StreamLength

\* What the client reads is the server's answer: all of the one of a server that
\* has established the connection, no more than the other one's two bytes.
AnswerInv ==
  /\ ClientFacts!HandshakeInv
  /\ spc # "done" => response = ClientFacts!NoResponse
  /\ response = Answered <=> established
  /\ ~established => AnswerComes <= Len(response.bytes)
  /\ established /\ ClientThere /\ hpc # "done" => AnswerComes >= Len(Response)

EndpointsInv == ServerInv /\ AnswerInv

\* The ranges in it that are used most.
LEMMA ClientTypes ==
  ASSUME AnswerInv
  PROVE  /\ ClientFacts!HandshakeTypeOK /\ ClientFacts!SocketTypeOK
         /\ taken \in Nat /\ ClientFacts!StreamLength \in Nat /\ AnswerComes \in Nat
         /\ response \in {Answered, Rejected, ClientFacts!NoResponse}
         /\ response.bytes \in Seq(Byte) /\ Len(response.bytes) \in Nat /\ response.head \in Nat
<1>1. ClientFacts!HandshakeTypeOK
  BY DEF AnswerInv, ClientFacts!HandshakeInv
<1>2. ClientFacts!SocketTypeOK /\ response \in {Answered, Rejected, ClientFacts!NoResponse}
  BY <1>1 DEF ClientFacts!HandshakeTypeOK
<1>3. ClientFacts!StreamLength \in Nat
  BY <1>2, ClientAssumptions, ClientFacts!StreamNat
<1>4. response.bytes \in Seq(Byte) /\ response.head \in Nat /\ taken \in Nat
  BY <1>1, ClientAssumptions, SameSocket, ClientFacts!ResponseType
<1>5. Len(response.bytes) \in Nat
  BY <1>4
<1> QED BY <1>1, <1>2, <1>3, <1>4, <1>5 DEF AnswerComes

\* The client uses its WebSocket only when the server has established.
LEMMA ReadyEstablished ==
  ASSUME AnswerInv, ClientReady
  PROVE  established /\ hpc = "done" /\ up /\ peer = "open"
<1>1. result = "Success_Ok" /\ up /\ peer = "open"
  BY DEF ClientReady, ServerThere
<1>2. response.proves /\ hpc = "done"
  BY <1>1, ClientAssumptions, ClientFacts!VerdictFromInv
     DEF AnswerInv, ClientFacts!VerdictIsRight, ClientFacts!HandshakeInv, ClientFacts!Verdict
<1>3. response = Answered
  BY <1>2, ClientTypes DEF Rejected, ClientFacts!NoResponse
<1> QED BY <1>1, <1>2, <1>3 DEF AnswerInv

LEMMA EndpointsInvInit == OneCleanConnection /\ EndpointsInit => EndpointsInv
<1> SUFFICES ASSUME OneCleanConnection, EndpointsInit PROVE EndpointsInv
  OBVIOUS
<1>1. ServiceInit /\ ClientFacts!HandshakeInit
  BY SameInit DEF EndpointsInit
<1>2. ServerInit /\ Init
  BY <1>1 DEF ServiceInit
<1>3. ServerInv
  BY <1>1, <1>2, ServiceInvInit, KeyInvInit
     DEF ServerInv, Undecided, ServerInit, SocketInit, Init
<1>4. ClientFacts!HandshakeInv
  BY <1>1, ClientAssumptions, ClientFacts!HandshakeInvInit
<1>5. /\ response = ClientFacts!NoResponse /\ taken = 0 /\ cRx = <<>> /\ cWire = <<>>
      /\ established = FALSE
  BY <1>1, <1>2 DEF ClientFacts!HandshakeInit, ClientFacts!SocketInit, ServerInit
<1>6. ClientFacts!StreamLength = 0
  BY <1>5 DEF ClientFacts!StreamLength
<1>7. response # Answered
  BY <1>5 DEF Answered, ClientFacts!NoResponse
<1>8. AnswerComes <= Len(response.bytes)
  BY <1>5, <1>6 DEF AnswerComes, ClientFacts!NoResponse
<1> QED BY <1>3, <1>4, <1>5, <1>7, <1>8 DEF EndpointsInv, AnswerInv

-------------------------------------------------------------------------------
(* The server's part of a step. *)

LEMMA ServerSide ==
  ASSUME ServerInv, AnswerInv, EndpointsNext, ~ClientDisconnects
  PROVE  [ServiceNext]_serviceVars
<1>1. CASE ClientHandshakes
  BY <1>1, EndpointsAssumption DEF ClientHandshakes, ServiceNext, ServiceClient
<1>2. CASE ServerHandshakes \/ ServerServes
  BY <1>2 DEF ServerHandshakes, ServerServes, ServiceNext
<1>3. ASSUME NEW m \in ClientMessages, ClientSendData(m) PROVE ServiceNext
  <2>1. established /\ SentFrame(m) \in PeerFrames
    BY <1>3, ReadyEstablished, EndpointsAssumption DEF ClientSendData
  <2> QED BY <1>3, <2>1 DEF ClientSendData, ServiceNext, ServiceClient
<1>4. CASE ToServerArrives
  BY <1>4 DEF ToServerArrives, ServiceNext, ServiceClient
<1>5. CASE ToClientArrives
  BY <1>5 DEF ToClientArrives
<1>6. CASE ConnectionLost
  BY <1>6 DEF ConnectionLost, ServiceNext, ServiceClient, PeerLeaves, readerVars
<1> QED BY <1>1, <1>2, <1>3, <1>4, <1>5, <1>6 DEF EndpointsNext

\* Before the server has established, nothing is sent to its WebSocket or raised;
\* once it has, its verdict stands.
LEMMA ServiceChanges ==
  ASSUME ServerInv, [ServiceNext]_serviceVars
  PROVE  /\ ~established => UNCHANGED <<sent, raised, delivered, parserVars, pc>>
         /\ established => UNCHANGED requestVars
<1>1. established => spc = "done" /\ request # NoRequest
  BY DEF ServerInv, ServiceInv
<1>2. CASE RunHandshake
  <2>1. spc # "done"
    BY <1>2 DEF RunHandshake, ServerStep, StartRun, ReadRequestByte, Decide, Refuse
  <2> QED BY <1>1, <1>2, <2>1 DEF RunHandshake, readerVars, historyVars
<1>3. CASE ServeFrames
  BY <1>3 DEF ServeFrames
<1>4. CASE ServiceClient
  BY <1>1, <1>4
     DEF ServiceClient, ClientSends, readerVars, BytesArrive, PeerLeaves, historyVars
<1>5. CASE UNCHANGED serviceVars
  BY <1>5 DEF serviceVars, vars, historyVars
<1> QED BY <1>2, <1>3, <1>4, <1>5 DEF ServiceNext

LEMMA ServerKept ==
  ASSUME OneCleanConnection, AllText, AllNameKeys, ServerInv, [ServiceNext]_serviceVars
  PROVE  ServerInv'
<1>1. ServiceInv' /\ ServiceInv
  BY ServiceInvStays DEF ServerInv
<1>2. [ServerNext]_serverVars \/ (established /\ UNCHANGED requestVars)
  BY ServiceSteps
<1>3. KeyInv' /\ Undecided'
  <2>1. CASE [ServerNext]_serverVars
    BY <1>1, <2>1, KeyInvStays, UndecidedStep DEF ServerInv, ServiceInv
  <2>2. CASE established /\ UNCHANGED requestVars
    BY <1>1, <2>2 DEF ServerInv, ServiceInv, KeyInv, Undecided, requestVars
  <2> QED BY <1>2, <2>1, <2>2
<1>4. request' \in {NoRequest, ClientRequest} /\ (request # NoRequest => request' = request)
  <2>1. request' = request \/ (request = NoRequest /\ request' \in Requests)
    BY <1>2 DEF ServerNext, ServerStep, StartRun, ReadRequestByte, Decide, Refuse, RequestArrives,
                ClientLeaves, ClientSends, serverVars, requestVars
  <2> QED BY <2>1, EndpointsAssumption DEF ServerInv
<1>5. ASSUME established' PROVE request' # NoRequest
  <2>1. CASE established
    BY <1>4, <2>1, RequestsAssumption DEF ServerInv
  <2>2. CASE ~established
    <3>1. newkey # <<>>
      BY <1>2, <1>5, <2>2
         DEF ServerNext, ServerStep, StartRun, ReadRequestByte, Decide, Acceptable, Refuse,
             RequestArrives, ClientLeaves, ClientSends, serverVars, requestVars
    <3> QED BY <1>1, <1>4, <3>1 DEF ServiceInv
  <2> QED BY <2>1, <2>2
<1>6. ASSUME ~established' PROVE sent' = <<>> /\ raised' = {}
  <2>1. ~established
    BY <1>6, ServiceChanges DEF requestVars
  <2> QED BY <2>1, ServiceChanges DEF ServerInv
<1> QED BY <1>1, <1>3, <1>4, <1>5, <1>6 DEF ServerInv

\* The client's goodbye is its last frame, and it closes behind it.
LEMMA GoodbyeComes ==
  ASSUME AnswerInv, ClientDisconnects
  PROVE  /\ Goodbye \in PeerFrames /\ FrameComes(Goodbye) /\ established /\ Connected
         /\ Goodbye.bytes \in Seq(Byte) /\ Len(Goodbye.bytes) = 2
         /\ wire' = wire \o Goodbye.bytes
         /\ UNCHANGED <<rx, pc, raised, clean, connections, tx, requestVars, unread>>
<1>1. Goodbye \in PeerFrames /\ Goodbye.bytes = CloseFrame /\ CloseFrame = <<136, 0>>
  BY EndpointsAssumption DEF Goodbye, CloseFrame, Flag_Fin, Opcode_Close
<1>2. established /\ up /\ peer = "open"
  BY ReadyEstablished DEF ClientDisconnects
<1>3. <<136, 0>> \in Seq(Byte) /\ Len(<<136, 0>>) = 2
  BY DEF Byte
<1>4. FrameComes(Goodbye)
  BY <1>1, <1>2 DEF ClientDisconnects, FrameComes, parserVars
<1> QED BY <1>1, <1>2, <1>3, <1>4 DEF ClientDisconnects, Connected

LEMMA GoodbyeKept ==
  ASSUME ServerInv, AnswerInv, ClientDisconnects
  PROVE  ServerInv'
<1>1. /\ TypeOK /\ ServerTypeOK /\ FirstConnection /\ StreamLength \in Nat
      /\ established /\ Connected
  BY Lengths, GoodbyeComes DEF ServerInv, ServiceInv
<1>2. /\ up /\ wire' = wire \o Goodbye.bytes /\ rx' = rx /\ peer' = "closed"
      /\ sent' = Append(sent, Goodbye) /\ Goodbye \in PeerFrames
      /\ UNCHANGED <<up, tx, parserVars, pc, raised, delivered, clean, connections>>
      /\ UNCHANGED <<requestVars, unread>>
  BY GoodbyeComes DEF ClientDisconnects, FrameComes
<1>3. /\ wire' \in Seq(Byte) /\ StreamLength' = StreamLength + 2
      /\ \A p \in 1..StreamLength : StreamAt(p)' = StreamAt(p)
  BY <1>1, <1>2, GoodbyeComes, StreamGrows DEF TypeOK
<1>4. TypeOK'
  <2>1. SocketTypeOK'
    BY <1>1, <1>2, <1>3 DEF TypeOK, SocketTypeOK
  <2>2. HistoryTypeOK'
    BY <1>1, <1>2 DEF TypeOK, HistoryTypeOK
  <2> QED BY <1>1, <1>2, <2>1, <2>2 DEF TypeOK, ParserTypeOK, ControlTypeOK, parserVars
<1>5. ServerTypeOK'
  BY <1>1, <1>2, <1>4 DEF ServerTypeOK, TypeOK, requestVars
<1>6. FirstConnection'
  BY <1>1, <1>2 DEF FirstConnection
<1>7. StreamLength' > 0 /\ StreamLength' # 0
  BY <1>1, <1>3
<1>8. ASSUME unread > 0 PROVE Dud' /\ ~Dry'
  <2>1. Dud /\ (Dry => Ending)
    BY <1>1, <1>8 DEF ServerInv, ServiceInv
  <2>2. CASE Ending
    BY <1>1, <1>2, <1>7, <2>1, <2>2 DEF Ending, Dud, Dry, parserVars
  <2>3. CASE ~Ending
    <3>1. Unfit /\ StreamLength # 0
      BY <1>1, <2>1, <2>3 DEF Dud, Dry
    <3>2. StreamLength > 0 /\ StreamAt(1)' = StreamAt(1)
      BY <1>1, <1>3, <3>1
    <3> QED BY <1>2, <1>7, <2>1, <3>1, <3>2 DEF Dud, Unfit, AtBoundary, Dry, parserVars
  <2> QED BY <2>2, <2>3
<1>9. ServiceInv'
  BY <1>1, <1>2, <1>4, <1>5, <1>6, <1>8 DEF ServerInv, ServiceInv, requestVars
<1>10. KeyInv' /\ Undecided'
  BY <1>1, <1>2 DEF ServerInv, ServiceInv, KeyInv, Undecided, requestVars
<1> QED BY <1>1, <1>2, <1>9, <1>10 DEF ServerInv, requestVars

-------------------------------------------------------------------------------
(* The client's part of a step. *)

\* A step in which the stream to the client may only end earlier.
LEMMA AnswerCut ==
  ASSUME AnswerInv, ClientFacts!SocketTypeOK', ClientFacts!StreamCut(0),
         UNCHANGED ClientFacts!handshakeVars, UNCHANGED <<spc, established>>,
         ClientThere' => ClientThere /\ ClientFacts!StreamLength' = ClientFacts!StreamLength
  PROVE  AnswerInv'
<1>1. ClientFacts!HandshakeInv'
  BY ClientAssumptions, ClientFacts!CutKeeps DEF AnswerInv
<1>2. /\ UNCHANGED <<hpc, response, taken>> /\ taken \in Nat /\ ClientFacts!StreamLength \in Nat
      /\ Len(response.bytes) \in Nat
  BY ClientTypes DEF ClientFacts!handshakeVars
<1>3. ClientFacts!StreamLength' \in Nat
  <2>1. Len(cRx') \in Nat /\ Len(cWire') \in Nat
    BY DEF ClientFacts!SocketTypeOK
  <2> QED BY <2>1 DEF ClientFacts!StreamLength
<1>4. ClientFacts!StreamLength' <= ClientFacts!StreamLength
  BY <1>2, <1>3 DEF ClientFacts!StreamCut
<1>5. ~established' => AnswerComes' <= Len(response'.bytes)
  BY <1>2, <1>3, <1>4 DEF AnswerInv, AnswerComes
<1>6. established' /\ ClientThere' /\ hpc' # "done" => AnswerComes' >= Len(Response)
  BY <1>2 DEF AnswerInv, AnswerComes
<1> QED BY <1>1, <1>2, <1>5, <1>6 DEF AnswerInv

\* The stream does not change, for instance because the client only writes.
LEMMA AnswerStays ==
  ASSUME AnswerInv, UNCHANGED <<cPeer, cWire, cRx, cUp>>, cTx' \in Seq(Byte),
         UNCHANGED ClientFacts!handshakeVars, UNCHANGED <<spc, established>>,
         ClientThere' => ClientThere
  PROVE  AnswerInv'
<1>1. ClientFacts!SocketTypeOK' /\ ClientFacts!StreamLength \in Nat
  BY ClientTypes, SameSocket DEF ClientFacts!SocketTypeOK
<1>2. /\ ClientFacts!StreamLength' = ClientFacts!StreamLength
      /\ \A p : ClientFacts!StreamAt(p)' = ClientFacts!StreamAt(p)
  BY DEF ClientFacts!StreamLength, ClientFacts!StreamAt
<1>3. ClientFacts!StreamCut(0)
  BY <1>1, <1>2 DEF ClientFacts!StreamCut
<1> QED BY <1>1, <1>2, <1>3, AnswerCut

\* clientHandshake's steps.
LEMMA HandshakesKept ==
  ASSUME ServerInv, AnswerInv, ClientHandshakes
  PROVE  AnswerInv'
<1>1. ClientFacts!HandshakeStep /\ UNCHANGED <<spc, established, peer>>
  BY SameStep
     DEF ClientHandshakes, ClientSends, PeerWrites, serviceVars, vars, socketVars, requestVars
<1>2. ClientFacts!HandshakeInv'
  BY <1>1, ClientAssumptions, ClientFacts!HandshakeKeeps DEF AnswerInv
<1>3. /\ hpc # "done" /\ UNCHANGED <<response, cUp, cPeer>>
      /\ \E d \in Nat : /\ taken' = taken + d
                        /\ ClientFacts!StreamLength' = ClientFacts!StreamLength - d
  BY <1>1, ClientTypes, ClientAssumptions, ClientFacts!HandshakeStream
<1>4. AnswerComes' = AnswerComes
  BY <1>3, ClientTypes DEF AnswerComes
<1>5. ClientThere' => ClientThere
  BY <1>1, <1>3 DEF ClientThere
<1> QED BY <1>1, <1>2, <1>3, <1>4, <1>5 DEF AnswerInv

\* The client's frames, its goodbye, and the network.
LEMMA TrafficKept ==
  ASSUME ServerInv, AnswerInv,
         \/ \E m \in ClientMessages : ClientSendData(m)
         \/ ToServerArrives \/ ToClientArrives \/ ConnectionLost
  PROVE  AnswerInv'
<1>1. ClientFacts!SocketTypeOK /\ cTx \in Seq(Byte) /\ ClientFacts!StreamLength \in Nat
  BY ClientTypes, SameSocket DEF ClientFacts!SocketTypeOK
<1>2. ASSUME NEW m \in ClientMessages, ClientSendData(m) PROVE AnswerInv'
  <2>1. SentFrame(m).bytes \in Seq(Byte)
    BY EndpointsAssumption, BytesAssumption
  <2>2. cTx \o SentFrame(m).bytes \in Seq(Byte)
    BY <1>1, <2>1
  <2>3. /\ cTx' = cTx \o SentFrame(m).bytes /\ UNCHANGED <<cPeer, cWire, cRx, cUp, peer>>
        /\ UNCHANGED ClientFacts!handshakeVars /\ UNCHANGED <<spc, established>>
    BY <1>2 DEF ClientSendData, Client!Write, PeerSends, PeerWrites, requestVars,
                ClientFacts!handshakeVars
  <2> QED BY <2>2, <2>3, AnswerStays DEF ClientThere
<1>3. CASE ToServerArrives \/ (PeerVanishes /\ UNCHANGED <<readerVars, requestVars, unread, clientVars>>)
  <2>1. /\ UNCHANGED <<cPeer, cWire, cRx, cUp, cTx>> /\ UNCHANGED <<spc, established>>
        /\ UNCHANGED ClientFacts!handshakeVars /\ (peer' # "gone" => peer # "gone")
    BY <1>3 DEF ToServerArrives, BytesArrive, Arrive, PeerVanishes, clientVars, cSocketVars,
                requestVars, ClientFacts!handshakeVars
  <2> QED BY <1>1, <2>1, AnswerStays DEF ClientThere
<1>4. CASE ToClientArrives \/ (ConnectionLost /\ Client!PeerVanishes)
  <2>1. /\ ClientFacts!HandshakeBytesArrive \/ ClientFacts!PeerVanishes
        /\ UNCHANGED ClientFacts!handshakeVars /\ UNCHANGED <<spc, established, peer>>
    <3>1. CASE ToClientArrives
      BY <3>1, SameSocket DEF ToClientArrives, ClientFacts!HandshakeBytesArrive, serviceVars, vars,
                              socketVars, requestVars
    <3>2. CASE Client!PeerVanishes /\ UNCHANGED <<serviceVars, ClientFacts!handshakeVars>>
      BY <3>2, SameSocket DEF serviceVars, vars, socketVars, requestVars
    <3>3. CASE PeerVanishes /\ Client!PeerVanishes /\ UNCHANGED clientVars
      BY <3>3 DEF Client!PeerVanishes, clientVars, cSocketVars
    <3> QED BY <1>4, <3>1, <3>2, <3>3 DEF ConnectionLost, ClientFacts!handshakeVars
  <2>2. ClientFacts!SocketTypeOK' /\ ClientFacts!StreamCut(0)
    BY <1>1, <2>1, ClientAssumptions, ClientFacts!NetworkType, ClientFacts!NetworkCut
       DEF ClientFacts!HandshakeBytesArrive
  <2>3. cUp' /\ cPeer' = "open" => cUp /\ cPeer = "open"
    BY <2>1 DEF ClientFacts!HandshakeBytesArrive, ClientFacts!Arrive, ClientFacts!PeerVanishes
  <2>4. ClientThere' => ClientThere /\ ClientFacts!StreamLength' = ClientFacts!StreamLength
    BY <1>1, <2>1, <2>2, <2>3 DEF ClientThere, ClientFacts!StreamCut
  <2> QED BY <2>1, <2>2, <2>4, AnswerCut
<1> QED BY <1>2, <1>3, <1>4 DEF ConnectionLost

LEMMA GoodbyeAnswered ==
  ASSUME AnswerInv, ClientDisconnects
  PROVE  AnswerInv'
<1>1. ClientFacts!SocketTypeOK /\ cTx \in Seq(Byte) /\ CloseFrame \in Seq(Byte)
  BY ClientTypes, SameSocket DEF ClientFacts!SocketTypeOK, CloseFrame, Flag_Fin, Opcode_Close, Byte
<1>2. /\ cTx' = cTx \o CloseFrame /\ cUp' = FALSE /\ cWire' = <<>> /\ cRx' = <<>> /\ cPeer' = cPeer
      /\ UNCHANGED ClientFacts!handshakeVars /\ UNCHANGED <<spc, established>>
  BY DEF ClientDisconnects, Client!Write, Client!Stop, ClientFacts!handshakeVars, requestVars
<1>3. cTx' \in Seq(Byte) /\ <<>> \in Seq(Byte)
  BY <1>1, <1>2
<1>4. ClientFacts!SocketTypeOK'
  BY <1>1, <1>2, <1>3, SameSocket DEF ClientFacts!SocketTypeOK
<1>5. ClientFacts!StreamLength' = 0
  BY <1>2 DEF ClientFacts!StreamLength
<1>6. ClientFacts!StreamCut(0) /\ ~ClientThere'
  BY <1>2, <1>5 DEF ClientFacts!StreamCut, ClientThere
<1> QED BY <1>2, <1>4, <1>6, AnswerCut

\* What a step of the server writes comes to the end of the client's stream.
WrittenBytes == SubSeq(tx', Len(tx) + 1, Len(tx'))

LEMMA WrittenType ==
  ASSUME tx \in Seq(Byte), tx' \in Seq(Byte)
  PROVE  /\ WrittenBytes \in Seq(Byte) /\ Len(WrittenBytes) \in Nat
         /\ tx' = tx => WrittenBytes = <<>>
         /\ tx = <<>> => WrittenBytes = tx'
<1>1. Len(tx) \in Nat /\ Len(tx') \in Nat
  OBVIOUS
<1>2. tx' = tx => WrittenBytes = <<>>
  BY <1>1 DEF WrittenBytes
<1>3. tx = <<>> => WrittenBytes = tx'
  BY DEF WrittenBytes
<1>4. WrittenBytes \in Seq(Byte)
  <2>1. CASE Len(tx) + 1 <= Len(tx')
    BY <1>1, <2>1, SubSeqBytes DEF WrittenBytes
  <2>2. CASE Len(tx) + 1 > Len(tx')
    <3>1. SubSeq(tx', Len(tx) + 1, Len(tx')) = <<>> /\ <<>> \in Seq(Byte)
      BY <1>1, <2>2
    <3> QED BY <3>1 DEF WrittenBytes
  <2> QED BY <1>1, <2>1, <2>2
<1>5. Len(WrittenBytes) \in Nat
  BY <1>4
<1> QED BY <1>2, <1>3, <1>4, <1>5

LEMMA ReachesStream ==
  ASSUME ClientFacts!SocketTypeOK, tx \in Seq(Byte), tx' \in Seq(Byte), ReachesClient
  PROVE  /\ ClientFacts!SocketTypeOK' /\ UNCHANGED <<cUp, cRx>>
         /\ cPeer' \in {cPeer, "closed"} /\ (cPeer' = "open" => cPeer = "open")
         /\ IF ClientThere THEN cWire' = cWire \o WrittenBytes
            ELSE UNCHANGED <<cPeer, cWire>>
<1>1. CASE ClientThere
  <2>1. /\ cWire' = cWire \o WrittenBytes /\ UNCHANGED <<cUp, cRx, cTx>>
        /\ cPeer' \in {cPeer, "closed"} /\ cPeer = "open"
    BY <1>1 DEF ReachesClient, ClientThere, WrittenBytes
  <2>2. cWire \in Seq(Byte) /\ WrittenBytes \in Seq(Byte)
    BY WrittenType, SameSocket DEF ClientFacts!SocketTypeOK
  <2>3. cWire' \in Seq(Byte)
    BY <2>1, <2>2
  <2> QED BY <1>1, <2>1, <2>3, SameSocket DEF ClientFacts!SocketTypeOK
<1>2. CASE ~ClientThere
  BY <1>2 DEF ReachesClient, cSocketVars, ClientFacts!SocketTypeOK
<1> QED BY <1>1, <1>2

\* The server's steps do not bring a client back that is gone.
LEMMA ServerLeavesOff ==
  ASSUME FirstConnection, OneCleanConnection, ServerHandshakes \/ ServerServes, ReachesClient
  PROVE  peer' = peer /\ (ClientThere' => ClientThere)
<1>1. ~Reconnect
  BY DEF FirstConnection, OneCleanConnection, Reconnect
<1>2. CASE ServerHandshakes
  BY <1>2 DEF ServerHandshakes, RunHandshake, ServerStep, StartRun, ReadRequestByte, Decide, Refuse,
              Terminate, Stop, socketVars, ReachesClient, ClientThere, cSocketVars
<1>3. CASE ServerServes
  <2>1. peer' = peer
    BY <1>1, <1>3 DEF ServerServes, ServeFrames, ReadFrame, ReadByteError, ReadOpcode, ReadLength,
                      ReadLength2, ReadLength8, ReadMask, ReadUnnamed, ReadPayload, GotByte,
                      SpinEmptyPayload, Overrun, AnswerClose, App, DispatchEvents, FrameHandlerReturns,
                      ErrorHandlerReturns, AppDisconnects, ReconnectFails, SendData, Disconnect,
                      ConnectFails, Stop, socketVars
  <2> QED BY <2>1 DEF ReachesClient, ClientThere, cSocketVars
<1> QED BY <1>2, <1>3

\* The WebSocket of the server writes behind the answer.
LEMMA ServesKept ==
  ASSUME OneCleanConnection, ServerInv, ServerInv', AnswerInv, ServerServes
  PROVE  AnswerInv'
<1>1. /\ established /\ ReachesClient /\ UNCHANGED ClientFacts!handshakeVars
      /\ UNCHANGED <<spc, established>>
  BY DEF ServerServes, ServeFrames, requestVars, ClientFacts!handshakeVars
<1>2. /\ tx \in Seq(Byte) /\ tx' \in Seq(Byte) /\ WrittenBytes \in Seq(Byte)
      /\ Len(WrittenBytes) \in Nat
  BY WrittenType DEF ServerInv, ServiceInv, TypeOK, SocketTypeOK
<1>3. /\ ClientFacts!SocketTypeOK' /\ cRx' = cRx /\ ClientFacts!SocketTypeOK
      /\ IF ClientThere THEN cWire' = cWire \o WrittenBytes ELSE UNCHANGED <<cPeer, cWire>>
  BY <1>1, <1>2, ClientTypes, ReachesStream
<1>4. ClientThere' => ClientThere
  BY <1>1, ServerLeavesOff DEF ServerInv, ServiceInv
<1>5. CASE ClientThere
  <2>1. response = Answered /\ response # ClientFacts!NoResponse
    BY <1>1 DEF AnswerInv, Answered, ClientFacts!NoResponse
  <2>2. hpc # "done" => AnswerComes >= Len(Response)
    BY <1>1, <1>5 DEF AnswerInv
  <2>3. ClientFacts!HandshakeInv'
    <3>1. hpc # "done" => taken + ClientFacts!StreamLength >= response.head
      BY <2>1, <2>2 DEF AnswerComes, Answered
    <3> QED BY <1>1, <1>2, <1>3, <1>5, <2>1, <3>1, ClientAssumptions, SameSocket,
               ClientFacts!BytesBehind DEF AnswerInv
  <2>4. ClientFacts!StreamLength' = ClientFacts!StreamLength + Len(WrittenBytes)
    BY <1>2, <1>3, <1>5, ClientAssumptions, SameSocket, ClientFacts!StreamGrows
  <2>5. hpc' # "done" => AnswerComes' >= Len(Response)
    <3>1. AnswerComes' = AnswerComes + Len(WrittenBytes)
      BY <1>1, <1>2, <2>4, ClientTypes DEF AnswerComes, ClientFacts!handshakeVars
    <3>2. hpc' = hpc /\ AnswerComes \in Nat /\ Len(Response) \in Nat
      BY <1>1, ClientTypes, RequestsAssumption DEF ClientFacts!handshakeVars
    <3> QED BY <1>2, <2>2, <3>1, <3>2
  <2> QED BY <1>1, <2>1, <2>3, <2>5 DEF AnswerInv, ClientFacts!handshakeVars
<1>6. CASE ~ClientThere
  <2>1. /\ ClientFacts!StreamLength' = ClientFacts!StreamLength
        /\ \A p : ClientFacts!StreamAt(p)' = ClientFacts!StreamAt(p)
    BY <1>3, <1>6 DEF ClientFacts!StreamLength, ClientFacts!StreamAt
  <2>2. ClientFacts!StreamCut(0)
    <3>1. cUp' = cUp /\ cPeer' = cPeer /\ ClientFacts!StreamLength \in Nat
      BY <1>1, <1>3, <1>6, ClientTypes DEF ReachesClient, cSocketVars
    <3> QED BY <2>1, <3>1 DEF ClientFacts!StreamCut
  <2> QED BY <1>1, <1>3, <1>4, <1>6, <2>2, AnswerCut
<1> QED BY <1>5, <1>6

\* run() reads, or decides: it answers, or quits and the client has two bytes.
LEMMA RunCases ==
  ASSUME ServerInv, RunHandshake
  PROVE  /\ spc # "done" /\ tx = <<>> /\ established = FALSE
         /\ \/ tx' = tx /\ established' = FALSE
            \/ tx' = Response /\ established' = TRUE /\ spc' = "done"
            \/ tx' = Quit /\ established' = FALSE /\ spc' = "done"
<1>1. spc # "done" /\ ServerStep
  BY DEF RunHandshake, ServerStep, StartRun, ReadRequestByte, Decide, Refuse
<1>2. tx = <<>> /\ established = FALSE
  BY <1>1 DEF ServerInv, Undecided
<1>3. <<>> \o Response = Response /\ <<>> \o Quit = Quit
  BY RequestsAssumption DEF Quit
<1> QED BY <1>1, <1>2, <1>3 DEF ServerStep, StartRun, ReadRequestByte, Decide, Refuse, Terminate,
                                Write, socketVars

LEMMA AnswersKept ==
  ASSUME OneCleanConnection, ClientFacts!WellFormed(Answered), ServerInv, ServerInv', AnswerInv,
         ServerHandshakes
  PROVE  AnswerInv'
<1>1. /\ ReachesClient /\ RunHandshake
      /\ UNCHANGED <<hpc, state, headerName, headerValue, serverKey, result, taken>>
      /\ response' = IF tx' = tx THEN response ELSE IF established' THEN Answered ELSE Rejected
  BY DEF ServerHandshakes
<1>2. /\ spc # "done" /\ tx = <<>> /\ established = FALSE /\ response = ClientFacts!NoResponse
      /\ \/ tx' = tx /\ established' = FALSE
         \/ tx' = Response /\ established' = TRUE /\ spc' = "done"
         \/ tx' = Quit /\ established' = FALSE /\ spc' = "done"
  BY <1>1, RunCases DEF AnswerInv
<1>3. tx \in Seq(Byte) /\ tx' \in Seq(Byte) /\ WrittenBytes = tx' /\ ClientFacts!SocketTypeOK
  BY <1>2, WrittenType, ClientTypes DEF ServerInv, ServiceInv, TypeOK, SocketTypeOK
<1>4. /\ ClientFacts!SocketTypeOK' /\ UNCHANGED <<cUp, cRx>> /\ cPeer' \in {cPeer, "closed"}
      /\ IF ClientThere THEN cWire' = cWire \o tx' ELSE UNCHANGED <<cPeer, cWire>>
  BY <1>1, <1>3, ReachesStream
<1>5. ClientThere' => ClientThere
  BY <1>1, ServerLeavesOff DEF ServerInv, ServiceInv
<1>6. ClientFacts!StreamLength = 0 /\ taken = 0
  BY <1>2, ClientAssumptions, ClientFacts!NotYetAnswered DEF AnswerInv, ClientFacts!Unanswered
<1>7. cRx = <<>> /\ cWire = <<>>
  <2>1. cRx \in Seq(Byte) /\ cWire \in Seq(Byte)
    BY <1>3, SameSocket DEF ClientFacts!SocketTypeOK
  <2>2. Len(cRx) = 0 /\ Len(cWire) = 0
    BY <1>6, <2>1 DEF ClientFacts!StreamLength
  <2> QED BY <2>1, <2>2
<1>8. /\ cRx' = <<>> /\ cWire' \in {<<>>, tx'} /\ (ClientThere => cWire' = tx')
      /\ ClientFacts!StreamLength' = Len(cWire')
      /\ \A p \in 1..Len(cWire') : ClientFacts!StreamAt(p)' = cWire'[p]
  <2>1. cRx' = <<>> /\ cWire' \in {<<>>, tx'} /\ (ClientThere => cWire' = tx')
    BY <1>3, <1>4, <1>7
  <2>2. Len(cWire') \in Nat
    BY <1>3, <2>1
  <2> QED BY <2>1, <2>2 DEF ClientFacts!StreamLength, ClientFacts!StreamAt
<1>9. Len(Response) \in Nat /\ Len(Response) > 2 /\ Len(Quit) = 2 /\ Response # <<>> /\ Quit # <<>>
  BY AnsweredSize DEF Quit
<1>10. Answered # Rejected /\ Answered # ClientFacts!NoResponse /\ Rejected # ClientFacts!NoResponse
  BY DEF Answered, Rejected, ClientFacts!NoResponse, Quit
<1>11. CASE tx' = tx
  <2>1. UNCHANGED ClientFacts!handshakeVars /\ ClientFacts!StreamLength' = 0 /\ established' = FALSE
    BY <1>1, <1>2, <1>8, <1>9, <1>11 DEF ClientFacts!handshakeVars
  <2>2. ClientFacts!StreamCut(0)
    <3>1. /\ ~(ClientFacts!StreamLength' > 0) /\ 1..ClientFacts!StreamLength' = {}
          /\ ClientFacts!StreamLength' = ClientFacts!StreamLength - 0
      BY <1>6, <2>1
    <3>2. cUp' /\ cPeer' # "gone" => cUp /\ cPeer # "gone"
      BY <1>1, <1>4 DEF ReachesClient, ClientThere, cSocketVars
    <3> QED BY <3>1, <3>2 DEF ClientFacts!StreamCut
  <2>3. ClientFacts!HandshakeInv'
    BY <1>4, <2>1, <2>2, ClientAssumptions, ClientFacts!CutKeeps DEF AnswerInv
  <2>4. AnswerComes' = AnswerComes
    BY <1>1, <1>6, <2>1 DEF AnswerComes
  <2> QED BY <1>1, <1>2, <1>10, <1>11, <2>1, <2>3, <2>4 DEF AnswerInv
<1>12. CASE tx' # tx
  <2>1. /\ response' \in {Answered, Rejected} /\ response'.bytes = tx' /\ spc' = "done"
        /\ established' \in BOOLEAN /\ response' = IF established' THEN Answered ELSE Rejected
    BY <1>1, <1>2, <1>12 DEF Answered, Rejected
  <2>2. ClientFacts!WellFormed(response')
    BY <2>1, RejectedWellFormed
  <2>3. \A p \in 1..ClientFacts!StreamLength' :
          p <= Len(response'.bytes) /\ ClientFacts!StreamAt(p)' = response'.bytes[p]
    BY <1>8, <1>9, <2>1
  <2>4. ClientFacts!HandshakeInv'
    BY <1>1, <1>2, <1>4, <2>1, <2>2, <2>3, ClientAssumptions, ClientFacts!AnswerBegins DEF AnswerInv
  <2>5. /\ AnswerComes' = Len(cWire') /\ Len(cWire') \in Nat /\ Len(cWire') <= Len(tx')
        /\ (ClientThere => Len(cWire') = Len(tx'))
    BY <1>1, <1>3, <1>6, <1>8 DEF AnswerComes
  <2>6. established' => tx' = Response
    BY <1>2
  <2>7. established' /\ ClientThere' => AnswerComes' >= Len(Response)
    BY <1>5, <1>9, <2>5, <2>6
  <2> QED BY <1>10, <2>1, <2>4, <2>5, <2>7 DEF AnswerInv
<1> QED BY <1>11, <1>12

LEMMA EndpointsInvStays ==
  ASSUME OneCleanConnection, AllText, AllNameKeys, ClientFacts!WellFormed(Answered),
         EndpointsInv, [EndpointsNext]_endpointVars
  PROVE  EndpointsInv'
<1>1. ServerInv /\ AnswerInv
  BY DEF EndpointsInv
<1>2. CASE ClientDisconnects
  BY <1>1, <1>2, GoodbyeKept, GoodbyeAnswered DEF EndpointsInv
<1>3. CASE EndpointsNext /\ ~ClientDisconnects
  <2>1. ServerInv'
    BY <1>1, <1>3, ServerSide, ServerKept
  <2> QED BY <1>1, <1>3, <2>1, HandshakesKept, AnswersKept, ServesKept, TrafficKept
          DEF EndpointsNext, EndpointsInv
<1>4. CASE UNCHANGED endpointVars
  <2>1. /\ UNCHANGED serviceVars /\ UNCHANGED <<cPeer, cWire, cRx, cUp, cTx>>
        /\ UNCHANGED ClientFacts!handshakeVars
    BY <1>4 DEF endpointVars, clientVars, cSocketVars, ClientFacts!handshakeVars
  <2>2. UNCHANGED <<spc, established, peer>>
    BY <2>1 DEF serviceVars, requestVars, vars, socketVars
  <2>3. cTx' \in Seq(Byte)
    BY <1>1, <2>1, ClientTypes, SameSocket DEF ClientFacts!SocketTypeOK
  <2> QED BY <1>1, <2>1, <2>2, <2>3, ServerKept, AnswerStays DEF ClientThere, EndpointsInv
<1> QED BY <1>2, <1>3, <1>4

-------------------------------------------------------------------------------
(* The two ends agree. *)

\* The verdict of the client is about the answer that the server gave: it is the
\* right one, and the two bytes of a refusal are not taken for a whole header.
LEMMA InvAgrees == EndpointsInv => VerdictsAgree
<1> SUFFICES ASSUME EndpointsInv PROVE VerdictsAgree
  OBVIOUS
<1>1. ServerInv /\ AnswerInv
  BY DEF EndpointsInv
<1>2. ClientFacts!VerdictIsRight /\ ClientFacts!HeaderRead
  BY <1>1, ClientAssumptions, ClientFacts!VerdictFromInv DEF AnswerInv
<1>3. ASSUME result = "Success_Ok" PROVE established /\ newkey = ClientRequest.key
  <2>1. response = Answered
    BY <1>1, <1>2, <1>3, ClientTypes
       DEF ClientFacts!VerdictIsRight, Rejected, ClientFacts!NoResponse
  <2>2. established
    BY <1>1, <2>1 DEF AnswerInv
  <2>3. request = ClientRequest /\ newkey = request.key
    BY <1>1, <2>2 DEF ServerInv, KeyInv
  <2> QED BY <2>2, <2>3
<1>4. ASSUME result = "Error_BadHandshake" PROVE FALSE
  <2>1. ~response.proves /\ taken \in {response.head - 1, response.head}
    BY <1>2, <1>4 DEF ClientFacts!VerdictIsRight, ClientFacts!HeaderRead
  <2>2. response # Answered
    BY <2>1 DEF Answered
  <2>3. response # ClientFacts!NoResponse
    BY <1>1, <1>4, ClientAssumptions, ClientFacts!NotYetAnswered
       DEF AnswerInv, ClientFacts!Unanswered, ClientFacts!HandshakeInv, ClientFacts!Verdict
  <2>4. response = Rejected /\ ~established
    BY <1>1, <2>2, <2>3, ClientTypes DEF AnswerInv
  <2>5. Len(response.bytes) = 2 /\ response.head = 5
    BY <2>4 DEF Rejected, Quit
  <2>6. taken <= 2
    BY <1>1, <2>4, <2>5, ClientTypes DEF AnswerInv, AnswerComes
  <2> QED BY <2>1, <2>5, <2>6, ClientTypes, <1>1
<1> QED BY <1>3, <1>4 DEF VerdictsAgree

\* For every request and answer and every way in which the bytes of both travel: a
\* client succeeds only with a server that established the connection for its key,
\* and it never finds the answer of this library's server wrong.
THEOREM EndsAgree ==
  ASSUME OneCleanConnection, AllText, AllNameKeys, Client!WellFormed(Answered)
  PROVE  EndpointsSpec => []VerdictsAgree
<1>1. EndpointsInv /\ [EndpointsNext]_endpointVars => EndpointsInv'
  BY SameHeader, EndpointsInvStays
<1> QED BY <1>1, EndpointsInvInit, InvAgrees, PTL DEF EndpointsSpec

-------------------------------------------------------------------------------
(* The frames of the client. *)

\* What sendData puts into one length byte; see EncodedData for longer messages.
ShortMessages == \A m \in ClientMessages : m \in Seq(Byte) /\ Len(m) <= 125

\* The writer's frames are of the kinds that the reader takes apart as they are meant.
LEMMA ShortFrame ==
  ASSUME NEW m \in Seq(Byte), Len(m) <= 125
  PROVE  Accepted(SentFrame(m))
<1> DEFINE n == Len(m)
           bytes == <<129, n>> \o m
<1>0. n \in Nat /\ n <= 125
  OBVIOUS
<1>1. n \in Nat /\ n <= 125 /\ n \in 0..LongestPayload
  <2> HIDE DEF n
  <2> QED BY <1>0, CounterArithmetic
<1>2. SentFrame(m).bytes = bytes /\ SentFrame(m).event = [cb |-> "onTextFrame", msg |-> m]
  <2>1. EncodedData(m, Opcode_Text) = <<129>> \o <<n>> \o m
    <3>1. ~(Len(m) > 125) /\ Flag_Fin + Opcode_Text = 129
      BY <1>1 DEF Flag_Fin, Opcode_Text
    <3> QED BY <3>1 DEF EncodedData
  <2>2. <<129>> \o <<n>> \o m = bytes
    BY <1>1
  <2> QED BY <2>1, <2>2 DEF SentFrame
<1>3. /\ Len(bytes) = 2 + n /\ bytes[1] = 129 /\ bytes[2] = n
      /\ \A i \in 1..n : bytes[2 + i] = m[i]
  BY <1>1
<1>4. m = [i \in 1..n |-> bytes[2 + i]]
  BY <1>1, <1>3
<1> HIDE DEF bytes, n
<1>5. HasHeader(SentFrame(m), 2, n)
  BY <1>1, <1>2, <1>3 DEF HasHeader, n
<1>6. OpcodeOf(129) = Opcode_Text /\ Fin(129)
  BY DEF OpcodeOf, Opcode_Text, Fin, Flag_Fin
<1>7. Opcode_Text \in DOMAIN Handler /\ Handler[Opcode_Text] = "onTextFrame"
  BY DEF Handler, Opcode_Text, Opcode_Binary, Opcode_Ping, Opcode_Pong
<1>8. Supported(SentFrame(m))
  <2>1. SentFrame(m).event
          = [cb |-> Handler[OpcodeOf(SentFrame(m).bytes[1])],
             msg |-> [i \in 1..n |-> SentFrame(m).bytes[2 + i]]]
    <3>1. [i \in 1..n |-> SentFrame(m).bytes[2 + i]] = m
      BY <1>2, <1>4
    <3>2. Handler[OpcodeOf(SentFrame(m).bytes[1])] = "onTextFrame"
      BY <1>2, <1>3, <1>6, <1>7
    <3> QED BY <1>2, <3>1, <3>2
  <2>2. OpcodeOf(SentFrame(m).bytes[1]) \in DOMAIN Handler /\ 2 \in HeaderSizes
    BY <1>2, <1>3, <1>6, <1>7 DEF HeaderSizes
  <2> QED BY <1>1, <1>5, <2>1, <2>2 DEF Supported
<1> QED BY <1>2, <1>3, <1>6, <1>7, <1>8 DEF Accepted

LEMMA GoodbyeFrame == Accepted(Goodbye)
<1>1. Goodbye.bytes = <<136, 0>> /\ Goodbye.event = NoEvent
  BY DEF Goodbye, CloseFrame, Flag_Fin, Opcode_Close
<1>2. Len(<<136, 0>>) = 2 /\ <<136, 0>>[1] = 136 /\ <<136, 0>>[2] = 0
  OBVIOUS
<1>3. HasHeader(Goodbye, 2, 0)
  BY <1>1, <1>2 DEF HasHeader
<1>4. OpcodeOf(136) = Opcode_Close /\ Fin(136) /\ Opcode_Close \notin DOMAIN Handler
  BY DEF OpcodeOf, Opcode_Close, Fin, Flag_Fin, Handler, Opcode_Text, Opcode_Binary,
         Opcode_Ping, Opcode_Pong
<1>5. 0 \in 0..LongestPayload
  BY CounterArithmetic
<1> QED BY <1>1, <1>2, <1>3, <1>4, <1>5 DEF Accepted, Supported, HeaderSizes

LEMMA ShortAccepted == ShortMessages => AllAccepted
  BY ShortFrame, GoodbyeFrame, EndpointsAssumption DEF ShortMessages, AllAccepted

\* When run() has read the whole request, the server's parser stands where the
\* stream of the client's frames does, and none of them was refused.
TrafficInv ==
  established /\ unread = 0 =>
    InOrder /\ (Ending \/ Aligned) /\ raised \subseteq {"Error_NotConnected"}

\* run() leaves the stream to the WebSocket at its beginning, with nothing sent,
LEMMA TrafficBegins ==
  ASSUME ServerInv, ServerInv', RunHandshake
  PROVE  TrafficInv'
<1> SUFFICES ASSUME established', unread' = 0
             PROVE  InOrder' /\ Aligned' /\ raised' \subseteq {"Error_NotConnected"}
  BY DEF TrafficInv
<1>1. TypeOK /\ TypeOK' /\ StreamLength \in Nat
  BY Lengths DEF ServerInv, ServiceInv
<1>2. /\ Decide /\ spc' = "done" /\ ~established /\ UNCHANGED readerVars
      /\ UNCHANGED <<up, peer, wire, rx>>
  BY RunCases DEF RunHandshake, ServerStep, StartRun, ReadRequestByte, Decide, Refuse
<1>3. StreamLength = 0
  BY <1>1, <1>2 DEF RunHandshake, StreamLength, TypeOK, SocketTypeOK
<1>4. sent = <<>> /\ delivered = <<>> /\ raised = {} /\ AtBoundary
  BY <1>2 DEF ServerInv, ServiceInv
<1>5. InOrder /\ Aligned
  BY <1>3, <1>4, EmptyInOrder
<1>6. Aligned'
  <2>1. StreamCut(0)
    BY <1>1, <1>2, QuietStream
  <2> QED BY <1>1, <1>2, <1>5, <2>1, AlignedKept DEF readerVars, historyVars
<1>7. InOrder'
  BY <1>2, <1>5 DEF InOrder, readerVars, historyVars
<1> QED BY <1>2, <1>4, <1>6, <1>7 DEF readerVars

\* which goes on while frames come and are served,
LEMMA TrafficGoesOn ==
  ASSUME OneCleanConnection, AllAccepted, ServerInv, ServerInv', established, TrafficInv,
         [Next]_vars, UNCHANGED <<requestVars, unread>>
  PROVE  TrafficInv'
<1> SUFFICES ASSUME unread = 0
             PROVE  InOrder' /\ (Ending' \/ Aligned') /\ raised' \subseteq {"Error_NotConnected"}
  BY DEF TrafficInv
<1>1. TypeOK /\ TypeOK' /\ clean /\ clean' /\ ~Reconnect
  BY DEF ServerInv, ServiceInv, FirstConnection, OneCleanConnection, Reconnect
<1>2. InOrder /\ (Ending \/ Aligned) /\ raised \subseteq {"Error_NotConnected"}
  BY DEF TrafficInv
<1>3. InOrder' /\ (Ending' \/ Aligned')
  BY <1>1, <1>2, AcceptedLegible, OrderStep DEF OrderInv
<1>4. raised' \subseteq raised \union {"Error_NotConnected"}
  BY <1>1, <1>2, NoneRefused
<1> QED BY <1>2, <1>3, <1>4

\* and when the client says goodbye.
LEMMA TrafficEnds ==
  ASSUME ServerInv, ServerInv', AnswerInv, TrafficInv, ClientDisconnects
  PROVE  TrafficInv'
<1> SUFFICES ASSUME unread = 0
             PROVE  InOrder' /\ (Ending' \/ Aligned') /\ raised' \subseteq {"Error_NotConnected"}
  BY GoodbyeComes DEF TrafficInv
<1>1. /\ TypeOK /\ TypeOK' /\ Goodbye \in PeerFrames /\ FrameComes(Goodbye) /\ Connected
      /\ pc' = pc /\ raised' = raised /\ established
  BY GoodbyeComes DEF ServerInv, ServiceInv
<1>2. InOrder /\ (Ending \/ Aligned) /\ raised \subseteq {"Error_NotConnected"}
  BY <1>1 DEF TrafficInv
<1>3. Aligned => Aligned'
  BY <1>1, <1>2, ComesAligned
<1>4. Ending => Ending'
  BY <1>1 DEF Ending, FrameComes, parserVars
<1> QED BY <1>1, <1>2, <1>3, <1>4, SendingKeepsOrder

LEMMA TrafficInvStays ==
  ASSUME OneCleanConnection, AllAccepted, EndpointsInv, EndpointsInv', TrafficInv,
         [EndpointsNext]_endpointVars
  PROVE  TrafficInv'
<1>1. ServerInv /\ ServerInv' /\ AnswerInv
  BY DEF EndpointsInv
<1>2. CASE ClientDisconnects
  BY <1>1, <1>2, TrafficEnds
<1>3. CASE [ServiceNext]_serviceVars
  <2>1. CASE RunHandshake
    BY <1>1, <2>1, TrafficBegins
  <2>2. CASE ~established /\ ~RunHandshake
    <3>1. established' = established
      BY <1>3, <2>2 DEF ServiceNext, ServeFrames, ServiceClient, ClientSends, serviceVars, requestVars
    <3> QED BY <2>2, <3>1 DEF TrafficInv
  <2>3. CASE established
    <3>1. spc = "done" /\ request # NoRequest
      BY <1>1, <2>3 DEF ServerInv, ServiceInv
    <3>2. ~RunHandshake /\ \A r \in Requests : ~ClientSends(r)
      BY <3>1 DEF RunHandshake, ServerStep, StartRun, ReadRequestByte, Decide, Refuse, ClientSends
    <3>3. [Next]_vars /\ UNCHANGED <<requestVars, unread>>
      BY <1>3, <3>2 DEF ServiceNext, ServeFrames, ServiceClient, Next, serviceVars
    <3> QED BY <1>1, <2>3, <3>3, TrafficGoesOn
  <2> QED BY <2>1, <2>2, <2>3
<1>4. UNCHANGED endpointVars => UNCHANGED serviceVars
  BY DEF endpointVars
<1> QED BY <1>1, <1>2, <1>3, <1>4, ServerSide

LEMMA EndpointsFrames ==
  ASSUME OneCleanConnection, AllText, AllNameKeys, Client!WellFormed(Answered), ShortMessages
  PROVE  EndpointsSpec => [](EndpointsInv /\ TrafficInv)
<1>1. EndpointsInit => TrafficInv
  BY DEF EndpointsInit, ServiceInit, ServerInit, TrafficInv
<1>2. EndpointsInv /\ [EndpointsNext]_endpointVars => EndpointsInv'
  BY SameHeader, EndpointsInvStays
<1>3. EndpointsInv /\ EndpointsInv' /\ TrafficInv /\ [EndpointsNext]_endpointVars => TrafficInv'
  BY ShortAccepted, TrafficInvStays
<1> QED BY <1>1, <1>2, <1>3, EndpointsInvInit, PTL DEF EndpointsSpec

\* The library understands itself: whatever short messages the client sends after
\* its handshake, however they travel and whenever it says goodbye, the server
\* reports no error but a lost connection, unless run() had left a part of the
\* request unread.
THEOREM NoneFalselyRefused ==
  ASSUME OneCleanConnection, AllText, AllNameKeys, Client!WellFormed(Answered), ShortMessages
  PROVE  EndpointsSpec => []NoFalseAlarm
<1>1. EndpointsInv /\ TrafficInv => NoFalseAlarm
  BY DEF EndpointsInv, ServerInv, ServiceInv, TrafficInv, NoFalseAlarm
<1> QED BY <1>1, EndpointsFrames, PTL

\* And its handlers are called for the client's messages, each once, in the order in
\* which they were sent; none is when a part of the request was left.
THEOREM MessagesInOrder ==
  ASSUME OneCleanConnection, AllText, AllNameKeys, Client!WellFormed(Answered), ShortMessages
  PROVE  EndpointsSpec => [](FramesInOrder /\ RestIsNoFrame)
<1>1. ASSUME EndpointsInv, TrafficInv PROVE FramesInOrder /\ RestIsNoFrame
  <2>1. TypeOK /\ ServiceInv /\ unread \in Nat
    BY <1>1 DEF EndpointsInv, ServerInv, ServiceInv
  <2>2. RestIsNoFrame
    BY <2>1 DEF ServiceInv, Dud, RestIsNoFrame
  <2>3. CASE delivered = <<>>
    BY <2>1, <2>2, <2>3, Lengths DEF FramesInOrder
  <2>4. CASE delivered # <<>>
    BY <1>1, <2>2, <2>4 DEF RestIsNoFrame, TrafficInv, InOrder, FramesInOrder
  <2> QED BY <2>2, <2>3, <2>4
<1> QED BY <1>1, EndpointsFrames, PTL
===============================================================================
