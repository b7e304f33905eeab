------------------------------- MODULE Endpoints ------------------------------
(***************************************************************************)
(* Both ends of one connection run this library: a client that calls       *)
(* clientHandshake and then sends messages and disconnects, and a server   *)
(* session.  Each end has its own Socket; what one end writes travels on   *)
(* the other's wire, and when one stops, the other's stream ends.          *)
(***************************************************************************)
EXTENDS ServerSession

CONSTANTS
  ClientRequest,    \* the client's request, of the kind of Requests
  ClientMessages,   \* what the client's application sends
  AcceptNames, CalculatedKey    \* as in ClientHandshake

VARIABLES
  cUp, cPeer, cWire, cRx, cTx,  \* the client's Socket
  hpc, state, headerName, headerValue, serverKey, result, response, taken

\* The two answers of the server.  The client takes the one of a refusal for the
\* beginning of a header, of which two bytes of a status line have come.
Answered == [bytes |-> Response, head |-> Len(Response), proves |-> TRUE]
Rejected == [bytes |-> Quit, head |-> Len(Quit) + 3, proves |-> FALSE]

Client == INSTANCE ClientHandshake WITH
  up <- cUp, peer <- cPeer, wire <- cWire, rx <- cRx, tx <- cTx,
  Request <- ClientRequest.bytes, Responses <- {Answered, Rejected}

cSocketVars == <<cUp, cPeer, cWire, cRx, cTx>>
clientVars == <<cSocketVars, hpc, state, headerName, headerValue, serverKey, result, response, taken>>
endpointVars == <<serviceVars, clientVars>>

\* sendData writes a text frame of the whole message, disconnect a Close frame.
SentFrame(m) ==
  [bytes |-> EncodedData(m, Opcode_Text), event |-> [cb |-> "onTextFrame", msg |-> m]]
Goodbye == [bytes |-> CloseFrame, event |-> NoEvent]

ASSUME EndpointsAssumption ==
  /\ Requests = {ClientRequest}
  /\ PeerFrames = {SentFrame(m) : m \in ClientMessages} \union {Goodbye}
  /\ AcceptNames \subseteq Seq(Byte) /\ CalculatedKey \in Seq(Byte) \ {<<>>}

-------------------------------------------------------------------------------

\* What the client writes reaches a server that is there.
ServerThere == up /\ peer = "open" /\ cPeer # "gone"
ClientThere == cUp /\ cPeer = "open" /\ peer # "gone"

ClientHandshakes ==
  /\ Client!HandshakeStep
  /\ IF cTx' # cTx /\ ServerThere
       THEN ClientSends(ClientRequest) /\ UNCHANGED <<readerVars, unread>>
       ELSE UNCHANGED serviceVars

\* What a step of the server has written, and the end of its stream.
ReachesClient ==
  IF ClientThere
    THEN /\ cWire' = cWire \o SubSeq(tx', Len(tx) + 1, Len(tx'))
         /\ cPeer' = IF up' THEN cPeer ELSE "closed"
         /\ UNCHANGED <<cUp, cRx, cTx>>
    ELSE UNCHANGED cSocketVars

ServerHandshakes ==
  /\ RunHandshake /\ ReachesClient
  /\ response' = IF tx' = tx THEN response ELSE IF established' THEN Answered ELSE Rejected
  /\ UNCHANGED <<hpc, state, headerName, headerValue, serverKey, result, taken>>

ServerServes ==
  /\ ServeFrames /\ ReachesClient
  /\ UNCHANGED <<hpc, state, headerName, headerValue, serverKey, result, response, taken>>

\* Like the client demo, which uses its WebSocket only after Success_Ok.
ClientReady == result = "Success_Ok" /\ Client!Connected /\ ServerThere

ClientSendData(m) ==
  /\ ClientReady
  /\ PeerSends(SentFrame(m)) /\ Client!Write(SentFrame(m).bytes)
  /\ UNCHANGED <<requestVars, unread, cUp, cPeer, cWire, cRx>>
  /\ UNCHANGED <<hpc, state, headerName, headerValue, serverKey, result, response, taken>>

ClientDisconnects ==
  /\ ClientReady
  /\ Client!Write(CloseFrame) /\ Client!Stop
  /\ wire' = wire \o CloseFrame /\ peer' = "closed" /\ sent' = Append(sent, Goodbye)
  /\ UNCHANGED <<up, rx, tx, parserVars, pc, raised, delivered, clean, connections>>
  /\ UNCHANGED <<requestVars, unread>>
  /\ UNCHANGED <<hpc, state, headerName, headerValue, serverKey, result, response, taken>>

ToServerArrives == BytesArrive /\ UNCHANGED <<requestVars, unread, clientVars>>
ToClientArrives == Client!HandshakeBytesArrive /\ UNCHANGED serviceVars

\* Either end may find the connection lost, at different times.
ConnectionLost ==
  \/ PeerVanishes /\ UNCHANGED <<readerVars, requestVars, unread, clientVars>>
  \/ Client!PeerVanishes
     /\ UNCHANGED <<serviceVars, hpc, state, headerName, headerValue, serverKey, result, response, taken>>

EndpointsInit == ServiceInit /\ Client!HandshakeInit

EndpointsNext ==
  \/ ClientHandshakes \/ ServerHandshakes \/ ServerServes
  \/ ClientDisconnects \/ \E m \in ClientMessages : ClientSendData(m)
  \/ ToServerArrives \/ ToClientArrives \/ ConnectionLost

EndpointsSpec == EndpointsInit /\ [][EndpointsNext]_endpointVars

\* The library's own steps and the network's, at both ends; neither
\* application owes anything but to let a handler return and to dispatch.
EndpointsFairSpec ==
  /\ EndpointsSpec
  /\ WF_endpointVars(ClientHandshakes) /\ WF_endpointVars(ServerHandshakes)
  /\ WF_endpointVars(ToServerArrives) /\ WF_endpointVars(ToClientArrives)
  /\ WF_endpointVars(ServerServes /\ (ReadFrame \/ AnswerClose))
  /\ WF_endpointVars(ServerServes /\ DispatchEvents)
  /\ WF_endpointVars(ServerServes /\ (FrameHandlerReturns \/ ErrorHandlerReturns))

-------------------------------------------------------------------------------
(* Properties. *)

\* The two ends agree: the client succeeds only with a server that established
\* the connection, for this client's key, and never finds the answer wrong.
VerdictsAgree ==
  /\ result = "Success_Ok" => established /\ newkey = ClientRequest.key
  /\ result # "Error_BadHandshake"

\* The library understands itself: the server reports no error about the frames
\* of a client unless it left a part of the request unread.
NoFalseAlarm == raised \subseteq {"Error_NotConnected"} \/ unread > 0

\* Both handshakes return, without any assumption about the other end but that
\* it runs this library, unless the connection is lost.
BothReturn == <>(spc = "done" /\ (hpc = "done" \/ peer = "gone"))

\* A message that a client sends after its handshake succeeded is delivered, also
\* if it says goodbye meanwhile, unless the server had left a part of the request
\* unread, its application disconnects first, or the connection is lost.
MessagesArrive ==
  \A n \in 1..MaxFrames :
    (up /\ Len(sent) >= n /\ sent[n] # Goodbye)
      ~> (Len(delivered) >= n \/ unread > 0 \/ peer = "gone" \/ (~up /\ raised = {}))
===============================================================================
