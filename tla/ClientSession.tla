---------------------------- MODULE ClientSession -----------------------------
(***************************************************************************)
(* A client's whole session on one connection: clientHandshake first, then *)
(* a WebSocket on the same Socket, as examples/WebSocketClient_Demo does.  *)
(* The two share nothing but the stream: where the handshake stops reading *)
(* the frame parser starts.                                                *)
(***************************************************************************)
EXTENDS WebSocket, ClientHandshake

webSocketVars == <<parserVars, pc, raised, delivered, historyVars>>
sessionVars == <<vars, handshakeVars>>

SessionInit == Init /\ HandshakeInit

\* The sketch uses the WebSocket only after a handshake that succeeded.
Handover == result = "Success_Ok"

HeaderSent == response # NoResponse /\ response.head <= Len(response.bytes)

\* A server may send frames from the moment it has sent its whole header.
SessionPeer ==
  \/ \E r \in Responses : ServerAnswers(r) /\ UNCHANGED webSocketVars
  \/ \E f \in PeerFrames : HeaderSent /\ PeerSends(f) /\ UNCHANGED handshakeVars
  \/ (BytesArrive \/ PeerLeaves) /\ UNCHANGED handshakeVars

SessionNext ==
  \/ HandshakeStep /\ UNCHANGED webSocketVars
  \/ Handover /\ (ReadFrame \/ AnswerClose \/ App) /\ UNCHANGED handshakeVars
  \/ SessionPeer

SessionSpec == SessionInit /\ [][SessionNext]_sessionVars

\* clientHandshake runs, and bytes in flight arrive.
SessionFairSpec ==
  /\ SessionSpec
  /\ WF_sessionVars(HandshakeStep /\ UNCHANGED webSocketVars)
  /\ WF_sessionVars(BytesArrive /\ UNCHANGED handshakeVars)

-------------------------------------------------------------------------------
(* Properties. *)

\* No frame reaches the application from a server that did not prove in its
\* response that it is a WebSocket server.
OnlyProvenServers == delivered # <<>> => response.proves

\* A server whose frames all have handlers is told of an unsupported frame only
\* if clientHandshake left the header's last line feed in the stream.
ErrorOnlyFromLineFeed ==
  "Error_UnsupportedFrameType" \in raised => taken = response.head - 1
===============================================================================
