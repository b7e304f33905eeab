---------------------------- MODULE ServerSession -----------------------------
(***************************************************************************)
(* A server's whole session on one connection: ServerHandshake::run first, *)
(* then a WebSocket on the same Socket.  As on the client's side the two   *)
(* share nothing but the stream, and run() stops reading it at the first   *)
(* moment without a byte: the rest of a late request is the first thing    *)
(* the frame parser sees.                                                  *)
(***************************************************************************)
EXTENDS WebSocket, ServerHandshake

VARIABLE unread     \* history: how much of the request was left when run() returned

readerVars == <<parserVars, pc, raised, delivered, historyVars>>
serviceVars == <<vars, requestVars, unread>>

ServiceInit == Init /\ ServerInit /\ unread = 0

RunHandshake ==
  /\ ServerStep
  /\ unread' = IF spc' = "done" THEN Len(wire) + Len(rx) ELSE unread
  /\ UNCHANGED readerVars

\* The sketch uses the WebSocket only if run() returned true.
ServeFrames ==
  /\ established
  /\ ReadFrame \/ AnswerClose \/ App
  /\ UNCHANGED <<requestVars, unread>>

\* A client sends its request at once, and frames when it has been answered.
ServiceClient ==
  \/ \E r \in Requests : ClientSends(r) /\ UNCHANGED <<readerVars, unread>>
  \/ \E f \in PeerFrames : established /\ PeerSends(f) /\ UNCHANGED <<requestVars, unread>>
  \/ (BytesArrive \/ PeerLeaves) /\ UNCHANGED <<requestVars, unread>>

ServiceNext == RunHandshake \/ ServeFrames \/ ServiceClient

ServiceSpec == ServiceInit /\ [][ServiceNext]_serviceVars

\* As in the two parts: the code that is called runs, loop() goes on, handlers
\* return, and bytes in flight arrive.
ServiceFairSpec ==
  /\ ServiceSpec
  /\ WF_serviceVars(RunHandshake)
  /\ WF_serviceVars(established /\ (ReadFrame \/ AnswerClose) /\ UNCHANGED <<requestVars, unread>>)
  /\ WF_serviceVars(established /\ DispatchEvents /\ UNCHANGED <<requestVars, unread>>)
  /\ WF_serviceVars(established /\ FrameHandlerReturns /\ UNCHANGED <<requestVars, unread>>)
  /\ WF_serviceVars(established /\ ErrorHandlerReturns /\ UNCHANGED <<requestVars, unread>>)
  /\ WF_serviceVars(BytesArrive /\ UNCHANGED <<requestVars, unread>>)

-------------------------------------------------------------------------------
(* Properties. *)

\* Handlers are called only on a connection whose request was read to its end:
\* what is left of a late request is never taken for a frame with a handler, and
\* the connection it is left on does not outlive it.
RestIsNoFrame == delivered # <<>> => established /\ unread = 0

\* A client that was answered with a part of its request unread is cut off: the
\* connection that run() reported as established ends.
RestEndsService == [](established /\ unread > 0 => <>~Connected)
===============================================================================
