---------------------------- MODULE ServerHandshake ----------------------------
(***************************************************************************)
(* Class websocket::ServerHandshake (WebSocketServer.h, .cpp): run() reads *)
(* the client's request line by line until read() has nothing, and answers *)
(* it or terminates the socket.                                            *)
(***************************************************************************)
EXTENDS Socket, SequencesExt

CONSTANTS
  UpgradePrefixes, KeyPrefix, OriginPrefix,   \* what the lines start with
  Requests,       \* what a client may send: records [bytes, key]
  Response        \* the answer to a request that is accepted

VARIABLES
  spc,            \* where run() is: "start", "analyzing", "refused", "done"
  temp,           \* the line so far
  foundupgrade, newkey, origin_,
  established,    \* what run() returned, FALSE while it has not
  request         \* history: what the client sent, or NoRequest

requestVars == <<spc, temp, foundupgrade, newkey, origin_, established, request>>
serverVars == <<socketVars, requestVars>>

NoRequest == [bytes |-> <<>>, key |-> <<>>]

\* bytes: the request.  key: the value of the key's header, or <<>>.
ASSUME RequestsAssumption ==
  /\ Requests \subseteq [bytes : Seq(Byte), key : Seq(Byte)]
  /\ UpgradePrefixes \subseteq Seq(Byte) /\ KeyPrefix \in Seq(Byte) /\ OriginPrefix \in Seq(Byte)
  /\ Response \in Seq(Byte)

LineFeed == 10

-------------------------------------------------------------------------------

\* run(): without a connection it returns false and leaves the socket alone.
StartRun ==
  /\ spc = "start"
  /\ spc' = IF Connected THEN "analyzing" ELSE "done"
  /\ UNCHANGED <<socketVars, temp, foundupgrade, newkey, origin_, established, request>>

ValueKeepsCr(prefix, line) == SubSeq(line, Len(prefix) + 1, Len(line) - 1)  \* fault
\* temp.substring(prefix length, temp.length() - 2): without CR and LF.
ValueAfter(prefix, line) == SubSeq(line, Len(prefix) + 1, Len(line) - 2)

IsUpgrade(line) == \E p \in UpgradePrefixes : IsPrefix(p, line)

\* The chain of else-ifs over a whole line; headers that are kept and never
\* used (Host, Sec-WebSocket-Key1, -Key2) do nothing.  origin_ is not used either:
\* nothing compares it with the constructor's acceptOrigin.
TakeLine(line) ==
  \/ ~foundupgrade /\ IsUpgrade(line) /\ foundupgrade' = TRUE /\ UNCHANGED <<newkey, origin_>>
  \/ /\ foundupgrade \/ ~IsUpgrade(line)
     /\ UNCHANGED foundupgrade
     /\ origin_' = IF IsPrefix(OriginPrefix, line) THEN ValueAfter(OriginPrefix, line) ELSE origin_
     /\ newkey' = IF IsPrefix(KeyPrefix, line) THEN ValueAfter(KeyPrefix, line) ELSE newkey

\* bite = socket_.read()
RequestByte == IF rx = <<>> THEN -1 ELSE Head(rx)

MoreAlways == TRUE                  \* fault: -1 does not end the loop
MoreToRead == RequestByte # -1

ReadRequestByte ==
  /\ spc = "analyzing" /\ MoreToRead
  /\ LET line == Append(temp, RequestByte)
     IN \/ RequestByte = LineFeed /\ temp' = <<>> /\ TakeLine(line)
        \/ /\ RequestByte # LineFeed
           /\ temp' = line /\ UNCHANGED <<foundupgrade, newkey, origin_>>
  /\ rx' = SubSeq(rx, 2, Len(rx))
  /\ UNCHANGED <<up, peer, wire, tx, spc, established, request>>

Acceptable == foundupgrade /\ newkey # <<>>

EndsWhenLost == RequestByte = -1 /\ ~Connected   \* fault: waits for more
EndOfRequest == RequestByte = -1

\* read() has given -1, because the client is gone or because the rest of the
\* request is late: what was read by now decides.
Decide ==
  /\ spc = "analyzing" /\ EndOfRequest
  /\ \/ /\ Connected /\ Acceptable
        /\ Write(Response) /\ established' = TRUE /\ spc' = "done"
     \/ /\ ~(Connected /\ Acceptable)
        /\ spc' = "refused" /\ UNCHANGED <<tx, established>>
  /\ UNCHANGED <<up, peer, wire, rx, temp, foundupgrade, newkey, origin_, request>>

Quit == <<135, 0>>                  \* 0x87 0x00

LeavesOpen == tx' = tx \o Quit /\ UNCHANGED <<up, peer, wire, rx>>  \* fault: stop() is missing
\* disconnect(): unlike WebSocket's it does not ask whether there is a connection.
Terminate == tx' = tx \o Quit /\ Stop

Refuse ==
  /\ spc = "refused" /\ spc' = "done"
  /\ Terminate
  /\ UNCHANGED <<temp, foundupgrade, newkey, origin_, established, request>>

-------------------------------------------------------------------------------

ClientSends(r) ==
  /\ request = NoRequest
  /\ PeerWrites(r.bytes) /\ request' = r
  /\ UNCHANGED <<spc, temp, foundupgrade, newkey, origin_, established>>

RequestArrives ==
  /\ \E k \in 1..Len(wire) : Arrive(k)
  /\ UNCHANGED requestVars

ClientLeaves ==
  /\ PeerCloses \/ PeerVanishes
  /\ UNCHANGED requestVars

ServerInit ==
  /\ SocketInit
  /\ spc = "start" /\ temp = <<>> /\ foundupgrade = FALSE
  /\ newkey = <<>> /\ origin_ = <<>> /\ established = FALSE
  /\ request = NoRequest

ServerStep == StartRun \/ ReadRequestByte \/ Decide \/ Refuse

ServerNext ==
  \/ ServerStep
  \/ RequestArrives \/ ClientLeaves
  \/ \E r \in Requests : ClientSends(r)

ServerSpec == ServerInit /\ [][ServerNext]_serverVars

-------------------------------------------------------------------------------
(* What a request's lines are, for those that name the key. *)

\* The bytes from b to e are one line, line feed included.
IsLine(bytes, b, e) ==
  /\ b = 1 \/ bytes[b - 1] = LineFeed
  /\ bytes[e] = LineFeed /\ \A p \in b..e - 1 : bytes[p] # LineFeed

\* Each line that starts as the key's line does has the request's key in it.
NamesKey(r) ==
  \A e \in DOMAIN r.bytes : \A b \in 1..e :
    LET line == SubSeq(r.bytes, b, e)
    IN IsLine(r.bytes, b, e) /\ IsPrefix(KeyPrefix, line)
         => line = KeyPrefix \o r.key \o <<13, LineFeed>>

-------------------------------------------------------------------------------
(* Properties. *)

ServerTypeOK ==
  /\ SocketTypeOK
  /\ spc \in {"start", "analyzing", "refused", "done"}
  /\ temp \in Seq(Byte) /\ newkey \in Seq(Byte) /\ origin_ \in Seq(Byte)
  /\ foundupgrade \in BOOLEAN /\ established \in BOOLEAN
  /\ request \in Requests \union {NoRequest}

\* The answer is computed from the client's whole key: a request that arrives
\* in pieces is refused or answered, and never answered for a part of its key.
KeyIsWhole == established => newkey = request.key /\ newkey # <<>>

\* run() ends in one of two ways: the client has the answer and the connection
\* stands, or it has no answer and our side of it is closed.
AnsweredOrStopped ==
  [][spc # "done" /\ spc' = "done" =>
       IF established' THEN up' /\ tx' = Response
       ELSE (~Connected)' /\ tx' \in {<<>>, Quit}]_serverVars

\* run() never waits for a client: it returns whatever request the client sends, or
\* none.  Requests are finite; a client that never stops sending is not covered.
RunReturns == []<>(spc = "done")
===============================================================================
