---------------------------- MODULE ClientHandshake ----------------------------
(***************************************************************************)
(* clientHandshake (WebSocketClient.cpp): sends the upgrade request, reads *)
(* the server's response header one byte at a time while it arrives, and   *)
(* compares the key in it with the expected one.  It returns with the      *)
(* stream at the first frame, where a WebSocket takes over.                *)
(***************************************************************************)
EXTENDS Socket

CONSTANTS
  Request,         \* the bytes of the upgrade request
  Responses,       \* what the server may answer: records [bytes, head, proves]
  AcceptNames,     \* the names equalsIgnoreCase("sec-websocket-accept") accepts
  CalculatedKey    \* b64Result: what the key in the response has to be

VARIABLES
  hpc,             \* where clientHandshake is: see HandshakeControl
  state,           \* the parser's state
  headerName, headerValue, serverKey,
  result,          \* what clientHandshake returned, or "none"
  response,        \* history: the server's answer, or NoResponse
  taken            \* history: how many bytes of it were read

handshakeVars == <<hpc, state, headerName, headerValue, serverKey, result, response, taken>>
handshakeAllVars == <<socketVars, handshakeVars>>

HandshakeControl == {"start", "waiting", "reading", "done"}
ParserStates == {"status_line", "header_name", "header_sep", "header_value",
                 "end_of_header", "end_of_headers"}
Results == {"none", "Success_Ok", "Error_NotConnected", "Error_Disconnected",
            "Error_BadHandshake"}

LF == 10
CR == 13
Space == 32
Colon == 58

\* bytes: all the server writes with its answer.  head: how many of them are
\* the header, the empty line included; more than Len(bytes) if it is cut off.
\* proves: the header names the key the server had to find.
NoResponse == [bytes |-> <<>>, head |-> 0, proves |-> FALSE]

ASSUME ResponseAssumption ==
  \A r \in Responses : r.bytes \in Seq(Byte) /\ r.head \in Nat /\ r.proves \in BOOLEAN
\* The key is the base64 text of a digest, and so not empty.
ASSUME RequestAssumption ==
  /\ Request \in Seq(Byte) /\ AcceptNames \subseteq Seq(Byte)
  /\ CalculatedKey \in Seq(Byte) /\ CalculatedKey # <<>>

-------------------------------------------------------------------------------

Return(res) == hpc' = "done" /\ result' = res
parserUnchanged == UNCHANGED <<state, headerName, headerValue, serverKey>>

SendRequest ==
  /\ hpc = "start"
  /\ \/ Connected /\ Write(Request) /\ hpc' = "waiting" /\ UNCHANGED result
     \/ ~Connected /\ Return("Error_NotConnected") /\ UNCHANGED tx
  /\ parserUnchanged /\ UNCHANGED <<up, peer, wire, rx, response, taken>>

\* while (connected() && !available()): there is no limit to the wait.
WaitEnds ==
  /\ hpc = "waiting" /\ (~Connected \/ Available)
  /\ hpc' = "reading"
  /\ parserUnchanged /\ UNCHANGED <<socketVars, result, response, taken>>

LostUnseen == FALSE                    \* fault: waits for a lost connection too
Lost == ~Connected

\* int bite = socket_.read()
Bite == IF rx = <<>> THEN -1 ELSE Head(rx)

\* No byte yet, or none any more.
ReadNothing ==
  /\ hpc = "reading" /\ state # "end_of_headers" /\ Bite = -1
  /\ Lost /\ Return("Error_Disconnected")
  /\ parserUnchanged /\ UNCHANGED <<socketVars, response, taken>>

\* The bytes read() takes from what has arrived.
Take(n) ==
  /\ rx' = SubSeq(rx, n + 1, Len(rx)) /\ taken' = taken + n
  /\ UNCHANGED <<up, peer, wire, tx, hpc, result, response>>

ReadingBlind(s) == hpc = "reading" /\ up /\ state = s   \* fault: -1 is not looked for
Reading(s) == hpc = "reading" /\ up /\ Bite # -1 /\ state = s

StatusLine ==
  /\ Reading("status_line") /\ Take(1)
  /\ state' = IF Bite = LF THEN "header_name" ELSE state
  /\ headerName' = IF Bite = LF THEN <<>> ELSE headerName
  /\ UNCHANGED <<headerValue, serverKey>>

EndOfHeader ==
  /\ Reading("end_of_header") /\ Take(1)
  /\ state' = IF Bite # CR THEN "header_name" ELSE state
  /\ UNCHANGED <<headerName, headerValue, serverKey>>

RemainderTwice == IF Len(rx) > 2 THEN 2 ELSE Len(rx) - 1  \* fault: a byte too many
\* "Read the remainder of CRLF": one read() that takes a byte if one is there.
Remainder == IF Len(rx) > 1 THEN 1 ELSE 0

HeaderName ==
  /\ Reading("header_name") /\ UNCHANGED serverKey
  /\ \/ /\ Bite \in {CR, LF}
        /\ Take(1 + Remainder) /\ state' = "end_of_headers"
        /\ UNCHANGED <<headerName, headerValue>>
     \/ /\ Bite = Colon
        /\ Take(1) /\ state' = "header_sep" /\ headerValue' = <<>>
        /\ UNCHANGED headerName
     \/ /\ Bite \notin {CR, LF, Colon}
        /\ Take(1) /\ headerName' = Append(headerName, Bite)
        /\ UNCHANGED <<state, headerValue>>

AcceptedAlways(name) == TRUE           \* fault: any header's value is the key
IsAccept(name) == name \in AcceptNames

\* case header_value, which header_sep falls into.  No other header than the
\* one with the key has an effect.
ValueByte ==
  \/ /\ Bite = CR
     /\ state' = "end_of_header" /\ headerName' = <<>>
     /\ serverKey' = IF IsAccept(headerName) THEN headerValue ELSE serverKey
     /\ UNCHANGED headerValue
  \/ /\ Bite # CR
     /\ headerValue' = IF Bite = LF THEN headerValue ELSE Append(headerValue, Bite)
     /\ state' = "header_value" /\ UNCHANGED <<headerName, serverKey>>

\* fault: the space after the colon belongs to the value
HeaderSepKeepsSpace == Reading("header_sep") /\ Take(1) /\ ValueByte
HeaderSep ==
  /\ Reading("header_sep") /\ Take(1)
  /\ \/ Bite = Space /\ parserUnchanged
     \/ Bite # Space /\ ValueByte

HeaderValue == Reading("header_value") /\ Take(1) /\ ValueByte

CompareKeys ==
  /\ hpc = "reading" /\ state = "end_of_headers"
  /\ Return(IF serverKey = CalculatedKey THEN "Success_Ok" ELSE "Error_BadHandshake")
  /\ parserUnchanged /\ UNCHANGED <<socketVars, response, taken>>

HandshakeStep ==
  \/ SendRequest \/ WaitEnds \/ ReadNothing
  \/ StatusLine \/ EndOfHeader \/ HeaderName \/ HeaderSep \/ HeaderValue
  \/ CompareKeys

-------------------------------------------------------------------------------
(* The server and the network. *)

ServerAnswers(r) ==
  /\ tx # <<>> /\ response = NoResponse
  /\ PeerWrites(r.bytes)
  /\ response' = r
  /\ UNCHANGED <<hpc, state, headerName, headerValue, serverKey, result, taken>>

HandshakeBytesArrive ==
  /\ \E k \in 1..Len(wire) : Arrive(k)
  /\ UNCHANGED handshakeVars

ServerLeaves ==
  /\ PeerCloses \/ PeerVanishes
  /\ UNCHANGED handshakeVars

HandshakeInit ==
  /\ SocketInit
  /\ hpc = "start" /\ state = "status_line"
  /\ headerName = <<>> /\ headerValue = <<>> /\ serverKey = <<>>
  /\ result = "none" /\ response = NoResponse /\ taken = 0

HandshakeNext ==
  \/ HandshakeStep
  \/ HandshakeBytesArrive \/ ServerLeaves
  \/ \E r \in Responses : ServerAnswers(r)

HandshakeSpec == HandshakeInit /\ [][HandshakeNext]_handshakeAllVars

-------------------------------------------------------------------------------
(* What the header of an answer is: a status line, header fields and the empty *)
(* line, each ended by CR LF.  It says nothing of the bytes behind the header, *)
(* and holds as well for an answer that is cut off.                            *)

Field == [name : Seq(Byte \ {CR, LF, Colon}), spaces : Nat,
          value : {v \in Seq(Byte \ {CR, LF}) : v = <<>> \/ v[1] # Space}]

FieldLine(f) == f.name \o <<Colon>> \o [i \in 1..f.spaces |-> Space] \o f.value \o <<CR, LF>>

\* off[i]: how many bytes come before the line of field i, or the empty line.
HasFields(r, fields, off) ==
  /\ off[1] > 0 /\ r.head = off[Len(fields) + 1] + 2
  /\ \A i \in DOMAIN fields :
       /\ off[i + 1] = off[i] + Len(FieldLine(fields[i])) /\ off[i + 1] + 2 <= r.head
       /\ \A p \in DOMAIN r.bytes :
            p - off[i] \in DOMAIN FieldLine(fields[i])
              => r.bytes[p] = FieldLine(fields[i])[p - off[i]]
  /\ \A p \in DOMAIN r.bytes :
       /\ p < off[1] => r.bytes[p] # LF
       /\ p \in {off[1], r.head} => r.bytes[p] = LF
       /\ p = r.head - 1 => r.bytes[p] = CR

\* There is one field with the key at most, and proves says whether it is right.
ProvesByField(r, fields) ==
  LET accepts == {i \in DOMAIN fields : fields[i].name \in AcceptNames}
  IN /\ \A i, j \in accepts : i = j
     /\ r.proves <=> \E i \in accepts : fields[i].value = CalculatedKey

WellFormed(r) ==
  \E fields \in Seq(Field) : \E off \in [1..Len(fields) + 1 -> Nat] :
    HasFields(r, fields, off) /\ ProvesByField(r, fields)

-------------------------------------------------------------------------------
(* Properties. *)

HandshakeTypeOK ==
  /\ SocketTypeOK
  /\ hpc \in HandshakeControl /\ state \in ParserStates
  /\ headerName \in Seq(Byte) /\ headerValue \in Seq(Byte) /\ serverKey \in Seq(Byte)
  /\ result \in Results /\ response \in Responses \union {NoResponse} /\ taken \in Nat

\* The verdict is about the whole header, in whatever pieces it came: a server
\* that named the key is accepted and any other one refused.
VerdictIsRight ==
  result \in {"Success_Ok", "Error_BadHandshake"}
    => (result = "Success_Ok" <=> response.proves)

\* When a verdict is returned, the header was read up to the empty line's line
\* feed, which may be left; no byte of the frames behind it was taken.
HeaderRead ==
  result \in {"Success_Ok", "Error_BadHandshake"}
    => taken \in {response.head - 1, response.head}

\* The call returns once the server has sent a whole header or has gone away.
HandshakeReturns ==
  (response # NoResponse /\ response.head <= Len(response.bytes)) \/ peer # "open"
    ~> hpc = "done"
===============================================================================
