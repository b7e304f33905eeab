------------------------------ MODULE MCEndpoints -----------------------------
(* A small instance of Endpoints for TLC: the order of lines is the one the    *)
(* library writes; names and values are spelled with one letter each.          *)
EXTENDS Endpoints, MCWebSocket

Line(bytes) == bytes \o <<13, 10>>
Upgrade == <<85>>       \* "Upgrade: websocket"
Key == <<75>>           \* "Sec-WebSocket-Key: "
Origin == <<79>>        \* "Origin: ", which this client does not send
Nonce == <<49>>

\* Upgrade, Sec-WebSocket-Key, and the empty line.
TheRequest ==
  [bytes |-> Line(Upgrade) \o Line(Key \o Nonce) \o Line(<<>>),
   key |-> Nonce]
OneRequest == {TheRequest}

\* HTTP/1.1 101 ..., "Upgrade: websocket", "Sec-WebSocket-Accept: ", empty line.
Accept == <<65>>
Right == <<82>>
TheResponse ==
  Line(<<72>>) \o Line(<<85, 58, 32>>) \o Line(Accept \o <<58, 32>> \o Right) \o Line(<<>>)

Upgrades == {Upgrade}
Names == {Accept}
TwoBytes == {Payload(2)}
ClientFrames == {SentFrame(m) : m \in TwoBytes} \union {Goodbye}

\* The theorems about the two ends speak of these: a request that is text and names
\* its key, and an answer whose header is a status line of one byte and two fields.
TheFields == <<[name |-> Upgrade, spaces |-> 1, value |-> <<>>],
               [name |-> Accept, spaces |-> 1, value |-> Right]>>
ASSUME TheoremsApply ==
  /\ NamesKey(TheRequest) /\ \A p \in DOMAIN TheRequest.bytes : TheRequest.bytes[p] < Flag_Fin
  /\ TheFields \in Seq(Client!Field)
  /\ Client!HasFields(Answered, TheFields, <<3, 8, 14>>)
  /\ Client!ProvesByField(Answered, TheFields)
  /\ \A m \in TwoBytes : Len(m) <= 125
===============================================================================
