-------------------------- MODULE MCServerHandshake ---------------------------
(* Small instances of ServerHandshake for TLC: requests spelled with a letter  *)
(* for each line start that analyzeRequest tells apart.                        *)
EXTENDS ServerHandshake

CrLf == <<13, 10>>
UpgradeNew == <<85>>    \* "Upgrade: websocket"
UpgradeOld == <<117>>   \* "Upgrade: WebSocket"
Key == <<75>>           \* "Sec-WebSocket-Key: "
Origin == <<79>>        \* "Origin: "
Other == <<88>>

Upgrades == {UpgradeNew, UpgradeOld}
Here == <<104>>
There == <<116, 116>>
Nonce == <<49, 50, 51>>

RequestOf(lines, key) ==
  LET head == FlattenSeq([i \in DOMAIN lines |-> lines[i] \o CrLf]) \o CrLf
  IN [bytes |-> head, key |-> key]

SomeRequests ==
  {RequestOf(<<UpgradeNew, Key \o Nonce>>, Nonce),
   RequestOf(<<Key \o Nonce, UpgradeOld, Other>>, Nonce),
   RequestOf(<<Origin \o There, UpgradeNew, Key \o Nonce>>, Nonce),
   RequestOf(<<Origin \o Here, Key \o Nonce>>, Nonce),
   RequestOf(<<UpgradeNew, Key, Other>>, <<>>)}

\* The theorem about the key speaks of these.
ASSUME RequestsNameKeys == \A r \in SomeRequests : NamesKey(r)

Answer101 == <<72>>
===============================================================================
