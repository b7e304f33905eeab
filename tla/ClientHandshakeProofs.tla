------------------------- MODULE ClientHandshakeProofs -------------------------
(***************************************************************************)
(* Theorems about clientHandshake, for every request, every set of answers *)
(* and every way in which their bytes arrive: the variables' ranges for    *)
(* all answers, the verdict and the place where it stops reading for the   *)
(* well-formed ones.  The invariant says which part of which header field  *)
(* the parser has read, and that the stream goes on from there.            *)
(***************************************************************************)
EXTENDS ClientHandshake, SocketProofs

-------------------------------------------------------------------------------
(* The invariant. *)

\* While clientHandshake runs, the stream goes on where it has read to.
StreamFollows ==
  hpc # "done" =>
    \A p \in 1..StreamLength :
      taken + p <= response.head => /\ taken + p <= Len(response.bytes)
                                    /\ StreamAt(p) = response.bytes[taken + p]

\* serverKey after the first k fields.
KeyOf(fields, k) ==
  /\ \A i \in 1..k : fields[i].name \in AcceptNames => serverKey = fields[i].value
  /\ (\A i \in 1..k : fields[i].name \notin AcceptNames) => serverKey = <<>>

\* The parser after j bytes of the line of field f.
InField(f, j) ==
  \/ /\ state = "header_name" /\ j \in 0..Len(f.name)
     /\ headerName = SubSeq(f.name, 1, j)
  \/ /\ state = "header_sep" /\ j - Len(f.name) - 1 \in 0..f.spaces
     /\ headerName = f.name /\ headerValue = <<>>
  \/ /\ state = "header_value" /\ headerName = f.name
     /\ Len(headerValue) <= Len(f.value) /\ j = Len(f.name) + 1 + f.spaces + Len(headerValue)
     /\ headerValue = SubSeq(f.value, 1, Len(headerValue))
  \/ /\ state = "end_of_header" /\ headerName = <<>>
     /\ j = Len(f.name) + f.spaces + Len(f.value) + 2

InLine(fields, off, i) ==
  /\ InField(fields[i], taken - off[i])
  /\ KeyOf(fields, IF state = "end_of_header" THEN i ELSE i - 1)

Parsed(fields, off) ==
  \/ state = "status_line" /\ taken < off[1] /\ KeyOf(fields, 0)
  \/ \E i \in 1..Len(fields) : InLine(fields, off, i)
  \/ /\ state = "header_name" /\ headerName = <<>> /\ taken = off[Len(fields) + 1]
     /\ KeyOf(fields, Len(fields))
  \/ /\ state = "end_of_headers" /\ taken \in {response.head - 1, response.head}
     /\ KeyOf(fields, Len(fields))

AnswerParsed ==
  \E fields \in Seq(Field) : \E off \in [1..Len(fields) + 1 -> Nat] :
    /\ HasFields(response, fields, off) /\ ProvesByField(response, fields)
    /\ Parsed(fields, off)

\* Before the server has answered there is nothing to read.
Unanswered ==
  /\ response = NoResponse /\ taken = 0 /\ StreamLength = 0
  /\ state = "status_line" /\ serverKey = <<>>

Verdict ==
  /\ result # "none" => hpc = "done"
  /\ result \in {"Success_Ok", "Error_BadHandshake"} =>
       state = "end_of_headers" /\ (result = "Success_Ok" <=> serverKey = CalculatedKey)

HandshakeInv ==
  HandshakeTypeOK /\ StreamFollows /\ (Unanswered \/ AnswerParsed) /\ Verdict

\* The answers for which the verdict and its place are claimed.
AllWellFormed == \A r \in Responses : WellFormed(r)
-------------------------------------------------------------------------------
(* The bytes of a header field's line. *)

LEMMA FieldParts ==
  ASSUME NEW f \in Field
  PROVE  /\ f.name \in Seq(Byte) /\ f.value \in Seq(Byte) /\ f.spaces \in Nat
         /\ Len(f.name) \in Nat /\ Len(f.value) \in Nat
         /\ \A j \in 1..Len(f.name) : f.name[j] \in Byte \ {CR, LF, Colon}
         /\ \A j \in 1..Len(f.value) : f.value[j] \in Byte \ {CR, LF}
         /\ 1 <= Len(f.value) => f.value[1] # Space
<1>1. f.name \in Seq(Byte \ {CR, LF, Colon}) /\ f.value \in Seq(Byte \ {CR, LF}) /\ f.spaces \in Nat
  BY DEF Field
<1>2. f.value = <<>> \/ f.value[1] # Space
  BY DEF Field
<1>3. f.name \in Seq(Byte) /\ \A j \in 1..Len(f.name) : f.name[j] \in Byte \ {CR, LF, Colon}
  BY <1>1
<1>4. f.value \in Seq(Byte) /\ \A j \in 1..Len(f.value) : f.value[j] \in Byte \ {CR, LF}
  BY <1>1
<1>5. f.value = <<>> => Len(f.value) = 0
  OBVIOUS
<1> QED BY <1>1, <1>2, <1>3, <1>4, <1>5

\* Where the parts of a line of n, s and v bytes of name, spaces and value are.
LEMMA LinePlaces ==
  ASSUME NEW n \in Nat, NEW s \in Nat, NEW v \in Nat
  PROVE  /\ \A j \in 1..n : j \in 1..n + 1 /\ j \in 1..n + 1 + s /\ j \in 1..n + 1 + s + v
         /\ n + 1 \in 1..n + 1 /\ n + 1 \in 1..n + 1 + s /\ n + 1 \in 1..n + 1 + s + v
         /\ \A j \in n + 2..n + 1 + s :
              j \in 1..n + 1 + s /\ j \in 1..n + 1 + s + v /\ j \in n + 1 + 1..n + 1 + s
         /\ \A j \in n + s + 2..n + s + v + 1 :
              /\ j \in 1..n + 1 + s + v /\ j \in n + 1 + s + 1..n + 1 + s + v
              /\ j - (n + 1 + s) = j - (n + s + 1)
         /\ n + 1 + s + v + 2 = n + s + v + 3 /\ n + 1 + s + v + 1 = n + s + v + 2
  OBVIOUS

\* u is s and t behind each other, of m and of k bytes.
IsJoined(u, s, t, m, k) ==
  /\ u \in Seq(Byte) /\ Len(u) = m + k
  /\ \A p \in 1..m : u[p] = s[p]
  /\ \A p \in m + 1..m + k : u[p] = t[p - m]

LEMMA JoinedAt ==
  ASSUME NEW s \in Seq(Byte), NEW t \in Seq(Byte), NEW m \in Nat, NEW k \in Nat,
         Len(s) = m, Len(t) = k
  PROVE  IsJoined(s \o t, s, t, m, k)
<1>1. s \o t \in Seq(Byte) /\ Len(s \o t) = m + k
  OBVIOUS
<1>2. \A p \in 1..m : (s \o t)[p] = s[p]
  OBVIOUS
<1>3. \A p \in m + 1..m + k : (s \o t)[p] = t[p - m]
  OBVIOUS
<1> QED BY <1>1, <1>2, <1>3 DEF IsJoined

\* The bytes of a line whose name, spaces and value are n, s and v bytes long.
LineIs(f, n, s, v) ==
  /\ FieldLine(f) \in Seq(Byte) /\ Len(FieldLine(f)) = n + s + v + 3
  /\ \A j \in 1..n : FieldLine(f)[j] = f.name[j]
  /\ FieldLine(f)[n + 1] = Colon
  /\ \A j \in n + 2..n + 1 + s : FieldLine(f)[j] = Space
  /\ \A j \in n + s + 2..n + s + v + 1 : FieldLine(f)[j] = f.value[j - (n + s + 1)]
  /\ FieldLine(f)[n + s + v + 2] = CR /\ FieldLine(f)[n + s + v + 3] = LF

LEMMA LineBytes ==
  ASSUME NEW f \in Field
  PROVE  LineIs(f, Len(f.name), f.spaces, Len(f.value))
<1> DEFINE n == Len(f.name)
           s == f.spaces
           v == Len(f.value)
<1>0. n \in Nat /\ s \in Nat /\ v \in Nat
  BY FieldParts
<1>1. f.name \in Seq(Byte) /\ f.value \in Seq(Byte) /\ Len(f.name) = n /\ Len(f.value) = v
  BY FieldParts
<1>a. FieldLine(f) = f.name \o <<Colon>> \o [i \in 1..s |-> Space] \o f.value \o <<CR, LF>>
  BY DEF FieldLine
<1> HIDE DEF n, s, v
<1> DEFINE gap == [i \in 1..s |-> Space]
           a == f.name \o <<Colon>>
           b == a \o gap
           c == b \o f.value
           d == c \o <<CR, LF>>
<1>2. /\ gap \in Seq(Byte) /\ Len(gap) = s /\ \A j \in 1..s : gap[j] = Space
      /\ <<Colon>> \in Seq(Byte) /\ Len(<<Colon>>) = 1 /\ <<Colon>>[1] = Colon
      /\ <<CR, LF>> \in Seq(Byte) /\ Len(<<CR, LF>>) = 2
      /\ <<CR, LF>>[1] = CR /\ <<CR, LF>>[2] = LF
  BY <1>0 DEF Byte, Space, Colon, CR, LF
<1>3. FieldLine(f) = d
  BY <1>a
<1> HIDE DEF gap, a, b, c, d
<1>4. IsJoined(a, f.name, <<Colon>>, n, 1)
  BY <1>0, <1>1, <1>2, JoinedAt DEF a
<1>5. IsJoined(b, a, gap, n + 1, s)
  <2>1. n + 1 \in Nat /\ a \in Seq(Byte) /\ Len(a) = n + 1
    BY <1>0, <1>4 DEF IsJoined
  <2> QED BY <1>0, <1>2, <2>1, JoinedAt DEF b
<1>6. IsJoined(c, b, f.value, n + 1 + s, v)
  <2>1. n + 1 + s \in Nat /\ b \in Seq(Byte) /\ Len(b) = n + 1 + s
    BY <1>0, <1>5 DEF IsJoined
  <2> QED BY <1>0, <1>1, <2>1, JoinedAt DEF c
<1>7. IsJoined(d, c, <<CR, LF>>, n + 1 + s + v, 2)
  <2>1. n + 1 + s + v \in Nat /\ c \in Seq(Byte) /\ Len(c) = n + 1 + s + v
    BY <1>0, <1>6 DEF IsJoined
  <2> QED BY <1>2, <2>1, JoinedAt DEF d
<1> USE DEF IsJoined
<1>8. \A j \in 1..n : d[j] = f.name[j]
  BY <1>4, <1>5, <1>6, <1>7, <1>0, LinePlaces
<1>9. d[n + 1] = Colon
  <2>1. a[n + 1] = Colon
    <3>1. n + 1 \in n + 1..n + 1 /\ (n + 1) - n = 1
      BY <1>0
    <3> QED BY <1>2, <1>4, <3>1
  <2> QED BY <1>5, <1>6, <1>7, <2>1, <1>0, LinePlaces
<1>10. \A j \in n + 2..n + 1 + s : d[j] = Space
  <2>1. \A j \in n + 1 + 1..n + 1 + s : j - (n + 1) \in 1..s
    BY <1>0
  <2> QED BY <1>2, <1>5, <1>6, <1>7, <2>1, <1>0, LinePlaces
<1>11. \A j \in n + s + 2..n + s + v + 1 : d[j] = f.value[j - (n + s + 1)]
  BY <1>6, <1>7, <1>0, LinePlaces
<1>12. d[n + s + v + 2] = CR /\ d[n + s + v + 3] = LF
  <2>1. /\ n + 1 + s + v + 1 \in n + 1 + s + v + 1..n + 1 + s + v + 2
        /\ n + 1 + s + v + 2 \in n + 1 + s + v + 1..n + 1 + s + v + 2
        /\ (n + 1 + s + v + 1) - (n + 1 + s + v) = 1 /\ (n + 1 + s + v + 2) - (n + 1 + s + v) = 2
    BY <1>0
  <2>2. d[n + 1 + s + v + 1] = CR /\ d[n + 1 + s + v + 2] = LF
    BY <1>2, <1>7, <2>1
  <2>3. n + 1 + s + v + 1 = n + s + v + 2 /\ n + 1 + s + v + 2 = n + s + v + 3
    BY <1>0
  <2> QED BY <2>2, <2>3
<1>13. n + 1 + s + v + 2 = n + s + v + 3
  BY <1>0
<1>14. LineIs(f, n, s, v)
  BY <1>3, <1>7, <1>8, <1>9, <1>10, <1>11, <1>12, <1>13 DEF LineIs
<1> QED BY <1>14 DEF n, s, v

\* A sequence read one element further.
LEMMA OneMoreByte ==
  ASSUME NEW s \in Seq(Byte), NEW j \in Nat, j < Len(s)
  PROVE  SubSeq(s, 1, j + 1) = Append(SubSeq(s, 1, j), s[j + 1])
  OBVIOUS

LEMMA WholeSequence ==
  ASSUME NEW s \in Seq(Byte)
  PROVE  SubSeq(s, 1, Len(s)) = s /\ SubSeq(s, 1, 0) = <<>>
  OBVIOUS

-------------------------------------------------------------------------------
(* Ranges. *)

LEMMA HandshakeInitType == HandshakeInit => HandshakeTypeOK
<1>1. <<>> \in Seq(Byte)
  OBVIOUS
<1> QED BY <1>1 DEF HandshakeInit, SocketInit, HandshakeTypeOK, SocketTypeOK, HandshakeControl,
                    ParserStates, Results

\* A byte that read() gives is the next one of the stream.
LEMMA BiteIsNext ==
  ASSUME SocketTypeOK, Bite # -1
  PROVE  /\ Bite \in Byte /\ Bite = StreamAt(1) /\ Len(rx) \in Nat /\ 1 <= Len(rx)
         /\ 1 \in 1..StreamLength
<1>1. rx \in Seq(Byte) /\ rx # <<>> /\ Bite = rx[1] /\ wire \in Seq(Byte)
  BY DEF Bite, SocketTypeOK
<1>2. Len(rx) \in Nat /\ Len(wire) \in Nat /\ 1 <= Len(rx)
  BY <1>1
<1>3. rx[1] \in Byte
  BY <1>1, <1>2
<1> QED BY <1>1, <1>2, <1>3 DEF StreamAt, StreamLength

\* What read() takes, it takes from the front of the stream.
LEMMA TakeType ==
  ASSUME HandshakeTypeOK, NEW n \in 0..Len(rx), Take(n)
  PROVE  /\ SocketTypeOK' /\ StreamCut(n) /\ StreamLength' = StreamLength - n
         /\ taken' = taken + n /\ taken' \in Nat /\ UNCHANGED <<hpc, result, response>>
<1>1. SocketTypeOK /\ taken \in Nat
  BY DEF HandshakeTypeOK
<1>2. rx' = SubSeq(rx, n + 1, Len(rx)) /\ UNCHANGED <<up, peer, wire, tx>>
  BY DEF Take
<1>3. rx' \in Seq(Byte) /\ StreamCut(n) /\ StreamLength' = StreamLength - n
  BY <1>1, <1>2, ReadCut
<1>4. SocketTypeOK'
  BY <1>1, <1>2, <1>3 DEF SocketTypeOK
<1>5. n \in Nat
  BY <1>1, StreamNat
<1> QED BY <1>1, <1>3, <1>4, <1>5 DEF Take

\* The bytes a parser's step takes: one, or the two of CR LF.
LEMMA TakenBytes ==
  ASSUME HandshakeTypeOK, Bite # -1
  PROVE  1 \in 0..Len(rx) /\ 1 + Remainder \in 0..Len(rx) /\ Remainder \in 0..1
<1>1. Len(rx) \in Nat /\ 1 <= Len(rx)
  BY BiteIsNext DEF HandshakeTypeOK
<1> QED BY <1>1 DEF Remainder

LEMMA ValueByteType ==
  ASSUME HandshakeTypeOK, Bite \in Byte, ValueByte
  PROVE  /\ state' \in ParserStates /\ headerName' \in Seq(Byte)
         /\ headerValue' \in Seq(Byte) /\ serverKey' \in Seq(Byte)
<1>1. headerName \in Seq(Byte) /\ headerValue \in Seq(Byte) /\ serverKey \in Seq(Byte)
  BY DEF HandshakeTypeOK
<1>2. Append(headerValue, Bite) \in Seq(Byte) /\ <<>> \in Seq(Byte)
  BY <1>1
<1> QED BY <1>1, <1>2 DEF ValueByte, ParserStates

\* One step of clientHandshake keeps the ranges.
LEMMA HandshakeStepType == HandshakeTypeOK /\ HandshakeStep => HandshakeTypeOK'
<1> SUFFICES ASSUME HandshakeTypeOK, HandshakeStep
             PROVE  HandshakeTypeOK'
  OBVIOUS
<1>1. CASE SendRequest
  <2>1. tx \in Seq(Byte) /\ tx \o Request \in Seq(Byte)
    BY RequestAssumption DEF HandshakeTypeOK, SocketTypeOK
  <2>2. SocketTypeOK'
    BY <1>1, <2>1 DEF SendRequest, Write, HandshakeTypeOK, SocketTypeOK
  <2> QED BY <1>1, <2>2 DEF SendRequest, Return, parserUnchanged, HandshakeTypeOK,
                            HandshakeControl, Results
<1>2. CASE WaitEnds \/ ReadNothing \/ CompareKeys
  <2>1. SocketTypeOK'
    BY <1>2 DEF WaitEnds, ReadNothing, CompareKeys, HandshakeTypeOK, SocketTypeOK, socketVars
  <2> QED BY <1>2, <2>1 DEF WaitEnds, ReadNothing, CompareKeys, Return, parserUnchanged,
                            HandshakeTypeOK, HandshakeControl, Results
<1>3. ASSUME NEW s, Reading(s), NEW n \in {1, 1 + Remainder}, Take(n),
             /\ state' \in ParserStates /\ headerName' \in Seq(Byte)
             /\ headerValue' \in Seq(Byte) /\ serverKey' \in Seq(Byte)
      PROVE  HandshakeTypeOK'
  <2>1. n \in 0..Len(rx)
    BY <1>3, TakenBytes DEF Reading
  <2>2. SocketTypeOK' /\ taken' \in Nat /\ UNCHANGED <<hpc, result, response>>
    BY <1>3, <2>1, TakeType
  <2> QED BY <1>3, <2>2 DEF HandshakeTypeOK
<1>4. ASSUME NEW s, Reading(s) PROVE Bite \in Byte
  BY <1>4, BiteIsNext DEF Reading, HandshakeTypeOK
<1>5. <<>> \in Seq(Byte)
  OBVIOUS
<1>6. CASE StatusLine
  BY <1>3, <1>5, <1>6 DEF StatusLine, HandshakeTypeOK, ParserStates
<1>7. CASE EndOfHeader
  BY <1>3, <1>7 DEF EndOfHeader, HandshakeTypeOK, ParserStates
<1>8. CASE HeaderName
  <2>1. Append(headerName, Bite) \in Seq(Byte)
    BY <1>4, <1>8 DEF HeaderName, HandshakeTypeOK
  <2> QED BY <1>3, <1>5, <1>8, <2>1 DEF HeaderName, HandshakeTypeOK, ParserStates
<1>9. CASE HeaderSep
  <2>1. CASE Bite = Space
    BY <1>3, <1>9, <2>1 DEF HeaderSep, parserUnchanged, HandshakeTypeOK
  <2>2. CASE Bite # Space
    BY <1>3, <1>4, <1>9, <2>2, ValueByteType DEF HeaderSep
  <2> QED BY <2>1, <2>2
<1>10. CASE HeaderValue
  BY <1>3, <1>4, <1>10, ValueByteType DEF HeaderValue
<1> QED BY <1>1, <1>2, <1>6, <1>7, <1>8, <1>9, <1>10 DEF HandshakeStep

\* And so do the server and the network.
LEMMA ServerStepsType ==
  /\ HandshakeTypeOK /\ (HandshakeBytesArrive \/ ServerLeaves) => HandshakeTypeOK'
  /\ \A r \in Responses : HandshakeTypeOK /\ ServerAnswers(r) => HandshakeTypeOK'
<1>1. ASSUME HandshakeTypeOK, HandshakeBytesArrive \/ ServerLeaves PROVE HandshakeTypeOK'
  <2>1. SocketTypeOK'
    BY <1>1, NetworkType DEF HandshakeBytesArrive, ServerLeaves, HandshakeTypeOK
  <2> QED BY <1>1, <2>1 DEF HandshakeBytesArrive, ServerLeaves, handshakeVars, HandshakeTypeOK
<1>2. ASSUME NEW r \in Responses, HandshakeTypeOK, ServerAnswers(r) PROVE HandshakeTypeOK'
  <2>1. SocketTypeOK'
    BY <1>2, WritesGrow, ResponseAssumption DEF ServerAnswers, HandshakeTypeOK
  <2> QED BY <1>2, <2>1 DEF ServerAnswers, HandshakeTypeOK
<1> QED BY <1>1, <1>2

\* Every variable keeps its range, whatever the server answers.
THEOREM HandshakeTyped == HandshakeSpec => []HandshakeTypeOK
<1>1. HandshakeTypeOK /\ [HandshakeNext]_handshakeAllVars => HandshakeTypeOK'
  <2>1. HandshakeTypeOK /\ UNCHANGED handshakeAllVars => HandshakeTypeOK'
    BY DEF handshakeAllVars, handshakeVars, socketVars, HandshakeTypeOK, SocketTypeOK
  <2> QED BY <2>1, HandshakeStepType, ServerStepsType DEF HandshakeNext
<1> QED BY <1>1, HandshakeInitType, PTL DEF HandshakeSpec

-------------------------------------------------------------------------------
(* What a byte is in a well-formed answer. *)

LEMMA ResponseType ==
  ASSUME HandshakeTypeOK
  PROVE  response.bytes \in Seq(Byte) /\ response.head \in Nat /\ taken \in Nat
<1>1. NoResponse.bytes \in Seq(Byte) /\ NoResponse.head \in Nat
  BY DEF NoResponse
<1> QED BY <1>1, ResponseAssumption DEF HandshakeTypeOK

\* The stream still goes on where clientHandshake has read to.
LEMMA StreamStillFollows ==
  ASSUME HandshakeTypeOK, HandshakeTypeOK', StreamFollows, hpc # "done",
         NEW d \in Nat, StreamCut(d), taken' = taken + d, response' = response
  PROVE  StreamFollows'
<1> SUFFICES ASSUME NEW p \in 1..StreamLength', taken' + p <= response.head
             PROVE  /\ taken' + p <= Len(response.bytes)
                    /\ StreamAt(p)' = response.bytes[taken' + p]
  BY DEF StreamFollows
<1>1. SocketTypeOK /\ SocketTypeOK' /\ taken \in Nat
  BY DEF HandshakeTypeOK
<1>2. StreamLength \in Nat /\ StreamLength' \in Nat
  <2>1. rx' \in Seq(Byte) /\ wire' \in Seq(Byte)
    BY <1>1 DEF SocketTypeOK
  <2>2. StreamLength' \in Nat
    BY <2>1 DEF StreamLength
  <2> QED BY <1>1, <2>2, StreamNat
<1>3. StreamLength' > 0 => StreamLength' <= StreamLength - d
  BY DEF StreamCut
<1> DEFINE m == StreamLength
           k == StreamLength'
<1>4. m \in Nat /\ k \in Nat /\ p \in 1..k /\ (k > 0 => k <= m - d)
  BY <1>2, <1>3
<1> HIDE DEF m, k
<1>5. p + d \in 1..m
  BY <1>4
<1>6. taken + (p + d) = taken' + p
  BY <1>1, <1>4
<1>7. p + d \in 1..StreamLength
  BY <1>5 DEF m
<1>8. taken + (p + d) <= Len(response.bytes) /\ StreamAt(p + d) = response.bytes[taken + (p + d)]
  BY <1>6, <1>7 DEF StreamFollows
<1>9. StreamAt(p)' = StreamAt(p + d)
  BY DEF StreamCut
<1> QED BY <1>6, <1>8, <1>9

\* Up to the header's end the byte that read() gives is the answer's next one.
LEMMA BiteOfAnswer ==
  ASSUME HandshakeTypeOK, StreamFollows, hpc # "done", Bite # -1, taken + 1 <= response.head
  PROVE  taken + 1 \in DOMAIN response.bytes /\ Bite = response.bytes[taken + 1]
<1>1. Bite = StreamAt(1) /\ 1 \in 1..StreamLength
  BY BiteIsNext DEF HandshakeTypeOK
<1>2. taken + 1 <= Len(response.bytes) /\ StreamAt(1) = response.bytes[taken + 1]
  BY <1>1 DEF StreamFollows
<1>3. response.bytes \in Seq(Byte) /\ taken \in Nat
  BY ResponseType
<1>4. taken + 1 \in 1..Len(response.bytes)
  BY <1>2, <1>3
<1> QED BY <1>1, <1>2, <1>3, <1>4

\* Where the lines of a well-formed answer begin and end.
LEMMA Places ==
  ASSUME NEW r, r.head \in Nat, NEW fields \in Seq(Field),
         NEW off \in [1..Len(fields) + 1 -> Nat], HasFields(r, fields, off)
  PROVE  /\ Len(fields) \in Nat /\ off[1] \in Nat /\ off[1] > 0 /\ off[1] + 2 <= r.head
         /\ off[Len(fields) + 1] \in Nat /\ r.head = off[Len(fields) + 1] + 2
         /\ \A i \in 1..Len(fields) :
              /\ fields[i] \in Field /\ off[i] \in Nat /\ off[i + 1] \in Nat
              /\ off[i + 1] = off[i] + Len(FieldLine(fields[i])) /\ off[i + 1] + 2 <= r.head
<1>1. Len(fields) \in Nat /\ DOMAIN fields = 1..Len(fields)
  OBVIOUS
<1>2. \A i \in 1..Len(fields) + 1 : off[i] \in Nat
  BY <1>1
<1>3. 1 \in 1..Len(fields) + 1 /\ Len(fields) + 1 \in 1..Len(fields) + 1
  BY <1>1
<1>4. ASSUME NEW i \in 1..Len(fields)
      PROVE  /\ fields[i] \in Field /\ off[i] \in Nat /\ off[i + 1] \in Nat
             /\ off[i + 1] = off[i] + Len(FieldLine(fields[i])) /\ off[i + 1] + 2 <= r.head
  <2>1. i \in 1..Len(fields) + 1 /\ i + 1 \in 1..Len(fields) + 1 /\ fields[i] \in Field
    BY <1>1
  <2> QED BY <1>1, <1>2, <2>1 DEF HasFields
<1>5. off[1] + 2 <= r.head
  <2>1. CASE Len(fields) = 0
    BY <1>2, <1>3, <2>1 DEF HasFields
  <2>2. CASE Len(fields) # 0
    <3>1. 1 \in 1..Len(fields)
      BY <1>1, <2>2
    <3>2. off[1 + 1] = off[1] + Len(FieldLine(fields[1])) /\ off[1 + 1] + 2 <= r.head
          /\ fields[1] \in Field /\ off[1] \in Nat /\ off[1 + 1] \in Nat
      BY <1>4, <3>1
    <3>3. Len(FieldLine(fields[1])) \in Nat
      BY <3>2, LineBytes DEF LineIs
    <3> DEFINE l == Len(FieldLine(fields[1]))
               a == off[1]
               b == off[1 + 1]
    <3>4. b = a + l /\ b + 2 <= r.head /\ a \in Nat /\ b \in Nat /\ l \in Nat
      BY <3>2, <3>3
    <3> HIDE DEF l, a, b
    <3>5. a + 2 <= r.head
      BY <3>4
    <3> QED BY <3>5 DEF a
  <2> QED BY <2>1, <2>2
<1> QED BY <1>1, <1>2, <1>3, <1>4, <1>5 DEF HasFields

\* clientHandshake reads an answer with these header fields.
ReadsAnswer(fields, off) ==
  /\ HandshakeTypeOK /\ StreamFollows
  /\ fields \in Seq(Field) /\ off \in [1..Len(fields) + 1 -> Nat]
  /\ HasFields(response, fields, off)

\* The next byte after j bytes of a field's line.
LEMMA FieldByte ==
  ASSUME NEW fields, NEW off, ReadsAnswer(fields, off), hpc # "done", Bite # -1,
         NEW i \in 1..Len(fields), NEW j \in Nat, taken = off[i] + j, j < Len(FieldLine(fields[i]))
  PROVE  Bite = FieldLine(fields[i])[j + 1]
<1> DEFINE l == Len(FieldLine(fields[i]))
           a == off[i]
           b == off[i + 1]
           h == response.head
<1>1. /\ HandshakeTypeOK /\ StreamFollows /\ response.head \in Nat
      /\ fields \in Seq(Field) /\ off \in [1..Len(fields) + 1 -> Nat]
      /\ HasFields(response, fields, off)
  BY ResponseType DEF ReadsAnswer
<1>2. a \in Nat /\ b \in Nat /\ h \in Nat /\ b = a + l /\ b + 2 <= h /\ fields[i] \in Field
  BY <1>1, Places
<1>3. FieldLine(fields[i]) \in Seq(Byte)
  BY <1>2, LineBytes DEF LineIs
<1>4. DOMAIN FieldLine(fields[i]) = 1..l /\ l \in Nat /\ DOMAIN fields = 1..Len(fields)
  BY <1>1, <1>3
<1>5. taken = a + j /\ j < l
  OBVIOUS
<1> HIDE DEF l, a, b, h
<1>6. taken + 1 <= h /\ (taken + 1) - a = j + 1 /\ j + 1 \in 1..l
  BY <1>2, <1>4, <1>5
<1>7. taken + 1 \in DOMAIN response.bytes /\ Bite = response.bytes[taken + 1]
  BY <1>1, <1>6, BiteOfAnswer DEF h
<1>8. (taken + 1) - off[i] = j + 1
  BY <1>6 DEF a
<1>9. \A p \in DOMAIN response.bytes :
        p - off[i] \in DOMAIN FieldLine(fields[i])
          => response.bytes[p] = FieldLine(fields[i])[p - off[i]]
  BY <1>1, <1>4 DEF HasFields
<1> QED BY <1>4, <1>6, <1>7, <1>8, <1>9

\* serverKey when a field's value is complete.
LEMMA KeyTaken ==
  ASSUME NEW fields \in Seq(Field), NEW i \in 1..Len(fields), KeyOf(fields, i - 1),
         serverKey' = IF IsAccept(fields[i].name) THEN fields[i].value ELSE serverKey,
         NEW r, ProvesByField(r, fields)
  PROVE  KeyOf(fields, i)'
<1>1. ASSUME NEW k \in 1..i, fields[k].name \in AcceptNames
      PROVE  serverKey' = fields[k].value
  <2>1. CASE k = i
    BY <1>1, <2>1 DEF IsAccept
  <2>2. CASE k \in 1..i - 1
    <3>1. fields[i].name \notin AcceptNames
      BY <1>1, <2>2 DEF ProvesByField
    <3> QED BY <1>1, <2>2, <3>1 DEF KeyOf, IsAccept
  <2> QED BY <2>1, <2>2
<1>2. ASSUME \A k \in 1..i : fields[k].name \notin AcceptNames
      PROVE  serverKey' = <<>>
  <2>1. i \in 1..i /\ \A k \in 1..i - 1 : k \in 1..i
    OBVIOUS
  <2> QED BY <1>2, <2>1 DEF KeyOf, IsAccept
<1> QED BY <1>1, <1>2 DEF KeyOf

\* The parser stands before the next line, a field's or the empty one.
LEMMA LineBegins ==
  ASSUME NEW fields \in Seq(Field), NEW off, NEW i \in 1..Len(fields) + 1, off[i] \in Nat,
         state' = "header_name", headerName' = <<>>, taken' = off[i], KeyOf(fields, i - 1)'
  PROVE  Parsed(fields, off)'
<1>1. CASE i = Len(fields) + 1
  <2>1. i - 1 = Len(fields)
    BY <1>1
  <2> QED BY <1>1, <2>1 DEF Parsed
<1>2. CASE i \in 1..Len(fields)
  <2>1. fields[i] \in Field
    BY <1>2
  <2>2. fields[i].name \in Seq(Byte) /\ 0 \in 0..Len(fields[i].name)
    BY <2>1, FieldParts
  <2>3. SubSeq(fields[i].name, 1, 0) = <<>> /\ taken' - off[i] = 0
    BY <2>2, WholeSequence
  <2>4. InField(fields[i], taken - off[i])'
    BY <2>2, <2>3 DEF InField
  <2>5. InLine(fields, off, i)'
    BY <2>4 DEF InLine
  <2> QED BY <1>2, <2>5 DEF Parsed
<1> QED BY <1>1, <1>2

-------------------------------------------------------------------------------
(* The parser's steps. *)

\* The byte that a step takes, and one more if it takes two.
LEMMA ByteTaken ==
  ASSUME HandshakeTypeOK, NEW s, Reading(s), Take(1)
  PROVE  /\ hpc # "done" /\ Bite # -1 /\ state = s /\ taken' = taken + 1 /\ response' = response
         /\ taken \in Nat
  BY DEF Reading, Take, HandshakeTypeOK

LEMMA StatusLineParsed ==
  ASSUME NEW fields, NEW off, ReadsAnswer(fields, off), Parsed(fields, off), StatusLine
  PROVE  Parsed(fields, off)'
<1>1. /\ HandshakeTypeOK /\ StreamFollows /\ response.head \in Nat
      /\ fields \in Seq(Field) /\ off \in [1..Len(fields) + 1 -> Nat]
      /\ HasFields(response, fields, off)
  BY ResponseType DEF ReadsAnswer
<1>2. /\ hpc # "done" /\ Bite # -1 /\ state = "status_line" /\ taken' = taken + 1 /\ taken \in Nat
      /\ serverKey' = serverKey
  BY <1>1, ByteTaken DEF StatusLine
<1>3. off[1] \in Nat /\ off[1] + 2 <= response.head /\ Len(fields) \in Nat
  BY <1>1, Places
<1>4. taken < off[1] /\ KeyOf(fields, 0)
  BY <1>2 DEF Parsed, InLine, InField
<1>5. taken + 1 <= response.head
  BY <1>1, <1>2, <1>3, <1>4
<1>6. taken + 1 \in DOMAIN response.bytes /\ Bite = response.bytes[taken + 1]
  BY <1>1, <1>2, <1>5, BiteOfAnswer
<1>7. /\ taken + 1 < off[1] => Bite # LF
      /\ taken + 1 = off[1] => Bite = LF
  BY <1>6, <1>1 DEF HasFields
<1>8. KeyOf(fields, 0)'
  BY <1>2, <1>4 DEF KeyOf
<1>9. CASE taken + 1 = off[1]
  <2>1. state' = "header_name" /\ headerName' = <<>> /\ taken' = off[1]
    BY <1>2, <1>7, <1>9 DEF StatusLine
  <2>2. 1 \in 1..Len(fields) + 1 /\ 1 - 1 = 0
    BY <1>3
  <2> QED BY <1>1, <1>3, <1>8, <2>1, <2>2, LineBegins
<1>10. CASE taken + 1 < off[1]
  BY <1>2, <1>7, <1>8, <1>10 DEF StatusLine, Parsed
<1> QED BY <1>2, <1>3, <1>4, <1>9, <1>10

\* The line of the field that is being read, in numbers.
LEMMA CurrentField ==
  ASSUME NEW fields, NEW off, ReadsAnswer(fields, off), Parsed(fields, off),
         state \in {"header_sep", "header_value", "end_of_header"}
  PROVE  \E i \in 1..Len(fields) : InLine(fields, off, i)
  BY DEF Parsed

\* n, g and v bytes of name, spaces and value; j bytes of line i have been read.
Parts(f, n, g, v) ==
  /\ f \in Field /\ n \in Nat /\ g \in Nat /\ v \in Nat
  /\ n = Len(f.name) /\ g = f.spaces /\ v = Len(f.value)
Within(off, i, j) == taken = off[i] + j

\* A byte of field i, when j bytes of its line have been read.
LEMMA FieldByteTaken ==
  ASSUME NEW fields, NEW off, ReadsAnswer(fields, off), NEW i \in 1..Len(fields), NEW s, Reading(s),
         Take(1), NEW n, NEW g, NEW v, Parts(fields[i], n, g, v),
         NEW j \in Nat, Within(off, i, j), j < n + g + v + 3
  PROVE  /\ Bite = FieldLine(fields[i])[j + 1] /\ LineIs(fields[i], n, g, v)
         /\ taken' = off[i] + (j + 1) /\ taken' - off[i] = j + 1
         /\ off[i] \in Nat /\ off[i + 1] = off[i] + (n + g + v + 3) /\ off[i + 1] \in Nat
<1>1. /\ HandshakeTypeOK /\ StreamFollows /\ response.head \in Nat
      /\ fields \in Seq(Field) /\ off \in [1..Len(fields) + 1 -> Nat]
      /\ HasFields(response, fields, off)
  BY ResponseType DEF ReadsAnswer
<1>2. hpc # "done" /\ Bite # -1 /\ taken' = taken + 1 /\ taken \in Nat
  BY <1>1, ByteTaken
<1>3. /\ fields[i] \in Field /\ off[i] \in Nat /\ off[i + 1] \in Nat
      /\ off[i + 1] = off[i] + Len(FieldLine(fields[i]))
  BY <1>1, Places
<1>4. LineIs(fields[i], n, g, v)
  BY <1>3, LineBytes DEF Parts
<1>5. Len(FieldLine(fields[i])) = n + g + v + 3
  BY <1>4 DEF LineIs
<1> DEFINE a == off[i]
<1>6. a \in Nat /\ taken = a + j
  BY <1>3 DEF Within
<1> HIDE DEF a
<1>7. taken' - a = j + 1 /\ taken' = a + (j + 1)
  BY <1>2, <1>6
<1>8. Bite = FieldLine(fields[i])[j + 1]
  <2>1. taken = off[i] + j /\ j < Len(FieldLine(fields[i]))
    BY <1>5 DEF Within
  <2> QED BY <1>2, <2>1, FieldByte
<1> QED BY <1>3, <1>4, <1>5, <1>7, <1>8 DEF a

LEMMA ValuePlace ==
  ASSUME NEW n \in Nat, NEW g \in Nat, NEW v \in Nat, NEW m \in Nat, m < v
  PROVE  /\ (n + 1 + g + m) + 1 \in n + g + 2..n + g + v + 1
         /\ ((n + 1 + g + m) + 1) - (n + g + 1) = m + 1
  OBVIOUS

\* A byte of a field's value, or its end, when m bytes of the value are there.
LEMMA ValueByteParsed ==
  ASSUME NEW fields, NEW off, ReadsAnswer(fields, off), NEW i \in 1..Len(fields), NEW s, Reading(s),
         Take(1), ValueByte, KeyOf(fields, i - 1), ProvesByField(response, fields),
         NEW n, NEW g, NEW v, Parts(fields[i], n, g, v),
         NEW m \in Nat, m <= v, Within(off, i, n + 1 + g + m),
         headerName = fields[i].name, headerValue = SubSeq(fields[i].value, 1, m)
  PROVE  InLine(fields, off, i)'
<1> DEFINE f == fields[i]
           j == n + 1 + g + m
<1>1. fields \in Seq(Field) /\ f \in Field
  BY DEF ReadsAnswer
<1>2. /\ n \in Nat /\ g \in Nat /\ v \in Nat /\ m \in Nat /\ m <= v
      /\ f.value \in Seq(Byte) /\ f.name \in Seq(Byte)
      /\ \A k \in 1..v : f.value[k] \in Byte \ {CR, LF}
  BY <1>1, FieldParts DEF Parts
<1>3. /\ Parts(f, n, g, v) /\ Within(off, i, j) /\ f = fields[i]
      /\ headerValue = SubSeq(f.value, 1, m) /\ headerName = f.name
  OBVIOUS
<1>4. j = n + 1 + g + m
  OBVIOUS
<1> HIDE DEF f, j
<1>5. j \in Nat /\ j < n + g + v + 3
  BY <1>2, <1>4
<1>6. /\ taken' - off[i] = j + 1 /\ Bite = FieldLine(fields[i])[j + 1]
      /\ LineIs(fields[i], n, g, v)
  <2>1. Parts(fields[i], n, g, v) /\ Within(off, i, j)
    BY <1>3
  <2>2. ReadsAnswer(fields, off) /\ Reading(s) /\ Take(1)
    OBVIOUS
  <2> QED BY <1>5, <2>1, <2>2, FieldByteTaken, SMTT(30)
<1>7. CASE m = v
  <2>1. j + 1 = n + g + v + 2
    BY <1>2, <1>4, <1>7
  <2>2. Bite = CR
    BY <1>6, <2>1 DEF LineIs
  <2>3. headerValue = f.value
    BY <1>2, <1>3, <1>7, WholeSequence DEF Parts
  <2>4. /\ state' = "end_of_header" /\ headerName' = <<>>
        /\ serverKey' = IF IsAccept(f.name) THEN f.value ELSE serverKey
    BY <1>3, <2>2, <2>3 DEF ValueByte
  <2>5. KeyOf(fields, i)'
    BY <1>1, <1>3, <2>4, KeyTaken
  <2>6. InField(f, taken - off[i])'
    BY <1>3, <1>6, <2>1, <2>4 DEF InField, Parts
  <2> QED BY <1>3, <2>4, <2>5, <2>6 DEF InLine
<1>8. CASE m < v
  <2>1. j + 1 \in n + g + 2..n + g + v + 1 /\ (j + 1) - (n + g + 1) = m + 1
    <3>1. n \in Nat /\ g \in Nat /\ v \in Nat /\ m \in Nat
      BY <1>2
    <3> QED BY <1>4, <1>8, <3>1, ValuePlace
  <2>2. Bite = f.value[m + 1]
    BY <1>3, <1>6, <2>1 DEF LineIs
  <2>3. m + 1 \in 1..v
    BY <1>2, <1>8
  <2>4. Bite \notin {CR, LF}
    BY <1>2, <2>2, <2>3
  <2>5. Append(headerValue, Bite) = SubSeq(f.value, 1, m + 1)
    BY <1>2, <1>3, <1>8, <2>2, OneMoreByte DEF Parts
  <2>6. /\ state' = "header_value" /\ headerName' = f.name /\ serverKey' = serverKey
        /\ headerValue' = SubSeq(f.value, 1, m + 1)
    BY <1>3, <2>4, <2>5 DEF ValueByte
  <2>7. Len(headerValue') = m + 1
    <3>1. m + 1 \in 0..Len(f.value)
      BY <1>2, <1>3, <2>3 DEF Parts
    <3> QED BY <1>2, <2>6, <3>1, SequenceParts
  <2>8. m + 1 <= v /\ taken' - off[i] = n + 1 + g + (m + 1)
    <3>1. m + 1 <= v /\ j + 1 = n + 1 + g + (m + 1)
      BY <1>2, <1>4, <1>8
    <3> QED BY <1>6, <3>1
  <2>9. InField(f, taken - off[i])'
    BY <1>3, <2>6, <2>7, <2>8 DEF InField, Parts
  <2>10. KeyOf(fields, i - 1)'
    BY <2>6 DEF KeyOf
  <2> QED BY <1>3, <2>6, <2>9, <2>10 DEF InLine
<1> QED BY <1>2, <1>7, <1>8

LEMMA PartsOfField ==
  ASSUME NEW f \in Field
  PROVE  Parts(f, Len(f.name), f.spaces, Len(f.value))
  BY FieldParts DEF Parts

LEMMA HeaderValueParsed ==
  ASSUME NEW fields, NEW off, ReadsAnswer(fields, off), Parsed(fields, off),
         ProvesByField(response, fields), HeaderValue
  PROVE  Parsed(fields, off)'
<1>1. state = "header_value"
  BY DEF HeaderValue, Reading
<1>2. PICK i \in 1..Len(fields) : InLine(fields, off, i)
  BY <1>1, CurrentField
<1>3. fields[i] \in Field
  BY DEF ReadsAnswer
<1> DEFINE n == Len(fields[i].name)
           g == fields[i].spaces
           v == Len(fields[i].value)
           m == Len(headerValue)
<1>4. Parts(fields[i], n, g, v)
  BY <1>3, PartsOfField
<1>5. m \in Nat /\ off[i] \in Nat /\ taken \in Nat
  <2>1. HandshakeTypeOK /\ response.head \in Nat /\ taken \in Nat
    BY ResponseType DEF ReadsAnswer
  <2>2. m \in Nat
    BY <2>1 DEF HandshakeTypeOK
  <2> QED BY <2>1, <2>2, Places DEF ReadsAnswer
<1>6. /\ m <= v /\ taken - off[i] = n + 1 + g + m /\ KeyOf(fields, i - 1)
      /\ headerName = fields[i].name /\ headerValue = SubSeq(fields[i].value, 1, m)
  BY <1>1, <1>2 DEF InLine, InField
<1> HIDE DEF n, g, v, m
<1>7. n \in Nat /\ g \in Nat /\ v \in Nat
  BY <1>4 DEF Parts
<1>8. Within(off, i, n + 1 + g + m)
  BY <1>5, <1>6, <1>7 DEF Within
<1>9. InLine(fields, off, i)'
  BY <1>4, <1>5, <1>6, <1>8, ValueByteParsed DEF HeaderValue
<1> QED BY <1>9 DEF Parsed

\* Where a line is read to when k of its g spaces are behind, a bytes before it.
SpaceAt(n, g, v, a, k) ==
  /\ k \in Nat /\ k <= g /\ n + 1 + k \in Nat /\ n + 1 + k < n + g + v + 3
  /\ \A t \in Nat : t - a - n - 1 = k => t = a + (n + 1 + k)
  /\ (a + ((n + 1 + k) + 1)) - a - n - 1 = k + 1
  /\ k < g => (n + 1 + k) + 1 \in n + 2..n + 1 + g /\ k + 1 \in 0..g

LEMMA SpacePlace ==
  ASSUME NEW n \in Nat, NEW g \in Nat, NEW v \in Nat, NEW a \in Nat, NEW k \in 0..g
  PROVE  SpaceAt(n, g, v, a, k)
  BY DEF SpaceAt

LEMMA HeaderSepParsed ==
  ASSUME NEW fields, NEW off, ReadsAnswer(fields, off), Parsed(fields, off),
         ProvesByField(response, fields), HeaderSep
  PROVE  Parsed(fields, off)'
<1>1. state = "header_sep" /\ Reading("header_sep") /\ Take(1)
  BY DEF HeaderSep, Reading
<1>2. PICK i \in 1..Len(fields) : InLine(fields, off, i)
  BY <1>1, CurrentField
<1>3. fields[i] \in Field
  BY DEF ReadsAnswer
<1> DEFINE n == Len(fields[i].name)
           g == fields[i].spaces
           v == Len(fields[i].value)
           k == taken - off[i] - n - 1
<1>4. Parts(fields[i], n, g, v)
  BY <1>3, PartsOfField
<1>5. off[i] \in Nat /\ taken \in Nat
  BY ResponseType, Places DEF ReadsAnswer
<1>6. /\ k \in 0..g /\ KeyOf(fields, i - 1) /\ headerName = fields[i].name /\ headerValue = <<>>
  BY <1>1, <1>2 DEF InLine, InField
<1>7. n \in Nat /\ g \in Nat /\ v \in Nat /\ k = taken - off[i] - n - 1
  BY <1>4 DEF Parts
<1>8. (v > 0 => fields[i].value[1] # Space) /\ fields[i].value \in Seq(Byte)
  <2>1. 1 <= v => fields[i].value[1] # Space
    BY <1>3, FieldParts
  <2> QED BY <1>3, <1>7, <2>1, FieldParts
<1> HIDE DEF n, g, v, k
<1>0. SpaceAt(n, g, v, off[i], k)
  BY <1>5, <1>6, <1>7, SpacePlace
<1>9. k \in Nat /\ k <= g /\ Within(off, i, n + 1 + k) /\ n + 1 + k \in Nat
      /\ n + 1 + k < n + g + v + 3
  <2>1. taken - off[i] - n - 1 = k
    BY <1>7
  <2>2. taken = off[i] + (n + 1 + k)
    BY <1>0, <1>5, <2>1 DEF SpaceAt
  <2>3. k \in Nat /\ k <= g /\ n + 1 + k \in Nat /\ n + 1 + k < n + g + v + 3
    BY <1>0 DEF SpaceAt
  <2> QED BY <2>2, <2>3 DEF Within
<1>10. /\ taken' - off[i] = (n + 1 + k) + 1 /\ Bite = FieldLine(fields[i])[(n + 1 + k) + 1]
       /\ LineIs(fields[i], n, g, v) /\ taken' = off[i] + ((n + 1 + k) + 1)
  BY <1>1, <1>4, <1>9, FieldByteTaken
<1>11. CASE k < g
  <2>1. (n + 1 + k) + 1 \in n + 2..n + 1 + g
    BY <1>0, <1>11 DEF SpaceAt
  <2>2. Bite = Space
    BY <1>10, <2>1 DEF LineIs
  <2>3. UNCHANGED <<state, headerName, headerValue, serverKey>>
    BY <2>2 DEF HeaderSep, parserUnchanged, ValueByte, Space, CR
  <2>4. taken' - off[i] - n - 1 \in 0..g
    <3>1. (off[i] + ((n + 1 + k) + 1)) - off[i] - n - 1 = k + 1 /\ k + 1 \in 0..g
      BY <1>0, <1>11 DEF SpaceAt
    <3> QED BY <1>10, <3>1
  <2>5. InField(fields[i], taken - off[i])'
    BY <1>1, <1>4, <1>6, <2>3, <2>4 DEF InField, Parts
  <2>6. KeyOf(fields, i - 1)'
    BY <1>6, <2>3 DEF KeyOf
  <2>7. InLine(fields, off, i)'
    BY <1>1, <2>3, <2>5, <2>6 DEF InLine
  <2> QED BY <2>7 DEF Parsed
<1>12. CASE k = g
  <2>1. Bite # Space
    <3>1. CASE v = 0
      <4>1. (n + 1 + k) + 1 = n + g + v + 2
        BY <1>7, <1>12, <3>1
      <4>2. Bite = CR
        BY <1>10, <4>1 DEF LineIs
      <4> QED BY <4>2 DEF CR, Space
    <3>2. CASE v > 0
      <4>1. (n + 1 + k) + 1 \in n + g + 2..n + g + v + 1 /\ ((n + 1 + k) + 1) - (n + g + 1) = 1
        BY <1>7, <1>12, <3>2
      <4>2. Bite = fields[i].value[1]
        BY <1>10, <4>1 DEF LineIs
      <4> QED BY <1>8, <3>2, <4>2
    <3> QED BY <1>7, <3>1, <3>2
  <2>2. ValueByte
    BY <2>1 DEF HeaderSep
  <2>3. 0 \in Nat /\ 0 <= v /\ headerValue = SubSeq(fields[i].value, 1, 0)
    BY <1>6, <1>7, <1>8, WholeSequence
  <2>4. Within(off, i, n + 1 + g + 0)
    <3>1. n + 1 + k = n + 1 + g + 0
      BY <1>7, <1>12
    <3> QED BY <1>9, <3>1
  <2>5. InLine(fields, off, i)'
    BY <1>1, <1>4, <1>6, <2>2, <2>3, <2>4, ValueByteParsed
  <2> QED BY <2>5 DEF Parsed
<1> QED BY <1>7, <1>9, <1>11, <1>12

LEMMA EndOfHeaderParsed ==
  ASSUME NEW fields, NEW off, ReadsAnswer(fields, off), Parsed(fields, off), EndOfHeader
  PROVE  Parsed(fields, off)'
<1>1. state = "end_of_header" /\ Reading("end_of_header") /\ Take(1)
  BY DEF EndOfHeader, Reading
<1>2. PICK i \in 1..Len(fields) : InLine(fields, off, i)
  BY <1>1, CurrentField
<1>3. fields[i] \in Field /\ fields \in Seq(Field) /\ Len(fields) \in Nat
  BY DEF ReadsAnswer
<1> DEFINE n == Len(fields[i].name)
           g == fields[i].spaces
           v == Len(fields[i].value)
<1>4. Parts(fields[i], n, g, v)
  BY <1>3, PartsOfField
<1>5. off[i] \in Nat /\ taken \in Nat
  BY ResponseType, Places DEF ReadsAnswer
<1>6. taken - off[i] = n + g + v + 2 /\ KeyOf(fields, i) /\ headerName = <<>>
  BY <1>1, <1>2 DEF InLine, InField
<1> HIDE DEF n, g, v
<1>7. n \in Nat /\ g \in Nat /\ v \in Nat
  BY <1>4 DEF Parts
<1>8. n + g + v + 2 \in Nat /\ n + g + v + 2 < n + g + v + 3 /\ Within(off, i, n + g + v + 2)
  BY <1>5, <1>6, <1>7 DEF Within
<1>9. /\ Bite = FieldLine(fields[i])[(n + g + v + 2) + 1] /\ LineIs(fields[i], n, g, v)
      /\ taken' = off[i] + ((n + g + v + 2) + 1)
      /\ off[i + 1] = off[i] + (n + g + v + 3) /\ off[i + 1] \in Nat
  BY <1>1, <1>4, <1>8, FieldByteTaken
<1>10. (n + g + v + 2) + 1 = n + g + v + 3
  BY <1>7
<1>11. Bite = LF /\ taken' = off[i + 1]
  BY <1>9, <1>10 DEF LineIs
<1>12. state' = "header_name" /\ headerName' = <<>> /\ serverKey' = serverKey
  BY <1>6, <1>11 DEF EndOfHeader, LF, CR
<1>13. i + 1 \in 1..Len(fields) + 1 /\ (i + 1) - 1 = i
  BY <1>3
<1>14. KeyOf(fields, (i + 1) - 1)'
  BY <1>6, <1>12, <1>13 DEF KeyOf
<1> QED BY <1>3, <1>9, <1>11, <1>12, <1>13, <1>14, LineBegins

\* A byte of a field's name, or the colon behind it.
LEMMA NameByteParsed ==
  ASSUME NEW fields, NEW off, ReadsAnswer(fields, off), HeaderName,
         NEW i \in 1..Len(fields), InLine(fields, off, i)
  PROVE  InLine(fields, off, i)'
<1>1. state = "header_name" /\ Reading("header_name") /\ hpc # "done" /\ Bite # -1
  BY DEF HeaderName, Reading
<1>2. fields[i] \in Field
  BY DEF ReadsAnswer
<1> DEFINE n == Len(fields[i].name)
           g == fields[i].spaces
           v == Len(fields[i].value)
           j == taken - off[i]
<1>3. Parts(fields[i], n, g, v)
  BY <1>2, PartsOfField
<1>4. off[i] \in Nat /\ taken \in Nat
  BY ResponseType, Places DEF ReadsAnswer
<1>5. j \in 0..n /\ KeyOf(fields, i - 1) /\ headerName = SubSeq(fields[i].name, 1, j)
  BY <1>1, <1>2 DEF InLine, InField
<1>6. /\ n \in Nat /\ g \in Nat /\ v \in Nat /\ fields[i].name \in Seq(Byte) /\ n = Len(fields[i].name)
      /\ \A k \in 1..n : fields[i].name[k] \in Byte \ {CR, LF, Colon}
  BY <1>2, <1>3, FieldParts DEF Parts
<1>7. taken = off[i] + j
  BY <1>4
<1> HIDE DEF n, g, v, j
<1>8. j \in Nat /\ j < n + g + v + 3 /\ j <= n
  BY <1>5, <1>6
<1>9. LineIs(fields[i], n, g, v)
  BY <1>2, <1>3, LineBytes DEF Parts
<1>10. Bite = FieldLine(fields[i])[j + 1]
  <2>1. j < Len(FieldLine(fields[i]))
    BY <1>8, <1>9 DEF LineIs
  <2> QED BY <1>1, <1>7, <1>8, <2>1, FieldByte
<1>11. CASE j < n
  <2>1. j + 1 \in 1..n /\ j + 1 \in 0..n
    BY <1>6, <1>8, <1>11
  <2>2. Bite = fields[i].name[j + 1] /\ Bite \notin {CR, LF, Colon}
    BY <1>6, <1>9, <1>10, <2>1 DEF LineIs
  <2>3. /\ Take(1) /\ state' = "header_name" /\ serverKey' = serverKey
        /\ headerName' = Append(headerName, Bite)
    BY <1>1, <2>2 DEF HeaderName
  <2>4. taken' - off[i] = j + 1
    BY <1>1, <1>3, <1>7, <1>8, <2>3, FieldByteTaken DEF Within
  <2>5. headerName' = SubSeq(fields[i].name, 1, j + 1)
    BY <1>5, <1>6, <1>8, <1>11, <2>2, <2>3, OneMoreByte
  <2>6. InField(fields[i], taken - off[i])'
    BY <1>6, <2>1, <2>3, <2>4, <2>5 DEF InField
  <2>7. KeyOf(fields, i - 1)'
    BY <1>5, <2>3 DEF KeyOf
  <2> QED BY <2>3, <2>6, <2>7 DEF InLine
<1>12. CASE j = n
  <2>1. Bite = Colon
    BY <1>9, <1>10, <1>12 DEF LineIs
  <2>2. /\ Take(1) /\ state' = "header_sep" /\ serverKey' = serverKey
        /\ headerName' = headerName /\ headerValue' = <<>>
    BY <2>1 DEF HeaderName, Colon, CR, LF
  <2>3. taken' - off[i] = n + 1
    BY <1>1, <1>3, <1>7, <1>8, <1>12, <2>2, FieldByteTaken DEF Within
  <2>4. headerName' = fields[i].name
    BY <1>5, <1>6, <1>12, <2>2, WholeSequence
  <2>5. (n + 1) - n - 1 \in 0..g
    BY <1>6
  <2>6. InField(fields[i], taken - off[i])'
    BY <1>3, <1>6, <2>2, <2>3, <2>4, <2>5 DEF InField, Parts
  <2>7. KeyOf(fields, i - 1)'
    BY <1>5, <2>2 DEF KeyOf
  <2> QED BY <2>2, <2>6, <2>7 DEF InLine
<1> QED BY <1>6, <1>8, <1>11, <1>12

LEMMA HeaderNameParsed ==
  ASSUME NEW fields, NEW off, ReadsAnswer(fields, off), Parsed(fields, off), HeaderName
  PROVE  Parsed(fields, off)'
<1>1. state = "header_name" /\ hpc # "done" /\ Bite # -1 /\ serverKey' = serverKey
  BY DEF HeaderName, Reading
<1>2. CASE \E i \in 1..Len(fields) : InLine(fields, off, i)
  BY <1>2, NameByteParsed DEF Parsed
<1>3. CASE taken = off[Len(fields) + 1] /\ KeyOf(fields, Len(fields))
  <2>1. /\ HandshakeTypeOK /\ StreamFollows /\ response.head \in Nat /\ taken \in Nat
        /\ HasFields(response, fields, off)
    BY ResponseType DEF ReadsAnswer
  <2>2. response.head = taken + 2
    BY <1>3, <2>1, Places DEF ReadsAnswer
  <2>3. taken + 1 <= response.head /\ taken + 1 = response.head - 1
    BY <2>1, <2>2
  <2>4. Bite = CR
    <3>1. taken + 1 \in DOMAIN response.bytes /\ Bite = response.bytes[taken + 1]
      BY <1>1, <2>1, <2>3, BiteOfAnswer
    <3> QED BY <2>1, <2>3, <3>1 DEF HasFields
  <2>5. Take(1 + Remainder) /\ state' = "end_of_headers"
    BY <2>4 DEF HeaderName, CR, Colon
  <2>6. taken' = taken + (1 + Remainder) /\ response' = response /\ Remainder \in 0..1
    BY <1>1, <2>1, <2>5, TakenBytes DEF Take
  <2>7. taken' \in {response'.head - 1, response'.head}
    BY <2>1, <2>2, <2>6
  <2>8. KeyOf(fields, Len(fields))'
    BY <1>1, <1>3 DEF KeyOf
  <2> QED BY <2>5, <2>7, <2>8 DEF Parsed
<1> QED BY <1>1, <1>2, <1>3 DEF Parsed

-------------------------------------------------------------------------------
(* The steps together. *)

ParserStep == StatusLine \/ EndOfHeader \/ HeaderName \/ HeaderSep \/ HeaderValue

LEMMA ParserTakes ==
  ASSUME HandshakeTypeOK, ParserStep
  PROVE  /\ hpc = "reading" /\ up /\ Bite # -1
         /\ \E d \in 1..2 : d \in 0..Len(rx) /\ Take(d)
<1>1. hpc = "reading" /\ up /\ Bite # -1
  BY DEF ParserStep, StatusLine, EndOfHeader, HeaderName, HeaderSep, HeaderValue, Reading
<1>2. 1 \in 0..Len(rx) /\ 1 + Remainder \in 0..Len(rx) /\ 1 + Remainder \in 1..2
  <2>1. 1 \in 0..Len(rx) /\ 1 + Remainder \in 0..Len(rx) /\ Remainder \in 0..1
    BY <1>1, TakenBytes
  <2> QED BY <2>1
<1>3. Take(1) \/ Take(1 + Remainder)
  BY DEF ParserStep, StatusLine, EndOfHeader, HeaderName, HeaderSep, HeaderValue
<1> QED BY <1>1, <1>2, <1>3

\* What clientHandshake's steps do to the stream and to the answer.
LEMMA HandshakeStream ==
  ASSUME HandshakeTypeOK, HandshakeStep
  PROVE  /\ hpc # "done" /\ UNCHANGED <<response, up, peer>>
         /\ \E d \in Nat : /\ StreamCut(d) /\ taken' = taken + d
                           /\ StreamLength' = StreamLength - d
<1>1. CASE ParserStep
  <2>1. PICK d \in 1..2 : d \in 0..Len(rx) /\ Take(d)
    BY <1>1, ParserTakes
  <2>2. StreamCut(d) /\ taken' = taken + d /\ StreamLength' = StreamLength - d /\ response' = response
    BY <2>1, TakeType
  <2>3. hpc # "done" /\ UNCHANGED <<up, peer>>
    BY <1>1, <2>1, ParserTakes DEF Take
  <2>4. d \in Nat
    OBVIOUS
  <2> QED BY <2>2, <2>3, <2>4
<1>2. CASE SendRequest \/ WaitEnds \/ ReadNothing \/ CompareKeys
  <2>1. UNCHANGED <<up, peer, wire, rx, response, taken>> /\ hpc # "done"
    BY <1>2 DEF SendRequest, WaitEnds, ReadNothing, CompareKeys, socketVars
  <2>2. StreamLength' = StreamLength /\ \A p : StreamAt(p)' = StreamAt(p)
    BY <2>1 DEF StreamLength, StreamAt
  <2>3. StreamLength \in Nat /\ taken \in Nat
    BY StreamNat DEF HandshakeTypeOK
  <2>4. taken' = taken + 0 /\ StreamLength' = StreamLength - 0 /\ 0 \in Nat
    BY <2>1, <2>2, <2>3
  <2>5. StreamCut(0)
    BY <2>1, <2>2, <2>3 DEF StreamCut
  <2> QED BY <2>1, <2>4, <2>5
<1> QED BY <1>1, <1>2 DEF HandshakeStep, ParserStep

\* The parser reads on in the answer, and the stream goes on behind.
LEMMA ParserKeeps ==
  ASSUME HandshakeTypeOK, StreamFollows, AnswerParsed, ParserStep
  PROVE  HandshakeTypeOK' /\ StreamFollows' /\ AnswerParsed'
<1>1. HandshakeTypeOK'
  BY HandshakeStepType DEF ParserStep, HandshakeStep
<1>2. PICK d \in 1..2 : d \in 0..Len(rx) /\ Take(d)
  BY ParserTakes
<1>3. StreamCut(d) /\ taken' = taken + d /\ response' = response /\ d \in Nat
  BY <1>2, TakeType
<1>4. StreamFollows'
  BY <1>1, <1>3, ParserTakes, StreamStillFollows
<1>5. PICK fields \in Seq(Field) : \E off \in [1..Len(fields) + 1 -> Nat] :
        /\ HasFields(response, fields, off) /\ ProvesByField(response, fields)
        /\ Parsed(fields, off)
  BY DEF AnswerParsed
<1>6. PICK off \in [1..Len(fields) + 1 -> Nat] :
        /\ HasFields(response, fields, off) /\ ProvesByField(response, fields)
        /\ Parsed(fields, off)
  BY <1>5
<1>7. ReadsAnswer(fields, off)
  BY <1>6 DEF ReadsAnswer
<1>8. Parsed(fields, off)'
  BY <1>6, <1>7, StatusLineParsed, EndOfHeaderParsed, HeaderNameParsed, HeaderSepParsed,
     HeaderValueParsed DEF ParserStep
<1>9. HasFields(response, fields, off)' /\ ProvesByField(response, fields)'
  BY <1>3, <1>6 DEF HasFields, ProvesByField
<1> QED BY <1>1, <1>4, <1>8, <1>9 DEF AnswerParsed

\* Nothing has come before the answer.
LEMMA NothingToParse ==
  ASSUME HandshakeTypeOK, Unanswered PROVE ~ParserStep
<1>1. Bite # -1 => Len(rx) \in Nat /\ 1 <= Len(rx)
  BY BiteIsNext DEF HandshakeTypeOK
<1>2. Len(rx) \in Nat /\ Len(wire) \in Nat /\ Len(rx) + Len(wire) = 0
  BY StreamNat DEF HandshakeTypeOK, Unanswered, StreamLength
<1>3. Bite = -1
  BY <1>1, <1>2
<1> QED BY <1>3, ParserTakes

\* Steps that leave the parser and the answer alone.
LEMMA ParsedStays ==
  ASSUME UNCHANGED <<state, headerName, headerValue, serverKey, response, taken>>
  PROVE  /\ AnswerParsed => AnswerParsed'
         /\ Unanswered /\ StreamLength' = 0 => Unanswered'
<1>1. ASSUME AnswerParsed PROVE AnswerParsed'
  <2>1. PICK fields \in Seq(Field) : \E off \in [1..Len(fields) + 1 -> Nat] :
          /\ HasFields(response, fields, off) /\ ProvesByField(response, fields)
          /\ Parsed(fields, off)
    BY <1>1 DEF AnswerParsed
  <2>2. PICK off \in [1..Len(fields) + 1 -> Nat] :
          /\ HasFields(response, fields, off) /\ ProvesByField(response, fields)
          /\ Parsed(fields, off)
    BY <2>1
  <2>3. HasFields(response, fields, off)' /\ ProvesByField(response, fields)'
    BY <2>2 DEF HasFields, ProvesByField
  <2>4. Parsed(fields, off)'
    BY <2>2 DEF Parsed, InLine, InField, KeyOf
  <2> QED BY <2>3, <2>4 DEF AnswerParsed
<1> QED BY <1>1 DEF Unanswered

\* A stream that only ends earlier keeps the invariant,
LEMMA CutKeeps ==
  ASSUME HandshakeInv, SocketTypeOK', StreamCut(0), UNCHANGED handshakeVars
  PROVE  HandshakeInv'
<1>1. HandshakeTypeOK /\ StreamFollows /\ (Unanswered \/ AnswerParsed) /\ Verdict
  BY DEF HandshakeInv
<1>2. HandshakeTypeOK'
  BY <1>1 DEF HandshakeTypeOK, handshakeVars
<1>4. taken' = taken + 0 /\ 0 \in Nat
  BY <1>1, <1>2 DEF handshakeVars, HandshakeTypeOK
<1>5. StreamFollows'
  <2>1. CASE hpc = "done"
    BY <2>1 DEF StreamFollows, handshakeVars
  <2>2. CASE hpc # "done"
    BY <1>1, <1>2, <1>4, <2>2, StreamStillFollows DEF handshakeVars
  <2> QED BY <2>1, <2>2
<1>6. StreamLength = 0 => StreamLength' = 0
  <2>1. StreamLength' \in Nat
    <3>1. rx' \in Seq(Byte) /\ wire' \in Seq(Byte)
      BY DEF SocketTypeOK
    <3> QED BY <3>1 DEF StreamLength
  <2> QED BY <2>1 DEF StreamCut
<1>7. Unanswered' \/ AnswerParsed'
  BY <1>1, <1>6, ParsedStays DEF handshakeVars, Unanswered
<1>8. Verdict'
  BY <1>1 DEF Verdict, handshakeVars
<1> QED BY <1>2, <1>5, <1>7, <1>8 DEF HandshakeInv

\* and so does the network,
LEMMA NetworkKeeps ==
  ASSUME HandshakeInv, HandshakeBytesArrive \/ ServerLeaves
  PROVE  HandshakeInv'
<1>1. HandshakeTypeOK /\ HandshakeTypeOK' /\ UNCHANGED handshakeVars
  BY ServerStepsType DEF HandshakeInv, HandshakeBytesArrive, ServerLeaves
<1>2. StreamCut(0)
  BY <1>1, NetworkCut DEF HandshakeBytesArrive, ServerLeaves, HandshakeTypeOK
<1> QED BY <1>1, <1>2, CutKeeps DEF HandshakeTypeOK

\* There is nothing in a header before there is an answer.
LEMMA NotYetAnswered ==
  ASSUME HandshakeInv, response = NoResponse
  PROVE  Unanswered
<1> SUFFICES ASSUME NEW fields \in Seq(Field), NEW off \in [1..Len(fields) + 1 -> Nat],
                    HasFields(response, fields, off)
             PROVE  FALSE
  BY DEF HandshakeInv, AnswerParsed
<1>1. response.head = 0
  BY DEF NoResponse
<1>2. off[1] \in Nat /\ off[1] + 2 <= response.head
  BY <1>1, Places
<1> QED BY <1>1, <1>2

\* With a well-formed answer, or as much of it as reaches us, the parser begins,
LEMMA AnswerBegins ==
  ASSUME HandshakeInv, SocketTypeOK', NEW r \in Responses, WellFormed(r),
         response = NoResponse, response' = r,
         \A p \in 1..StreamLength' : p <= Len(r.bytes) /\ StreamAt(p)' = r.bytes[p],
         UNCHANGED <<hpc, state, headerName, headerValue, serverKey, result, taken>>
  PROVE  HandshakeInv'
<1>1. Unanswered /\ HandshakeTypeOK /\ Verdict
  BY NotYetAnswered DEF HandshakeInv
<1>2. HandshakeTypeOK' /\ Verdict'
  BY <1>1 DEF HandshakeTypeOK, Verdict
<1>3. StreamLength' \in Nat /\ taken' = 0
  <2>1. Len(rx') \in Nat /\ Len(wire') \in Nat
    BY DEF SocketTypeOK
  <2> QED BY <1>1, <2>1 DEF Unanswered, StreamLength
<1>4. StreamFollows'
  BY <1>3 DEF StreamFollows
<1>5. AnswerParsed'
  <2>1. PICK fields \in Seq(Field) : \E off \in [1..Len(fields) + 1 -> Nat] :
          HasFields(r, fields, off) /\ ProvesByField(r, fields)
    BY DEF WellFormed
  <2>2. PICK off \in [1..Len(fields) + 1 -> Nat] :
          HasFields(r, fields, off) /\ ProvesByField(r, fields)
    BY <2>1
  <2>3. HasFields(response, fields, off)' /\ ProvesByField(response, fields)'
    BY <2>2 DEF HasFields, ProvesByField
  <2>4. Parsed(fields, off)'
    <3>1. state' = "status_line" /\ taken' = 0 /\ serverKey' = <<>>
      BY <1>1 DEF Unanswered
    <3>2. KeyOf(fields, 0)'
      BY <3>1 DEF KeyOf
    <3>3. 0 < off[1]
      <4>1. Len(fields) \in Nat
        OBVIOUS
      <4>2. off[1] \in Nat
        BY <4>1
      <4> QED BY <2>2, <4>2 DEF HasFields
    <3> QED BY <3>1, <3>2, <3>3 DEF Parsed
  <2> QED BY <2>3, <2>4 DEF AnswerParsed
<1> QED BY <1>2, <1>4, <1>5 DEF HandshakeInv

LEMMA AnswerKeeps ==
  ASSUME HandshakeInv, NEW r \in Responses, WellFormed(r), ServerAnswers(r)
  PROVE  HandshakeInv'
<1>1. HandshakeTypeOK /\ HandshakeTypeOK' /\ Unanswered
  BY ServerStepsType, NotYetAnswered DEF HandshakeInv, ServerAnswers
<1>2. PeerWrites(r.bytes) /\ r.bytes \in Seq(Byte) /\ Len(r.bytes) \in Nat
  BY ResponseAssumption DEF ServerAnswers
<1>3. /\ StreamLength' = 0 + Len(r.bytes)
      /\ \A p \in 0 + 1..0 + Len(r.bytes) : StreamAt(p)' = r.bytes[p - 0]
  BY <1>1, <1>2, WritesGrow DEF HandshakeTypeOK, Unanswered
<1>4. \A p \in 1..StreamLength' : p <= Len(r.bytes) /\ StreamAt(p)' = r.bytes[p]
  BY <1>2, <1>3
<1> QED BY <1>1, <1>4, AnswerBegins DEF ServerAnswers, HandshakeTypeOK

\* and bytes that come behind a header that is there are not its business.
LEMMA BytesBehind ==
  ASSUME HandshakeInv, response # NoResponse, SocketTypeOK', UNCHANGED handshakeVars,
         NEW bytes \in Seq(Byte), wire' = wire \o bytes, rx' = rx,
         hpc # "done" => taken + StreamLength >= response.head
  PROVE  HandshakeInv'
<1>1. /\ HandshakeTypeOK /\ Verdict /\ StreamFollows /\ AnswerParsed /\ SocketTypeOK
      /\ taken \in Nat /\ StreamLength \in Nat /\ response.head \in Nat
  BY ResponseType, StreamNat DEF HandshakeInv, HandshakeTypeOK, Unanswered
<1>2. HandshakeTypeOK'
  BY <1>1 DEF HandshakeTypeOK, handshakeVars
<1>3. AnswerParsed' /\ Verdict'
  BY <1>1, ParsedStays DEF handshakeVars, Verdict
<1>4. Len(bytes) \in Nat
  OBVIOUS
<1>5. /\ StreamLength' = StreamLength + Len(bytes)
      /\ \A p \in 1..StreamLength : StreamAt(p)' = StreamAt(p)
  BY <1>1, StreamGrows
<1>6. StreamFollows'
  <2> SUFFICES ASSUME hpc # "done", NEW p \in 1..StreamLength', taken + p <= response.head
               PROVE  /\ taken + p <= Len(response.bytes)
                      /\ StreamAt(p)' = response.bytes[taken + p]
    BY DEF StreamFollows, handshakeVars
  <2>1. p \in 1..StreamLength
    BY <1>1, <1>4, <1>5
  <2> QED BY <1>1, <1>5, <2>1 DEF StreamFollows
<1> QED BY <1>2, <1>3, <1>6 DEF HandshakeInv

\* and every step of clientHandshake.
LEMMA HandshakeKeeps ==
  ASSUME HandshakeInv, HandshakeStep
  PROVE  HandshakeInv'
<1>1. HandshakeTypeOK /\ StreamFollows /\ (Unanswered \/ AnswerParsed) /\ Verdict
  BY DEF HandshakeInv
<1>2. HandshakeTypeOK'
  BY <1>1, HandshakeStepType
<1>3. CASE ParserStep
  <2>1. AnswerParsed
    BY <1>1, <1>3, NothingToParse
  <2>2. StreamFollows' /\ AnswerParsed'
    BY <1>1, <1>3, <2>1, ParserKeeps
  <2>3. hpc' = "reading" /\ result' = "none"
    <3>1. hpc = "reading" /\ result = "none"
      BY <1>1, <1>3, ParserTakes DEF Verdict
    <3>2. UNCHANGED <<hpc, result>>
      BY <1>1, <1>3, ParserTakes DEF Take
    <3> QED BY <3>1, <3>2
  <2>4. Verdict'
    BY <2>3 DEF Verdict
  <2> QED BY <1>2, <2>2, <2>4 DEF HandshakeInv
<1>4. CASE SendRequest \/ WaitEnds \/ ReadNothing \/ CompareKeys
  <2>1. UNCHANGED <<up, peer, wire, rx, state, headerName, headerValue, serverKey, response, taken>>
    BY <1>4 DEF SendRequest, WaitEnds, ReadNothing, CompareKeys, parserUnchanged, socketVars
  <2>2. hpc # "done"
    BY <1>4 DEF SendRequest, WaitEnds, ReadNothing, CompareKeys
  <2>3. StreamLength' = StreamLength /\ \A p : StreamAt(p)' = StreamAt(p)
    BY <2>1 DEF StreamLength, StreamAt
  <2>4. StreamFollows'
    BY <1>1, <2>1, <2>2, <2>3 DEF StreamFollows
  <2>5. Unanswered' \/ AnswerParsed'
    BY <1>1, <2>1, <2>3, ParsedStays DEF Unanswered
  <2>6. Verdict'
    BY <1>1, <1>4, <2>1, <2>2 DEF Verdict, SendRequest, WaitEnds, ReadNothing, CompareKeys, Return
  <2> QED BY <1>2, <2>4, <2>5, <2>6 DEF HandshakeInv
<1> QED BY <1>3, <1>4 DEF HandshakeStep, ParserStep

-------------------------------------------------------------------------------
(* The theorems about well-formed answers. *)

LEMMA HandshakeInvInit == HandshakeInit => HandshakeInv
<1> SUFFICES ASSUME HandshakeInit PROVE HandshakeInv
  OBVIOUS
<1>1. rx = <<>> /\ wire = <<>>
  BY DEF HandshakeInit, SocketInit
<1>2. StreamLength = 0
  BY <1>1 DEF StreamLength
<1>3. StreamFollows /\ Unanswered /\ Verdict
  BY <1>2 DEF HandshakeInit, StreamFollows, Unanswered, Verdict
<1> QED BY <1>3, HandshakeInitType DEF HandshakeInv

LEMMA HandshakeInvStays ==
  ASSUME AllWellFormed, HandshakeInv, [HandshakeNext]_handshakeAllVars
  PROVE  HandshakeInv'
<1>1. CASE HandshakeStep
  BY <1>1, HandshakeKeeps
<1>2. CASE HandshakeBytesArrive \/ ServerLeaves
  BY <1>2, NetworkKeeps
<1>3. ASSUME NEW r \in Responses, ServerAnswers(r) PROVE HandshakeInv'
  BY <1>3, AnswerKeeps DEF AllWellFormed
<1>4. CASE UNCHANGED handshakeAllVars
  <2>1. UNCHANGED <<socketVars, handshakeVars>>
    BY <1>4 DEF handshakeAllVars
  <2>2. StreamLength' = StreamLength /\ \A p : StreamAt(p)' = StreamAt(p)
    BY <2>1 DEF socketVars, StreamLength, StreamAt
  <2>3. HandshakeTypeOK'
    BY <2>1 DEF HandshakeInv, HandshakeTypeOK, SocketTypeOK, handshakeVars, socketVars
  <2>4. StreamFollows'
    BY <2>1, <2>2 DEF HandshakeInv, StreamFollows, handshakeVars
  <2>5. Unanswered' \/ AnswerParsed'
    BY <2>1, <2>2, ParsedStays DEF HandshakeInv, Unanswered, handshakeVars
  <2>6. Verdict'
    BY <2>1 DEF HandshakeInv, Verdict, handshakeVars
  <2> QED BY <2>3, <2>4, <2>5, <2>6 DEF HandshakeInv
<1> QED BY <1>1, <1>2, <1>3, <1>4 DEF HandshakeNext

\* The key that was taken decides as the answer's header says.
LEMMA KeyDecides ==
  ASSUME NEW fields, ProvesByField(response, fields), DOMAIN fields = 1..Len(fields),
         KeyOf(fields, Len(fields))
  PROVE  serverKey = CalculatedKey <=> response.proves
<1>1. CASE \E i \in 1..Len(fields) : fields[i].name \in AcceptNames
  BY <1>1 DEF ProvesByField, KeyOf
<1>2. CASE \A i \in 1..Len(fields) : fields[i].name \notin AcceptNames
  BY <1>2, RequestAssumption DEF ProvesByField, KeyOf
<1> QED BY <1>1, <1>2

LEMMA VerdictFromInv == HandshakeInv => VerdictIsRight /\ HeaderRead
<1> SUFFICES ASSUME HandshakeInv, result \in {"Success_Ok", "Error_BadHandshake"}
             PROVE  /\ result = "Success_Ok" <=> response.proves
                    /\ taken \in {response.head - 1, response.head}
  BY DEF VerdictIsRight, HeaderRead
<1>1. state = "end_of_headers" /\ (result = "Success_Ok" <=> serverKey = CalculatedKey)
  BY DEF HandshakeInv, Verdict
<1>2. PICK fields \in Seq(Field) : \E off \in [1..Len(fields) + 1 -> Nat] :
        /\ HasFields(response, fields, off) /\ ProvesByField(response, fields)
        /\ Parsed(fields, off)
  BY <1>1 DEF HandshakeInv, Unanswered, AnswerParsed
<1>3. taken \in {response.head - 1, response.head} /\ KeyOf(fields, Len(fields))
  BY <1>1, <1>2 DEF Parsed, InLine, InField
<1>4. DOMAIN fields = 1..Len(fields)
  OBVIOUS
<1> QED BY <1>1, <1>2, <1>3, <1>4, KeyDecides

\* A server that names the key is accepted and any other refused, whatever
\* header fields there are, wherever the key is among them and in whatever
\* pieces the bytes come.
THEOREM RightVerdict ==
  ASSUME AllWellFormed PROVE HandshakeSpec => []VerdictIsRight
<1>1. HandshakeInv /\ [HandshakeNext]_handshakeAllVars => HandshakeInv'
  BY HandshakeInvStays
<1>2. HandshakeInv => VerdictIsRight
  BY VerdictFromInv
<1> QED BY <1>1, <1>2, HandshakeInvInit, PTL DEF HandshakeSpec

\* With the verdict the whole header has been read, but for the last line feed
\* perhaps, and nothing behind it.
THEOREM ReadsTheHeader ==
  ASSUME AllWellFormed PROVE HandshakeSpec => []HeaderRead
<1>1. HandshakeInv /\ [HandshakeNext]_handshakeAllVars => HandshakeInv'
  BY HandshakeInvStays
<1>2. HandshakeInv => HeaderRead
  BY VerdictFromInv
<1> QED BY <1>1, <1>2, HandshakeInvInit, PTL DEF HandshakeSpec
===============================================================================
