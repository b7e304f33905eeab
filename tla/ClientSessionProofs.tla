-------------------------- MODULE ClientSessionProofs --------------------------
(***************************************************************************)
(* Theorems about a client's session: clientHandshake, and then a          *)
(* WebSocket on the same stream.  They rest on the invariants of the two   *)
(* parts.  What is new here is the handover: where the stream stands when  *)
(* the handshake returns, and what becomes of a frame parser that starts   *)
(* on what the handshake has left.                                         *)
(***************************************************************************)
EXTENDS ClientSession, WebSocketProofs, ClientHandshakeProofs

-------------------------------------------------------------------------------
(* The client: its two parts on one stream. *)

\* The header that has been sent is still to come, or has been read.
HeaderThere ==
  hpc # "done" /\ HeaderSent /\ up /\ peer = "open" => taken + StreamLength >= response.head

ClientInv ==
  TypeOK /\ HandshakeInv /\ HeaderThere /\ (~Handover => delivered = <<>>)

LEMMA ClientInvInit == SessionInit => ClientInv
<1> SUFFICES ASSUME SessionInit PROVE ClientInv
  OBVIOUS
<1>1. TypeOK /\ HandshakeInv
  BY InitType, HandshakeInvInit DEF SessionInit
<1>2. ~HeaderSent /\ delivered = <<>>
  BY DEF SessionInit, HandshakeInit, HeaderSent, Init
<1> QED BY <1>1, <1>2 DEF ClientInv, HeaderThere

\* The range of the WebSocket's variables, when only the stream has changed.
LEMMA StreamTyped ==
  ASSUME TypeOK, SocketTypeOK', UNCHANGED webSocketVars
  PROVE  TypeOK'
  BY DEF TypeOK, ParserTypeOK, ControlTypeOK, HistoryTypeOK, webSocketVars, parserVars, historyVars

\* A header that has been parsed is that of an answer, and was read to its end.
LEMMA HeaderParsed ==
  ASSUME HandshakeInv, state = "end_of_headers"
  PROVE  /\ AnswerParsed /\ response # NoResponse
         /\ taken \in {response.head - 1, response.head}
<1>1. AnswerParsed
  BY DEF HandshakeInv, Unanswered
<1>2. PICK fields \in Seq(Field) : \E off \in [1..Len(fields) + 1 -> Nat] :
        HasFields(response, fields, off) /\ Parsed(fields, off)
  BY <1>1 DEF AnswerParsed
<1>3. response.head \in Nat
  BY ResponseType DEF HandshakeInv
<1>4. PICK off \in [1..Len(fields) + 1 -> Nat] :
        HasFields(response, fields, off) /\ Parsed(fields, off)
  BY <1>2
<1>5. off[1] \in Nat /\ off[1] + 2 <= response.head
  BY <1>3, <1>4, Places
<1>6. taken \in {response.head - 1, response.head}
  BY <1>4 DEF Parsed, InLine, InField
<1> QED BY <1>1, <1>3, <1>5, <1>6 DEF NoResponse

\* With a verdict clientHandshake is over, and the answer has been read.
LEMMA AfterVerdict ==
  ASSUME HandshakeInv, Handover
  PROVE  hpc = "done" /\ AnswerParsed /\ taken \in {response.head - 1, response.head}
<1>1. hpc = "done" /\ state = "end_of_headers"
  BY DEF HandshakeInv, Verdict, Handover
<1> QED BY <1>1, HeaderParsed

LEMMA HandshakeClient ==
  ASSUME ClientInv, HandshakeStep, UNCHANGED webSocketVars
  PROVE  ClientInv'
<1>1. HandshakeInv' /\ HandshakeTypeOK'
  BY HandshakeKeeps DEF ClientInv, HandshakeInv
<1>2. TypeOK'
  BY <1>1, StreamTyped DEF ClientInv, HandshakeTypeOK
<1>3. hpc # "done" /\ UNCHANGED <<response, up, peer>>
  BY HandshakeStream DEF ClientInv, HandshakeInv
<1>4. PICK d \in Nat : taken' = taken + d /\ StreamLength' = StreamLength - d
  BY HandshakeStream DEF ClientInv, HandshakeInv
<1>5. HeaderThere'
  <2>1. taken \in Nat /\ response.head \in Nat /\ StreamLength \in Nat
    BY ResponseType, StreamNat DEF ClientInv, HandshakeInv, HandshakeTypeOK
  <2>2. taken' + StreamLength' = taken + StreamLength
    BY <1>4, <2>1
  <2> QED BY <1>3, <2>2 DEF ClientInv, HeaderThere, HeaderSent
<1>6. delivered' = <<>>
  <2>1. ~Handover
    BY <1>3, AfterVerdict DEF ClientInv
  <2> QED BY <2>1 DEF ClientInv, webSocketVars
<1> QED BY <1>1, <1>2, <1>5, <1>6 DEF ClientInv

\* The steps after the handover are the WebSocket's.
LEMMA FramesClient ==
  ASSUME ClientInv, Handover, [Next]_vars, UNCHANGED handshakeVars
  PROVE  ClientInv'
<1>1. TypeOK' /\ TypeOK
  BY StepType DEF ClientInv
<1>2. hpc = "done" /\ AnswerParsed /\ HandshakeTypeOK /\ Verdict
  BY AfterVerdict DEF ClientInv, HandshakeInv
<1>3. HandshakeTypeOK'
  BY <1>1, <1>2 DEF HandshakeTypeOK, handshakeVars, TypeOK
<1>4. AnswerParsed' /\ Verdict' /\ StreamFollows' /\ HeaderThere' /\ Handover'
  BY <1>2, ParsedStays DEF handshakeVars, Verdict, StreamFollows, HeaderThere, Handover
<1> QED BY <1>1, <1>3, <1>4 DEF ClientInv, HandshakeInv

\* The server's answer begins the header.
LEMMA AnswerClient ==
  ASSUME AllWellFormed, ClientInv, NEW r \in Responses, ServerAnswers(r), UNCHANGED webSocketVars
  PROVE  ClientInv'
<1>1. HandshakeInv' /\ HandshakeTypeOK'
  BY AnswerKeeps DEF ClientInv, AllWellFormed, HandshakeInv
<1>2. TypeOK'
  BY <1>1, StreamTyped DEF ClientInv, HandshakeTypeOK
<1>3. taken' = taken /\ response' = r /\ result' = result /\ PeerWrites(r.bytes)
  BY DEF ServerAnswers
<1>4. HeaderThere'
  <2>1. /\ taken \in Nat /\ StreamLength \in Nat /\ r.bytes \in Seq(Byte) /\ r.head \in Nat
        /\ SocketTypeOK
    BY ResponseType, ResponseAssumption, StreamNat DEF ClientInv, HandshakeInv, HandshakeTypeOK
  <2>2. StreamLength' = StreamLength + Len(r.bytes)
    BY <1>3, <2>1, WritesGrow
  <2>3. Len(r.bytes) \in Nat
    BY <2>1
  <2> QED BY <1>3, <2>1, <2>2, <2>3 DEF HeaderThere, HeaderSent
<1>5. ~Handover' => delivered' = <<>>
  BY <1>3 DEF ClientInv, Handover, webSocketVars
<1> QED BY <1>1, <1>2, <1>4, <1>5 DEF ClientInv

\* A frame goes behind the header.
LEMMA SendsClient ==
  ASSUME ClientInv, HeaderSent, NEW f \in PeerFrames, PeerSends(f), UNCHANGED handshakeVars
  PROVE  ClientInv'
<1>1. TypeOK' /\ TypeOK
  BY StepType DEF ClientInv, Next
<1>2. HandshakeInv /\ HandshakeTypeOK /\ response # NoResponse
  BY DEF ClientInv, HandshakeInv, HeaderSent
<1>3. /\ taken \in Nat /\ StreamLength \in Nat /\ f.bytes \in Seq(Byte) /\ response.head \in Nat
      /\ SocketTypeOK /\ SocketTypeOK' /\ PeerWrites(f.bytes)
  BY <1>1, <1>2, ResponseType, BytesAssumption, StreamNat DEF HandshakeTypeOK, TypeOK, PeerSends
<1>4. StreamLength' = StreamLength + Len(f.bytes) /\ Len(f.bytes) \in Nat
  <2>1. Len(f.bytes) \in Nat
    BY <1>3
  <2> QED BY <1>3, <2>1, WritesGrow
<1>5. hpc # "done" => taken + StreamLength >= response.head
  BY <1>3 DEF PeerWrites, ClientInv, HeaderThere
<1>6. HandshakeInv'
  BY <1>2, <1>3, <1>5, BytesBehind DEF PeerWrites
<1>7. HeaderThere'
  BY <1>3, <1>4, <1>5 DEF HeaderThere, HeaderSent, handshakeVars
<1>8. ~Handover' => delivered' = <<>>
  BY DEF ClientInv, Handover, handshakeVars, PeerSends
<1> QED BY <1>1, <1>6, <1>7, <1>8 DEF ClientInv

\* The network moves the stream, or cuts it.
LEMMA NetworkClient ==
  ASSUME ClientInv, BytesArrive \/ PeerLeaves, UNCHANGED handshakeVars
  PROVE  ClientInv'
<1>1. TypeOK' /\ TypeOK
  BY StepType DEF ClientInv, Next
<1>2. HandshakeInv'
  BY NetworkKeeps DEF ClientInv, BytesArrive, PeerLeaves, HandshakeBytesArrive, ServerLeaves
<1>3. StreamCut(0) /\ (up' /\ peer' = "open" => up /\ peer = "open")
  BY <1>1, NetworkCut
     DEF BytesArrive, Arrive, PeerLeaves, PeerCloses, PeerVanishes, TypeOK
<1>4. StreamLength \in Nat /\ taken \in Nat
  BY StreamNat DEF ClientInv, HandshakeInv, HandshakeTypeOK
<1>5. up' /\ peer' = "open" => up /\ peer = "open" /\ StreamLength' = StreamLength
  BY <1>3, <1>4 DEF StreamCut
<1>6. HeaderThere'
  BY <1>5 DEF ClientInv, HeaderThere, HeaderSent, handshakeVars
<1>7. ~Handover' => delivered' = <<>>
  BY DEF ClientInv, Handover, handshakeVars, BytesArrive, PeerLeaves
<1> QED BY <1>1, <1>2, <1>6, <1>7 DEF ClientInv

LEMMA ClientInvStays ==
  ASSUME AllWellFormed, ClientInv, [SessionNext]_sessionVars
  PROVE  ClientInv'
<1>1. CASE HandshakeStep /\ UNCHANGED webSocketVars
  BY <1>1, HandshakeClient
<1>2. CASE Handover /\ (ReadFrame \/ AnswerClose \/ App) /\ UNCHANGED handshakeVars
  BY <1>2, FramesClient DEF Next
<1>3. CASE SessionPeer
  BY <1>3, AnswerClient, SendsClient, NetworkClient DEF SessionPeer
<1>4. CASE UNCHANGED sessionVars
  <2>1. TypeOK'
    BY <1>4, StepType DEF ClientInv, sessionVars
  <2>2. HandshakeInv'
    BY <1>4, HandshakeInvStays DEF ClientInv, sessionVars, vars, handshakeAllVars
  <2>3. StreamLength' = StreamLength
    BY <1>4 DEF sessionVars, vars, socketVars, StreamLength
  <2>4. HeaderThere' /\ (~Handover' => delivered' = <<>>)
    BY <1>4, <2>3 DEF ClientInv, HeaderThere, HeaderSent, Handover, sessionVars, vars,
                      handshakeVars, socketVars
  <2> QED BY <2>1, <2>2, <2>4 DEF ClientInv
<1> QED BY <1>1, <1>2, <1>3, <1>4 DEF SessionNext

\* No frame of a server that did not name the key reaches the application, and
\* none at all before the verdict, whatever frames it sends behind its answer.
THEOREM ProvenServersOnly ==
  ASSUME AllWellFormed PROVE SessionSpec => []OnlyProvenServers
<1>1. ClientInv => OnlyProvenServers
  <2> SUFFICES ASSUME ClientInv, delivered # <<>> PROVE response.proves
    BY DEF OnlyProvenServers
  <2>1. result = "Success_Ok"
    BY DEF ClientInv, Handover
  <2> QED BY <2>1, VerdictFromInv DEF ClientInv, VerdictIsRight
<1>2. ClientInv /\ [SessionNext]_sessionVars => ClientInv'
  BY ClientInvStays
<1> QED BY <1>1, <1>2, ClientInvInit, PTL DEF SessionSpec

-------------------------------------------------------------------------------
(* Where the frames are: behind the header while it is read, and at the front *)
(* of the stream when the WebSocket takes over, unless the header's last line *)
(* feed is left there.                                                        *)

\* The first frame is as far ahead as the header is still to be read.
HeaderAhead ==
  IF HeaderSent
    THEN \E off \in [1..Len(sent) + 1 -> Int] : Layout(off) /\ off[1] = response.head - taken
    ELSE sent = <<>> /\ taken + StreamLength <= Len(response.bytes)

Untouched == AtBoundary /\ delivered = <<>> /\ raised = {}

\* With the whole header read the frames are served in order.  With its line
\* feed left in the stream the connection ends before any of them.
Served ==
  IF taken = response.head
    THEN InOrder /\ (Ending \/ Aligned)
    ELSE Dud /\ (Dry => Ending \/ ~HeaderSent)

FramesInv ==
  /\ ClientInv /\ FirstConnection
  /\ hpc # "done" => HeaderAhead
  /\ IF Handover THEN Served ELSE Untouched

\* What comes behind an answer's header are the frames that are sent later.
NothingBehind == \A r \in Responses : Len(r.bytes) <= r.head

\* Lengths of the answer, and of the part that was read.
LEMMA AnswerSizes ==
  ASSUME ClientInv
  PROVE  /\ taken \in Nat /\ response.head \in Nat /\ Len(response.bytes) \in Nat
         /\ StreamLength \in Nat /\ Len(sent) \in Nat
<1>1. response.bytes \in Seq(Byte) /\ response.head \in Nat /\ taken \in Nat
  BY ResponseType DEF ClientInv, HandshakeInv
<1> QED BY <1>1, Lengths DEF ClientInv

\* Reading the header brings the first frame nearer.
LEMMA HeaderAheadCut ==
  ASSUME ClientInv, TypeOK', HeaderAhead, NEW d \in Nat, StreamCut(d), taken' = taken + d,
         d <= StreamLength, UNCHANGED <<response, sent>>
  PROVE  HeaderAhead'
<1>0. /\ taken \in Nat /\ response.head \in Nat /\ Len(response.bytes) \in Nat
      /\ StreamLength \in Nat /\ Len(sent) \in Nat /\ StreamLength' \in Nat
  BY AnswerSizes, LengthsNext
<1>1. HeaderSent' = HeaderSent
  BY DEF HeaderSent
<1>2. CASE HeaderSent
  <2>1. PICK off \in [1..Len(sent) + 1 -> Int] : Layout(off) /\ off[1] = response.head - taken
    BY <1>2 DEF HeaderAhead
  <2>2. PICK less \in [1..Len(sent) + 1 -> Int] : \A i \in 1..Len(sent) + 1 : less[i] = off[i] - d
    <3>1. [i \in 1..Len(sent) + 1 |-> off[i] - d] \in [1..Len(sent) + 1 -> Int]
      OBVIOUS
    <3> QED BY <3>1
  <2>3. Layout(less)'
    BY <2>1, <2>2, LayoutCut DEF ClientInv
  <2>4. less[1] = response.head - taken'
    <3>1. 1 \in 1..Len(sent) + 1
      BY <1>0
    <3>2. less[1] = (response.head - taken) - d
      BY <2>1, <2>2, <3>1
    <3>3. (response.head - taken) - d = response.head - (taken + d)
      BY <1>0
    <3> QED BY <3>2, <3>3
  <2> QED BY <1>1, <1>2, <2>3, <2>4 DEF HeaderAhead
<1>3. CASE ~HeaderSent
  <2>1. sent = <<>> /\ taken + StreamLength <= Len(response.bytes)
    BY <1>3 DEF HeaderAhead
  <2>2. StreamLength' <= StreamLength - d
    BY <1>0 DEF StreamCut
  <2>3. taken' + StreamLength' <= Len(response.bytes)
    BY <1>0, <2>1, <2>2
  <2> QED BY <1>1, <1>3, <2>1, <2>3 DEF HeaderAhead
<1> QED BY <1>2, <1>3

\* The verdict is returned with the parser at the first frame, or in front of
\* the header's last byte.
LEMMA HandoverServed ==
  ASSUME FramesInv, ClientInv', CompareKeys, Handover', UNCHANGED webSocketVars
  PROVE  Served'
<1>1. /\ UNCHANGED <<up, peer, wire, rx, taken, response>> /\ hpc # "done"
      /\ UNCHANGED <<parserVars, pc, raised, delivered, sent>>
  BY DEF CompareKeys, socketVars, webSocketVars, historyVars
<1>2. response # NoResponse /\ AnswerParsed /\ taken \in {response.head - 1, response.head}
  BY HeaderParsed DEF CompareKeys, FramesInv, ClientInv
<1>3. /\ ClientInv /\ TypeOK /\ TypeOK' /\ HeaderAhead /\ HeaderThere /\ StreamFollows
  BY <1>1 DEF FramesInv, ClientInv, HandshakeInv
<1>4. Untouched
  <2>1. ~Handover
    BY <1>1, <1>3, AfterVerdict DEF ClientInv
  <2> QED BY <2>1 DEF FramesInv
<1>5. /\ taken \in Nat /\ response.head \in Nat /\ Len(response.bytes) \in Nat
      /\ StreamLength \in Nat /\ Len(sent) \in Nat
  BY <1>3, AnswerSizes
<1>6. StreamLength' = StreamLength /\ \A p : StreamAt(p)' = StreamAt(p)
  BY <1>1 DEF StreamLength, StreamAt
<1>7. CASE taken = response.head
  <2>1. HeaderSent
    <3>1. SUFFICES ASSUME ~HeaderSent PROVE FALSE
      OBVIOUS
    <3>2. ~(response.head <= Len(response.bytes)) /\ taken + StreamLength <= Len(response.bytes)
      BY <1>2, <1>3, <3>1 DEF HeaderAhead, HeaderSent
    <3> QED BY <1>5, <1>7, <3>2
  <2>2. PICK off \in [1..Len(sent) + 1 -> Int] : Layout(off) /\ off[1] = response.head - taken
    BY <1>3, <2>1 DEF HeaderAhead
  <2>3. Len(delivered) = 0 /\ framePtr_ = 0 /\ AtBoundary /\ DOMAIN delivered = {}
    BY <1>4 DEF Untouched, AtBoundary
  <2>4. off[Len(delivered) + 1] = -framePtr_
    BY <1>5, <1>7, <2>2, <2>3
  <2>5. Aligned
    BY <2>2, <2>3, <2>4 DEF Aligned, Current, Reads, Buffered
  <2>6. InOrder
    BY <1>5, <2>3 DEF InOrder
  <2>7. StreamCut(0)
    BY <1>1, <1>3, QuietStream
  <2>8. Aligned' /\ InOrder'
    BY <1>1, <1>3, <2>5, <2>6, <2>7, AlignedKept DEF InOrder
  <2> QED BY <1>1, <1>7, <2>8 DEF Served
<1>8. CASE taken = response.head - 1
  <2>1. StreamLength > 0 => StreamAt(1) < Flag_Fin
    <3>1. SUFFICES ASSUME StreamLength > 0 PROVE StreamAt(1) = LF
      BY DEF LF, Flag_Fin
    <3>2. 1 \in 1..StreamLength /\ taken + 1 <= response.head /\ taken + 1 = response.head
          /\ response.head \in 1..response.head
      BY <1>5, <1>8, <3>1
    <3>3. response.head <= Len(response.bytes) /\ StreamAt(1) = response.bytes[response.head]
      BY <1>1, <1>3, <3>2 DEF StreamFollows
    <3>4. response.bytes \in Seq(Byte)
      BY <1>3, ResponseType DEF ClientInv, HandshakeInv
    <3>5. response.head \in DOMAIN response.bytes
      BY <1>5, <3>2, <3>3, <3>4
    <3>6. \E fields \in Seq(Field) : \E off \in [1..Len(fields) + 1 -> Nat] :
            HasFields(response, fields, off)
      BY <1>1, <1>2 DEF AnswerParsed
    <3> QED BY <3>3, <3>5, <3>6 DEF HasFields
  <2>2. ASSUME Dry, HeaderSent PROVE FALSE
    <3>1. Len(rx) = 0 /\ Len(wire) = 0
      BY <1>3, <2>2, Lengths DEF Dry, StreamLength
    <3>2. rx = <<>> /\ wire = <<>>
      BY <1>3, <3>1 DEF TypeOK, SocketTypeOK
    <3>3. up /\ peer = "open" /\ StreamLength = 0
      BY <2>2, <3>2 DEF Dry, Connected
    <3>4. taken + StreamLength >= response.head
      BY <1>1, <1>3, <2>2, <3>3 DEF HeaderThere
    <3> QED BY <1>5, <1>8, <3>3, <3>4
  <2>3. Dud' /\ (Dry' => ~HeaderSent')
    BY <1>1, <1>4, <1>6, <2>1, <2>2
       DEF Dud, Unfit, Untouched, AtBoundary, parserVars, Dry, Connected, HeaderSent
  <2>4. taken' # response'.head
    BY <1>1, <1>5, <1>8
  <2> QED BY <2>3, <2>4 DEF Served
<1> QED BY <1>2, <1>7, <1>8

\* While clientHandshake runs.
LEMMA HandshakeFrames ==
  ASSUME FramesInv, ClientInv', HandshakeStep, UNCHANGED webSocketVars
  PROVE  FramesInv'
<1>1. ClientInv /\ TypeOK' /\ hpc # "done" /\ HeaderAhead /\ HandshakeTypeOK
  BY HandshakeStream DEF FramesInv, ClientInv, HandshakeInv
<1>2. Untouched /\ ~Handover
  BY <1>1, AfterVerdict DEF FramesInv, ClientInv
<1>3. PICK d \in Nat : StreamCut(d) /\ taken' = taken + d /\ StreamLength' = StreamLength - d
  BY <1>1, HandshakeStream
<1>4. HeaderAhead'
  <2>1. d <= StreamLength
    BY <1>1, <1>3, Lengths, LengthsNext DEF ClientInv
  <2> QED BY <1>1, <1>3, <2>1, HeaderAheadCut, HandshakeStream DEF webSocketVars, historyVars
<1>5. Untouched' /\ FirstConnection'
  BY <1>2 DEF FramesInv, Untouched, AtBoundary, FirstConnection, webSocketVars, parserVars, historyVars
<1>6. Handover' => Served'
  <2>1. Handover' => CompareKeys
    BY <1>2 DEF HandshakeStep, SendRequest, WaitEnds, ReadNothing, StatusLine, EndOfHeader,
                HeaderName, HeaderSep, HeaderValue, Take, Return, Handover
  <2> QED BY <2>1, HandoverServed
<1> QED BY <1>4, <1>5, <1>6 DEF FramesInv

\* Once the WebSocket has taken over, it and its peer.
LEMMA FramesServed ==
  ASSUME AllLegible, FramesInv, ClientInv', Handover, [Next]_vars, ~Reconnect, clean',
         UNCHANGED handshakeVars, (\E f \in PeerFrames : PeerSends(f)) => HeaderSent
  PROVE  Served'
<1>1. TypeOK /\ TypeOK' /\ clean /\ Served
  BY DEF FramesInv, ClientInv, FirstConnection
<1>2. taken' = taken /\ response' = response /\ HeaderSent' = HeaderSent
  BY DEF handshakeVars, HeaderSent
<1>3. CASE taken = response.head
  BY <1>1, <1>2, <1>3, OrderStep DEF Served, OrderInv
<1>4. CASE taken # response.head
  <2>1. Dud /\ (Dry => Ending \/ ~HeaderSent)
    BY <1>1, <1>4 DEF Served
  <2>2. Ending \/ StreamLength # 0 \/ ~\E f \in PeerFrames : PeerSends(f)
    <3>1. ASSUME NEW f \in PeerFrames, PeerSends(f), StreamLength = 0 PROVE Dry
      BY <3>1 DEF PeerSends, PeerWrites, Dry, Connected
    <3> QED BY <2>1, <3>1
  <2>3. Dud' /\ (Dry' => Ending' \/ Dry)
    BY <1>1, <2>1, <2>2, DudKept
  <2>4. Ending => Ending'
    BY <1>1, EndingKept
  <2> QED BY <1>2, <1>4, <2>1, <2>3, <2>4 DEF Served
<1> QED BY <1>3, <1>4

LEMMA FramesAfter ==
  ASSUME OneCleanConnection, AllLegible, FramesInv, ClientInv', Handover, [Next]_vars,
         UNCHANGED handshakeVars, (\E f \in PeerFrames : PeerSends(f)) => HeaderSent
  PROVE  FramesInv'
<1>1. FirstConnection' /\ ~Reconnect /\ clean'
  BY StaysFirst DEF FramesInv, FirstConnection
<1>2. Served'
  BY <1>1, FramesServed
<1>3. hpc' = "done" /\ Handover'
  BY AfterVerdict DEF FramesInv, ClientInv, handshakeVars, Handover
<1> QED BY <1>1, <1>2, <1>3 DEF FramesInv

\* Before it has, the peer and the network move the frames that are ahead.
LEMMA FramesBefore ==
  ASSUME FramesInv, ClientInv', ~Handover, UNCHANGED handshakeVars,
         \/ \E f \in PeerFrames : HeaderSent /\ PeerSends(f)
         \/ BytesArrive \/ PeerLeaves
  PROVE  FramesInv'
<1>1. ClientInv /\ TypeOK /\ TypeOK' /\ Untouched /\ FirstConnection
  BY DEF FramesInv, ClientInv
<1>2. UNCHANGED <<parserVars, delivered, raised, clean, connections>>
  BY DEF BytesArrive, PeerLeaves, PeerSends, historyVars
<1>3. ~Handover' /\ Untouched' /\ FirstConnection'
  BY <1>1, <1>2 DEF Handover, handshakeVars, Untouched, AtBoundary, FirstConnection, parserVars
<1>4. ASSUME HeaderAhead, BytesArrive \/ PeerLeaves PROVE HeaderAhead'
  <2>1. StreamCut(0) /\ UNCHANGED <<response, taken, sent>>
    BY <1>1, <1>4, QuietStream DEF handshakeVars, BytesArrive, PeerLeaves, historyVars
  <2>2. taken' = taken + 0 /\ 0 <= StreamLength /\ 0 \in Nat
    BY <1>1, <2>1, AnswerSizes
  <2> QED BY <1>1, <1>4, <2>1, <2>2, HeaderAheadCut
<1>5. ASSUME HeaderAhead, NEW f \in PeerFrames, HeaderSent, PeerSends(f) PROVE HeaderAhead'
  <2>1. PICK off \in [1..Len(sent) + 1 -> Int] : Layout(off) /\ off[1] = response.head - taken
    BY <1>5 DEF HeaderAhead
  <2>2. PICK more \in [1..Len(sent') + 1 -> Int] :
          Layout(more)' /\ \A i \in 1..Len(sent) + 1 : more[i] = off[i]
    BY <1>1, <1>5, <2>1, SendingBrings, LayoutGrows
  <2>3. 1 \in 1..Len(sent) + 1
    BY <1>1, AnswerSizes
  <2> QED BY <1>5, <2>1, <2>2, <2>3 DEF HeaderAhead, HeaderSent, handshakeVars
<1>6. hpc' # "done" => HeaderAhead'
  BY <1>4, <1>5 DEF FramesInv, handshakeVars
<1> QED BY <1>3, <1>6 DEF FramesInv

\* The answer puts the first frame's place behind its header.
LEMMA AnswerFrames ==
  ASSUME NothingBehind, FramesInv, ClientInv', NEW r \in Responses, ServerAnswers(r),
         UNCHANGED webSocketVars
  PROVE  FramesInv'
<1>1. /\ ClientInv /\ TypeOK /\ TypeOK' /\ response = NoResponse /\ response' = r
      /\ PeerWrites(r.bytes) /\ UNCHANGED <<hpc, result, taken>>
      /\ UNCHANGED <<parserVars, delivered, raised, sent, clean, connections>>
  BY DEF FramesInv, ClientInv, ServerAnswers, webSocketVars, historyVars
<1>2. ~Handover /\ ~Handover'
  <2>1. ~Handover
    <3>1. SUFFICES ASSUME Handover PROVE FALSE
      OBVIOUS
    <3>2. state = "end_of_headers"
      BY <1>1, <3>1 DEF ClientInv, HandshakeInv, Verdict, Handover
    <3> QED BY <1>1, <3>2, HeaderParsed DEF ClientInv
  <2> QED BY <1>1, <2>1 DEF Handover
<1>3. Untouched' /\ FirstConnection'
  BY <1>1, <1>2 DEF FramesInv, Untouched, AtBoundary, FirstConnection, parserVars
<1>4. ASSUME hpc # "done" PROVE HeaderAhead'
  <2>1. sent = <<>> /\ taken = 0 /\ StreamLength = 0
    <3>1. sent = <<>> /\ taken + StreamLength <= Len(response.bytes)
      BY <1>1, <1>4 DEF FramesInv, HeaderAhead, HeaderSent
    <3>2. Len(response.bytes) = 0
      BY <1>1 DEF NoResponse
    <3> QED BY <1>1, <3>1, <3>2, AnswerSizes
  <2>2. /\ r.bytes \in Seq(Byte) /\ Len(r.bytes) \in Nat /\ r.head \in Nat
        /\ Len(r.bytes) <= r.head
    BY ResponseAssumption DEF NothingBehind
  <2>3. StreamLength' = Len(r.bytes)
    BY <1>1, <2>1, <2>2, WritesGrow DEF TypeOK
  <2>4. CASE HeaderSent'
    <3> DEFINE off == [i \in 1..1 |-> r.head]
    <3>1. off \in [1..1 -> Int] /\ off[1] = r.head
      BY <2>2
    <3> HIDE DEF off
    <3>2. sent' = <<>> /\ Len(sent') = 0 /\ StreamLength' = r.head
      BY <1>1, <2>1, <2>2, <2>3, <2>4 DEF HeaderSent
    <3>3. Layout(off)'
      BY <2>2, <3>1, <3>2 DEF Layout
    <3>4. off[1] = response'.head - taken'
      BY <1>1, <2>1, <2>2, <3>1
    <3>5. off \in [1..Len(sent') + 1 -> Int]
      BY <3>1, <3>2
    <3> QED BY <2>4, <3>3, <3>4, <3>5 DEF HeaderAhead
  <2>5. CASE ~HeaderSent'
    <3>1. taken' + StreamLength' <= Len(response'.bytes)
      BY <1>1, <2>1, <2>2, <2>3
    <3> QED BY <1>1, <2>1, <2>5, <3>1 DEF HeaderAhead
  <2> QED BY <2>4, <2>5
<1> QED BY <1>1, <1>2, <1>3, <1>4 DEF FramesInv

LEMMA FramesInvInit == OneCleanConnection /\ SessionInit => FramesInv
<1> SUFFICES ASSUME OneCleanConnection, SessionInit PROVE FramesInv
  OBVIOUS
<1>1. ClientInv /\ FirstConnection
  BY ClientInvInit, StaysFirst DEF SessionInit
<1>2. /\ sent = <<>> /\ taken = 0 /\ rx = <<>> /\ wire = <<>> /\ response = NoResponse
      /\ ~HeaderSent /\ ~Handover
  BY DEF SessionInit, Init, HandshakeInit, SocketInit, HeaderSent, Handover
<1>3. HeaderAhead
  BY <1>2 DEF HeaderAhead, StreamLength, NoResponse
<1>4. Untouched
  BY DEF SessionInit, Init, OneCleanConnection, Untouched, AtBoundary
<1> QED BY <1>1, <1>2, <1>3, <1>4 DEF FramesInv

LEMMA FramesInvStays ==
  ASSUME OneCleanConnection, AllWellFormed, NothingBehind, AllLegible,
         FramesInv, [SessionNext]_sessionVars
  PROVE  FramesInv'
<1>1. ClientInv'
  BY ClientInvStays DEF FramesInv
<1>2. CASE HandshakeStep /\ UNCHANGED webSocketVars
  BY <1>1, <1>2, HandshakeFrames
<1>3. CASE Handover /\ (ReadFrame \/ AnswerClose \/ App) /\ UNCHANGED handshakeVars
  <2>1. [Next]_vars
    BY <1>3 DEF Next
  <2>2. ~Reconnect
    BY <2>1, StaysFirst DEF FramesInv
  <2>3. sent' = sent
    BY <1>3, <2>2
       DEF App, ReadFrame, ReadByteError, ReadOpcode, ReadLength, ReadLength2, ReadLength8,
           ReadMask, ReadUnnamed, ReadPayload, SpinEmptyPayload, Overrun, GotByte, AnswerClose,
           DispatchEvents, FrameHandlerReturns, ErrorHandlerReturns, AppDisconnects,
           ReconnectFails, SendData, historyVars
  <2>4. ASSUME NEW f \in PeerFrames, PeerSends(f) PROVE FALSE
    <3>1. sent' = Append(sent, f) /\ sent \in Seq(PeerFrames)
      BY <2>4 DEF PeerSends, FramesInv, ClientInv, TypeOK, HistoryTypeOK
    <3> QED BY <2>3, <3>1
  <2> QED BY <1>1, <1>3, <2>1, <2>4, FramesAfter
<1>4. CASE \E r \in Responses : ServerAnswers(r) /\ UNCHANGED webSocketVars
  BY <1>1, <1>4, AnswerFrames
<1>5. CASE /\ \/ \E f \in PeerFrames : HeaderSent /\ PeerSends(f)
              \/ BytesArrive \/ PeerLeaves
           /\ UNCHANGED handshakeVars
  <2>1. [Next]_vars
    BY <1>5 DEF Next
  <2>2. ASSUME NEW f \in PeerFrames, PeerSends(f) PROVE HeaderSent
    <3>1. sent' = Append(sent, f) /\ sent \in Seq(PeerFrames)
      BY <2>2 DEF PeerSends, FramesInv, ClientInv, TypeOK, HistoryTypeOK
    <3>2. sent' # sent
      BY <3>1
    <3> QED BY <1>5, <3>2 DEF BytesArrive, PeerLeaves, historyVars
  <2>3. CASE Handover
    BY <1>1, <1>5, <2>1, <2>2, <2>3, FramesAfter
  <2>4. CASE ~Handover
    BY <1>1, <1>5, <2>4, FramesBefore
  <2> QED BY <2>3, <2>4
<1>6. CASE UNCHANGED sessionVars
  <2>1. UNCHANGED vars /\ UNCHANGED handshakeVars /\ [Next]_vars
    BY <1>6 DEF sessionVars
  <2>2. UNCHANGED <<up, peer, wire, rx, parserVars, delivered, raised, sent, clean, connections>>
    BY <2>1 DEF vars, socketVars, historyVars
  <2>3. ASSUME NEW f \in PeerFrames, PeerSends(f) PROVE FALSE
    <3>1. sent' = Append(sent, f) /\ sent \in Seq(PeerFrames)
      BY <2>3 DEF PeerSends, FramesInv, ClientInv, TypeOK, HistoryTypeOK
    <3> QED BY <2>2, <3>1
  <2>4. CASE Handover
    BY <1>1, <2>1, <2>3, <2>4, FramesAfter
  <2>5. CASE ~Handover
    <3>1. hpc' # "done" => HeaderAhead'
      <4>1. StreamLength' = StreamLength /\ \A off : Layout(off)' = Layout(off)
        BY <2>2 DEF StreamLength, StreamAt, Layout
      <4> QED BY <2>1, <2>2, <4>1 DEF FramesInv, HeaderAhead, HeaderSent, handshakeVars
    <3>2. ~Handover' /\ Untouched' /\ FirstConnection'
      BY <2>1, <2>2, <2>5 DEF FramesInv, Handover, handshakeVars, Untouched, AtBoundary,
                              FirstConnection, parserVars
    <3> QED BY <1>1, <3>1, <3>2 DEF FramesInv
  <2> QED BY <2>4, <2>5
<1> QED BY <1>2, <1>3, <1>4, <1>5, <1>6 DEF SessionNext, SessionPeer

\* Whatever the handshake has left in the stream, and however the answer and the
\* frames behind it are cut into pieces: the handlers are called for the server's
\* frames, each once and in order, or for none.
THEOREM SessionInOrder ==
  ASSUME OneCleanConnection, AllWellFormed, NothingBehind, AllLegible
  PROVE  SessionSpec => []FramesInOrder
<1>1. FramesInv => FramesInOrder
  <2> SUFFICES ASSUME FramesInv PROVE Len(delivered) <= Len(sent)
                                      /\ \A i \in DOMAIN delivered : delivered[i] = sent[i].event
    BY DEF FramesInOrder
  <2>1. CASE delivered = <<>>
    <3>1. Len(delivered) = 0 /\ DOMAIN delivered = {} /\ Len(sent) \in Nat
      BY <2>1, Lengths DEF FramesInv, ClientInv
    <3> QED BY <3>1
  <2>2. CASE delivered # <<>>
    BY <2>2 DEF FramesInv, Served, Dud, Untouched, InOrder
  <2> QED BY <2>1, <2>2
<1>2. FramesInv /\ [SessionNext]_sessionVars => FramesInv'
  BY FramesInvStays
<1> QED BY <1>1, <1>2, FramesInvInit, PTL DEF SessionSpec

-------------------------------------------------------------------------------
(* A server whose frames are all in order is told of an unsupported frame only *)
(* because of a line feed that the handshake has left.                         *)

\* With the whole header read no frame has been refused.
NoneRefusedInv ==
  "Error_UnsupportedFrameType" \in raised => Handover /\ taken # response.head

LEMMA NoneRefusedStays ==
  ASSUME OneCleanConnection, AllAccepted, FramesInv, FramesInv', NoneRefusedInv,
         [SessionNext]_sessionVars
  PROVE  NoneRefusedInv'
<1> SUFFICES ASSUME "Error_UnsupportedFrameType" \in raised'
             PROVE  Handover' /\ taken' # response'.head
  BY DEF NoneRefusedInv
<1>1. Handover'
  <2>1. "Error_UnsupportedFrameType" \notin {}
    OBVIOUS
  <2> QED BY <2>1 DEF FramesInv, Untouched
<1>2. CASE ~Handover
  <2>1. "Error_UnsupportedFrameType" \notin raised
    BY <1>2 DEF NoneRefusedInv
  <2>2. UNCHANGED webSocketVars \/ UNCHANGED handshakeVars
    BY <1>2 DEF SessionNext, SessionPeer, sessionVars
  <2> QED BY <1>1, <1>2, <2>1, <2>2 DEF webSocketVars, handshakeVars, Handover
<1>3. CASE Handover
  <2>1. UNCHANGED handshakeVars /\ [Next]_vars
    <3>1. ~HandshakeStep
      BY <1>3, AfterVerdict, HandshakeStream DEF FramesInv, ClientInv, HandshakeInv
    <3>2. ASSUME NEW r \in Responses, ServerAnswers(r) PROVE FALSE
      <4>1. state = "end_of_headers"
        BY <1>3 DEF FramesInv, ClientInv, HandshakeInv, Verdict, Handover
      <4>2. response # NoResponse
        BY <4>1, HeaderParsed DEF FramesInv, ClientInv
      <4> QED BY <3>2, <4>2 DEF ServerAnswers
    <3> QED BY <3>1, <3>2 DEF SessionNext, SessionPeer, sessionVars, Next
  <2>2. ~Reconnect /\ TypeOK /\ TypeOK' /\ Served
    BY <1>3, <2>1, StaysFirst DEF FramesInv, ClientInv
  <2>3. taken = response.head => "Error_UnsupportedFrameType" \in raised
    BY <2>1, <2>2, NoneRefused DEF Served
  <2> QED BY <1>1, <2>1, <2>3 DEF NoneRefusedInv, handshakeVars
<1> QED BY <1>2, <1>3

\* A frame of such a server is never refused.  What is refused is the line feed
\* that clientHandshake did not read.
THEOREM OnlyLineFeedRefused ==
  ASSUME OneCleanConnection, AllWellFormed, NothingBehind, AllAccepted
  PROVE  SessionSpec => []ErrorOnlyFromLineFeed
<1>1. FramesInv /\ NoneRefusedInv => ErrorOnlyFromLineFeed
  <2> SUFFICES ASSUME FramesInv, NoneRefusedInv, "Error_UnsupportedFrameType" \in raised
               PROVE  taken = response.head - 1
    BY DEF ErrorOnlyFromLineFeed
  <2>1. Handover /\ taken # response.head
    BY DEF NoneRefusedInv
  <2> QED BY <2>1, AfterVerdict DEF FramesInv, ClientInv
<1>2. SessionInit => NoneRefusedInv
  BY DEF SessionInit, Init, NoneRefusedInv
<1>3. FramesInv /\ FramesInv' /\ NoneRefusedInv /\ [SessionNext]_sessionVars => NoneRefusedInv'
  BY NoneRefusedStays
<1>4. FramesInv /\ [SessionNext]_sessionVars => FramesInv'
  <2>1. AllLegible
    BY AcceptedLegible
  <2> QED BY <2>1, FramesInvStays
<1> QED BY <1>1, <1>2, <1>3, <1>4, FramesInvInit, PTL DEF SessionSpec

\* What a session does not change in the verdict of its handshake.
THEOREM VerdictInSession ==
  ASSUME AllWellFormed PROVE SessionSpec => [](VerdictIsRight /\ HeaderRead)
<1>1. ClientInv => VerdictIsRight /\ HeaderRead
  BY VerdictFromInv DEF ClientInv
<1>2. ClientInv /\ [SessionNext]_sessionVars => ClientInv'
  BY ClientInvStays
<1> QED BY <1>1, <1>2, ClientInvInit, PTL DEF SessionSpec
===============================================================================
