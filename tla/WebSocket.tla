------------------------------ MODULE WebSocket -------------------------------
(***************************************************************************)
(* Class websocket::WebSocket (WebSocketClient.h, WebSocketClient.cpp):    *)
(* the frame reader run by dispatchEvents(), the frame writer behind       *)
(* sendData(), and disconnect() and error(), driven by an application      *)
(* whose handlers may call back into the object, over one Socket.          *)
(***************************************************************************)
EXTENDS Socket

CONSTANTS
  MaxFrameSize,     \* WebSocket::MaxFrameSize, 64 in the header
  MaxMessageSize,   \* WebSocket::MaxMessageSize, the size of messageBuffer_
  PeerFrames,       \* what the peer may send: records [bytes, event]
  Messages,         \* what the application may pass to sendData
  StartStates,      \* what frameState_ may hold after construction
  MaxFrames,        \* bound: frames sent by the peer on one connection
  MaxTx,            \* bound: sendData is called only while Len(tx) <= MaxTx
  MaxConnections    \* bound: connections made with the same object

VARIABLES
  frameState_, framePtr_, payloadLength_, payloadRemainingBytes_,
  messageBuffer_,   \* its MaxMessageSize places
  pc,               \* where the program is, see Control
  raised,           \* onClose/onError notifications of this connection
  delivered,        \* the frame handlers called on this connection, in order
  sent,             \* history: the frames the peer sent on this connection
  clean,            \* history: this connection began at a frame boundary
  connections       \* how many connections the object has been used for

parserVars == <<frameState_, framePtr_, payloadLength_,
                payloadRemainingBytes_, messageBuffer_>>
historyVars == <<sent, clean, connections>>
vars == <<socketVars, parserVars, pc, raised, delivered, historyVars>>

Flag_Fin == 128
Opcode_Text == 1
Opcode_Binary == 2
Opcode_Close == 8
Opcode_Ping == 9
Opcode_Pong == 10

\* "Unnamed" is any other bit pattern an uninitialised enum object may hold.
FrameStates == {"Opcode", "Length", "Length2", "Length8", "Mask", "Payload", "Unnamed"}

\* "idle": in the sketch's loop(); "reading": in readFrame's loop; "onFrame",
\* "onError": in a handler called from there; "closing": in the disconnect()
\* that answers a Close frame; "hung": spinning in a failed Assert; "overrun":
\* readByte stored a byte behind messageBuffer_, and what that destroys, and so
\* what the program does next, is not for the source to say.
Control == {"idle", "reading", "onFrame", "onError", "closing", "hung", "overrun"}

\* The application code runs: it may call any method but dispatchEvents.
AppTurn == pc \in {"idle", "onFrame", "onError"}

\* The handler readFrame calls for an opcode.
Handler == [op \in {Opcode_Text, Opcode_Binary, Opcode_Ping, Opcode_Pong} |->
              CASE op = Opcode_Text   -> "onTextFrame"
                [] op = Opcode_Binary -> "onBinaryFrame"
                [] op = Opcode_Ping   -> "onPing"
                [] op = Opcode_Pong   -> "onPong"]
Handlers == {"onTextFrame", "onBinaryFrame", "onPing", "onPong"}

NoEvent == [cb |-> "none", msg |-> <<>>]   \* the event of a frame no handler is for

\* The header's limit leaves room for the longest accepted frame header (8
\* bytes) in what the uint8_t framePtr_ can count; an array has a place.
ASSUME SizeAssumption == MaxFrameSize \in 0..247 /\ MaxMessageSize \in Nat \ {0}
ASSUME BytesAssumption == /\ \A f \in PeerFrames : f.bytes \in Seq(Byte)
                          /\ Messages \subseteq Seq(Byte)
ASSUME BoundAssumption == MaxFrames \in Nat /\ MaxTx \in Nat /\ MaxConnections \in Nat \ {0}
ASSUME StartAssumption == StartStates \subseteq FrameStates

-------------------------------------------------------------------------------
(* Values the header and the code compute. *)

Slots == 0..MaxMessageSize - 1             \* the indices of messageBuffer_

Inc8(n) == (n + 1) % 256
Dec8NoWrap(n) == n - 1                      \* fault: a counter without a width
Dec8(n) == (n + 255) % 256

Fin(b) == b >= Flag_Fin
OpcodeWithFlags(b) == b                     \* fault: the flags are not masked off
OpcodeOf(b) == b % 16
Masked(b) == b >= 128
LengthOf(b) == b % 128
Length16(hi, lo) == 256 * hi + lo

NeverTooBig(len) == FALSE                   \* fault: the limit is not checked
TooBig(len) == len > MaxFrameSize

MaskDoneLate(ptr) == ptr = 14               \* fault: one header size forgotten
\* Where framePtr_ stands when readFrame takes the masking key to be complete.
MaskDone(ptr) == ptr = 8 \/ ptr = 14

\* fault: the message is taken one byte too early
MessageEarly(buf, ptr) ==
  [i \in 1..payloadLength_ |-> buf[ptr - payloadLength_ + i - 2]]
\* The bytes from messageBuffer_ + framePtr_ - payloadLength_ on.
Message(buf, ptr) ==
  [i \in 1..payloadLength_ |-> buf[ptr - payloadLength_ + i - 1]]

\* fault: the length counts the string's terminating NUL
EncodedDataNul(str, opcode) == <<Flag_Fin + opcode, Len(str) + 1>> \o str
\* The bytes sendEncodedData writes; the low length byte of a message longer
\* than 125 is the value of (size && 0xFF).
EncodedData(str, opcode) ==
  LET size == Len(str)
      length == IF size > 125
                  THEN <<126, (size \div 256) % 256, IF size # 0 THEN 1 ELSE 0>>
                  ELSE <<size>>
  IN <<Flag_Fin + opcode>> \o length \o str

CloseFrame == <<Flag_Fin + Opcode_Close, 0>>

-------------------------------------------------------------------------------
(* error() and disconnect(). *)

\* What error(err) tells the application.
Notified(err) == CASE err = "Error_WouldBlock"   -> {}
                   [] err = "Error_Disconnected" -> {"onClose"}
                   [] OTHER                      -> {err}

\* fault: without a byte readFrame waits for one
ErrorWaits(err) ==
  /\ raised' = raised \union Notified(err)
  /\ pc' = CASE err = "Error_WouldBlock"   -> "reading"
             [] err = "Error_Disconnected" -> "idle"
             [] OTHER                      -> "onError"
\* error() from readFrame: the default branch calls onError, then disconnect().
Error(err) ==
  /\ raised' = raised \union Notified(err)
  /\ pc' = IF err \in {"Error_WouldBlock", "Error_Disconnected"} THEN "idle" ELSE "onError"

DisconnectForgets == UNCHANGED socketVars   \* fault: the socket is left open
Disconnect ==
  IF Connected THEN Write(CloseFrame) /\ Stop ELSE UNCHANGED socketVars

-------------------------------------------------------------------------------
(* readFrame: one iteration of its loop is readByte and then one case of    *)
(* the switch.  Nothing that happens between connected() and read() shows:  *)
(* a byte arriving or a peer closing there is as if it came just after.     *)

NeedsByteAlways == TRUE                     \* fault: empty payloads also read
NeedsByte == frameState_ # "Payload" \/ payloadLength_ # 0

ReadByteError ==
  /\ pc = "reading" /\ NeedsByte
  /\ ~Connected \/ rx = <<>>
  /\ Error(IF Connected THEN "Error_WouldBlock" ELSE "Error_NotConnected")
  /\ UNCHANGED <<socketVars, parserVars, delivered, historyVars>>

\* The state readByte leaves for the switch.
Buf == [messageBuffer_ EXCEPT ![framePtr_] = Head(rx)]
Ptr == Inc8(framePtr_)

GotByte(state) ==
  /\ pc = "reading" /\ NeedsByte
  /\ Connected /\ rx # <<>>
  /\ framePtr_ < MaxMessageSize
  /\ frameState_ = state
  /\ rx' = Tail(rx)
  /\ messageBuffer_' = Buf
  /\ UNCHANGED <<up, peer, wire, tx, historyVars>>

\* readByte looks at no bound before it stores the byte.  The variables keep
\* what it found: no step of the program uses them any more.
Overrun ==
  /\ pc = "reading" /\ NeedsByte
  /\ Connected /\ rx # <<>>
  /\ framePtr_ >= MaxMessageSize
  /\ pc' = "overrun"
  /\ UNCHANGED <<socketVars, parserVars, raised, delivered, historyVars>>

Continue == UNCHANGED <<pc, raised>>
Hang == pc' = "hung" /\ UNCHANGED raised    \* Assert_: while (!c) {}

\* fault: a byte that begins no frame is skipped
ReadOpcodeResyncs ==
  /\ GotByte("Opcode") /\ Continue
  /\ frameState_' = IF Fin(Buf[0]) THEN "Length" ELSE "Opcode"
  /\ framePtr_' = IF Fin(Buf[0]) THEN 1 ELSE 0
  /\ UNCHANGED <<payloadLength_, payloadRemainingBytes_, delivered>>
ReadOpcode ==
  /\ GotByte("Opcode") /\ framePtr_' = Ptr
  /\ UNCHANGED <<payloadLength_, payloadRemainingBytes_, delivered>>
  /\ \/ Ptr # 1 /\ Hang /\ UNCHANGED frameState_
     \/ /\ Ptr = 1 /\ ~Fin(Buf[0])
        /\ Error("Error_UnsupportedFrameType") /\ UNCHANGED frameState_
     \/ Ptr = 1 /\ Fin(Buf[0]) /\ frameState_' = "Length" /\ Continue

\* Both length formats end here.
HeaderComplete(len) ==
  /\ payloadRemainingBytes_' = len /\ payloadLength_' = len
  /\ frameState_' = IF Masked(Buf[1]) THEN "Mask" ELSE "Payload"
  /\ Continue

ReadLength ==
  /\ GotByte("Length") /\ framePtr_' = Ptr /\ UNCHANGED delivered
  /\ \/ /\ Ptr # 2 /\ Hang
        /\ UNCHANGED <<frameState_, payloadLength_, payloadRemainingBytes_>>
     \/ Ptr = 2 /\ LengthOf(Buf[1]) <= 125 /\ HeaderComplete(LengthOf(Buf[1]))
     \/ /\ Ptr = 2 /\ LengthOf(Buf[1]) > 125 /\ Continue
        /\ frameState_' = IF LengthOf(Buf[1]) = 126 THEN "Length2" ELSE "Length8"
        /\ UNCHANGED <<payloadLength_, payloadRemainingBytes_>>

ReadLength2 ==
  LET len == Length16(Buf[2], Buf[3])
      Keep == UNCHANGED <<frameState_, payloadLength_, payloadRemainingBytes_>>
  IN /\ GotByte("Length2") /\ framePtr_' = Ptr /\ UNCHANGED delivered
     /\ \/ Ptr \notin 3..4 /\ Hang /\ Keep
        \/ Ptr = 3 /\ Continue /\ Keep
        \/ Ptr = 4 /\ TooBig(len) /\ Error("Error_FrameTooBig") /\ Keep
        \/ Ptr = 4 /\ ~TooBig(len) /\ HeaderComplete(len)

ReadLength8 ==
  /\ GotByte("Length8") /\ framePtr_' = Ptr
  /\ UNCHANGED <<frameState_, payloadLength_, payloadRemainingBytes_, delivered>>
  /\ \/ Ptr \notin 3..10 /\ Hang
     \/ Ptr \in 3..9 /\ Continue
     \/ Ptr = 10 /\ Error("Error_FrameTooBig")

ReadMask ==
  /\ GotByte("Mask") /\ framePtr_' = Ptr /\ Continue
  /\ frameState_' = IF MaskDone(Ptr) THEN "Payload" ELSE "Mask"
  /\ UNCHANGED <<payloadLength_, payloadRemainingBytes_, delivered>>

\* No case of the switch: the byte is kept and nothing else happens.
ReadUnnamed ==
  /\ GotByte("Unnamed") /\ framePtr_' = Ptr /\ Continue
  /\ UNCHANGED <<frameState_, payloadLength_, payloadRemainingBytes_, delivered>>

NextFrame == frameState_' = "Opcode" /\ framePtr_' = 0

\* The last byte of the payload is in: the switch over the opcode.
FrameComplete(buf, ptr) ==
  LET op == OpcodeOf(buf[0])
  IN /\ NextFrame
     /\ \/ /\ op \in DOMAIN Handler
           /\ delivered' = Append(delivered, [cb |-> Handler[op], msg |-> Message(buf, ptr)])
           /\ pc' = "onFrame" /\ UNCHANGED raised
        \/ /\ op = Opcode_Close
           /\ pc' = "closing" /\ UNCHANGED <<raised, delivered>>
        \/ /\ op \notin DOMAIN Handler \union {Opcode_Close}
           /\ Error("Error_UnsupportedFrameType") /\ UNCHANGED delivered

\* case FrameState_Payload, given the buffer and framePtr_ readByte left.
PayloadStep(buf, ptr) ==
  /\ payloadRemainingBytes_' = Dec8(payloadRemainingBytes_)
  /\ UNCHANGED payloadLength_
  /\ \/ /\ payloadRemainingBytes_' # 0
        /\ framePtr_' = ptr /\ Continue /\ UNCHANGED <<frameState_, delivered>>
     \/ /\ payloadRemainingBytes_' = 0 /\ ptr <= payloadLength_
        /\ framePtr_' = ptr /\ Hang /\ UNCHANGED <<frameState_, delivered>>
     \/ /\ payloadRemainingBytes_' = 0 /\ ptr > payloadLength_
        /\ FrameComplete(buf, ptr)

ReadPayload == GotByte("Payload") /\ PayloadStep(Buf, Ptr)

\* An empty payload takes no byte: its counter runs from 0 down through 255.
SpinEmptyPayload ==
  /\ pc = "reading" /\ ~NeedsByte
  /\ PayloadStep(messageBuffer_, framePtr_)
  /\ UNCHANGED <<socketVars, messageBuffer_, historyVars>>

ReadFrame ==
  \/ ReadByteError \/ ReadOpcode \/ ReadLength \/ ReadLength2 \/ ReadLength8
  \/ ReadMask \/ ReadUnnamed \/ ReadPayload \/ SpinEmptyPayload \/ Overrun

-------------------------------------------------------------------------------
(* The rest of the object's interface, as the application uses it. *)

DispatchEvents ==
  /\ pc = "idle" /\ pc' = "reading"
  /\ UNCHANGED <<socketVars, parserVars, raised, delivered, historyVars>>

FrameHandlerReturns ==
  /\ pc = "onFrame" /\ pc' = "reading"
  /\ UNCHANGED <<socketVars, parserVars, raised, delivered, historyVars>>

\* onError is back in error(), which disconnects and lets readFrame return.
ErrorHandlerReturns ==
  /\ pc = "onError" /\ pc' = "idle"
  /\ Disconnect
  /\ UNCHANGED <<parserVars, raised, delivered, historyVars>>

\* case Opcode_Close: disconnect(), return Error_Disconnected.
AnswerClose ==
  /\ pc = "closing" /\ pc' = "idle"
  /\ Disconnect
  /\ UNCHANGED <<parserVars, raised, delivered, historyVars>>

AppDisconnects ==
  /\ AppTurn /\ Disconnect
  /\ UNCHANGED <<parserVars, pc, raised, delivered, historyVars>>

\* fault: sendData does not look whether the socket is connected
SendDataUnchecked(str, opcode) ==
  /\ AppTurn /\ Len(tx) <= MaxTx
  /\ Write(EncodedData(str, opcode))
  /\ UNCHANGED <<up, peer, wire, rx, parserVars, pc, raised, delivered, historyVars>>
\* On a dead socket error() calls onError and its disconnect() does nothing.
SendData(str, opcode) ==
  /\ AppTurn /\ Len(tx) <= MaxTx
  /\ \/ Connected /\ Write(EncodedData(str, opcode)) /\ UNCHANGED raised
     \/ /\ ~Connected
        /\ raised' = raised \union Notified("Error_NotConnected") /\ UNCHANGED tx
  /\ UNCHANGED <<up, peer, wire, rx, parserVars, pc, delivered, historyVars>>

\* The application connects the same Socket again and keeps the WebSocket, of
\* which no method resets anything.
Reconnect ==
  /\ pc = "idle" /\ connections < MaxConnections
  /\ Connect
  /\ connections' = connections + 1
  /\ raised' = {} /\ delivered' = <<>> /\ sent' = <<>>
  /\ clean' = (frameState_ = "Opcode" /\ framePtr_ = 0)
  /\ UNCHANGED <<parserVars, pc>>

ReconnectFails ==
  /\ pc = "idle" /\ ConnectFails
  /\ UNCHANGED <<parserVars, pc, raised, delivered, historyVars>>

-------------------------------------------------------------------------------
(* The peer and the network. *)

PeerSends(f) ==
  /\ Len(sent) < MaxFrames
  /\ PeerWrites(f.bytes)
  /\ sent' = Append(sent, f)
  /\ UNCHANGED <<parserVars, pc, raised, delivered, clean, connections>>

BytesArrive ==
  /\ \E k \in 1..Len(wire) : Arrive(k)
  /\ UNCHANGED <<parserVars, pc, raised, delivered, historyVars>>

PeerLeaves ==
  /\ PeerCloses \/ PeerVanishes
  /\ UNCHANGED <<parserVars, pc, raised, delivered, historyVars>>

-------------------------------------------------------------------------------

\* The constructor sets the three counters and leaves frameState_ and the
\* buffer to whatever the object's storage held; the buffer's content is
\* overwritten before it is read, so zeros stand for it.
Init ==
  /\ SocketInit
  /\ frameState_ \in StartStates
  /\ framePtr_ = 0 /\ payloadLength_ = 0 /\ payloadRemainingBytes_ = 0
  /\ messageBuffer_ = [i \in Slots |-> 0]
  /\ pc = "idle" /\ raised = {} /\ delivered = <<>>
  /\ sent = <<>> /\ connections = 1
  /\ clean = (frameState_ = "Opcode")

App ==
  \/ DispatchEvents \/ FrameHandlerReturns \/ ErrorHandlerReturns
  \/ AppDisconnects \/ Reconnect \/ ReconnectFails
  \/ \E m \in Messages : SendData(m, Opcode_Text)

Next ==
  \/ ReadFrame \/ AnswerClose \/ App
  \/ BytesArrive \/ PeerLeaves
  \/ \E f \in PeerFrames : PeerSends(f)

Spec == Init /\ [][Next]_vars

\* loop() calls dispatchEvents() for ever, the code it calls runs, handlers
\* return, and bytes in flight arrive.  The peer owes nothing.
Fairness ==
  /\ WF_vars(ReadFrame \/ AnswerClose)
  /\ WF_vars(DispatchEvents)
  /\ WF_vars(FrameHandlerReturns) /\ WF_vars(ErrorHandlerReturns)
  /\ WF_vars(BytesArrive)

FairSpec == Spec /\ Fairness
-------------------------------------------------------------------------------
(* Properties. *)

ParserTypeOK ==
  /\ frameState_ \in FrameStates
  /\ framePtr_ \in Byte /\ payloadLength_ \in Byte /\ payloadRemainingBytes_ \in Byte
  /\ messageBuffer_ \in [Slots -> Byte]

ControlTypeOK ==
  /\ pc \in Control
  /\ raised \subseteq {"onClose", "Error_NotConnected", "Error_FrameTooBig",
                       "Error_UnsupportedFrameType"}

HistoryTypeOK ==
  /\ delivered \in Seq([cb : Handlers, msg : Seq(Byte)])
  /\ sent \in Seq(PeerFrames)
  /\ clean \in BOOLEAN /\ connections \in 1..MaxConnections

\* Every variable keeps its range: the uint8_t counters of the parser wrap.
TypeOK == SocketTypeOK /\ ParserTypeOK /\ ControlTypeOK /\ HistoryTypeOK

\* Whatever bytes the peer sends, in whatever pieces, no Assert of readFrame
\* fails on a connection that the parser began at a frame boundary.
CleanStartNeverHangs == clean => pc # "hung"

\* The asserts of readFrame as the source states them: none ever fails.
AssertsHold == pc # "hung"

\* The longest payload that is not refused.
LongestPayload == IF MaxFrameSize > 125 THEN MaxFrameSize ELSE 125

\* Where payloads start: after a plain header, one with a two-byte length, and
\* after any masking key.
HeaderSizes == {2, 4, 8}

\* The parser is where its state says: framePtr_ counts the frame's bytes.  That the
\* payload of a masked frame with a one-byte length starts at 6, and the parser
\* takes it to start at 8, is in step by this; FramesInOrder tells the two apart.
InStep ==
  \/ frameState_ = "Opcode" /\ framePtr_ = 0
  \/ frameState_ = "Length" /\ framePtr_ = 1
  \/ frameState_ = "Length2" /\ framePtr_ \in 2..3
  \/ frameState_ = "Length8" /\ framePtr_ \in 2..9
  \/ /\ frameState_ = "Mask" /\ framePtr_ \in 2..7
     /\ payloadRemainingBytes_ = payloadLength_ /\ payloadLength_ <= LongestPayload
  \/ /\ frameState_ = "Payload" /\ payloadLength_ = 0
     /\ framePtr_ \in HeaderSizes
  \/ /\ frameState_ = "Payload" /\ payloadLength_ <= LongestPayload
     /\ payloadRemainingBytes_ \in 1..payloadLength_
     /\ framePtr_ - (payloadLength_ - payloadRemainingBytes_) \in HeaderSizes

\* An error stopped the parser inside a header, and the connection with it.
Stranded ==
  /\ frameState_ \in {"Opcode", "Length2", "Length8"}
  /\ pc = "onError" \/ ~Connected

Safe == pc # "hung" /\ (InStep \/ Stranded)

\* Why no assertion fails: at every moment of a connection that began at a frame
\* boundary the parser is in step with the bytes of one frame, or an error has
\* left it inside a header and the connection with it.
ParserInStep == clean => Safe

\* A frame's header, of h bytes, announces exactly the n payload bytes behind it,
\* in one of the formats readFrame takes apart as RFC 6455 means them.
HasHeader(f, h, n) ==
  /\ Len(f.bytes) = h + n
  /\ \/ h = 2 /\ f.bytes[2] = n /\ n <= 125
     \/ /\ h \in {4, 8} /\ f.bytes[2] = (IF h = 4 THEN 126 ELSE 254)
        /\ Length16(f.bytes[3], f.bytes[4]) = n /\ ~TooBig(n)

\* f.event is what the frame is for: its opcode's handler gets its payload.
Supported(f) ==
  \E h \in HeaderSizes, n \in 0..LongestPayload :
    /\ HasHeader(f, h, n)
    /\ f.event = IF OpcodeOf(f.bytes[1]) \in DOMAIN Handler
                   THEN [cb |-> Handler[OpcodeOf(f.bytes[1])],
                         msg |-> [i \in 1..n |-> f.bytes[h + i]]]
                   ELSE NoEvent

\* A frame that readFrame refuses at its header: a fragment, or too long.
Refusable(f) ==
  \/ ~Fin(f.bytes[1])
  \/ LengthOf(f.bytes[2]) = 126 /\ Len(f.bytes) >= 4 /\ TooBig(Length16(f.bytes[3], f.bytes[4]))
  \/ LengthOf(f.bytes[2]) = 127 /\ Len(f.bytes) >= 10

\* The frames for which FramesInOrder is claimed.  Frames with a masking key
\* behind a one-byte length, and what sendData makes of a long message, are not.
Legible(f) == Len(f.bytes) >= 2 /\ (Supported(f) \/ Refusable(f))

\* On such a connection the handlers are called for the peer's frames, each
\* once, in order and with its whole payload: nothing is skipped or resumed
\* across a frame boundary, and no frame after one that has no handler.
FramesInOrder ==
  clean => /\ Len(delivered) <= Len(sent)
           /\ \A i \in DOMAIN delivered : delivered[i] = sent[i].event

\* WebSocketClient.h: a frame "larger than this lib can handle" is answered with
\* Error_FrameTooBig, so on such a connection none is stored behind the buffer.
BufferBound == clean => pc # "overrun"

\* readFrame keeps a frame's header and payload in messageBuffer_, and compares
\* its length with MaxFrameSize at most: on a connection of legible frames a byte
\* is stored behind the buffer only inside a frame that is longer, header and
\* all, than the buffer - no byte of a frame that fits, and none of a frame that
\* is done with or refused.
FrameStaysInBuffer ==
  clean /\ pc = "overrun"
    => /\ Len(delivered) < Len(sent)
       /\ Len(sent[Len(delivered) + 1].bytes) > MaxMessageSize

\* Once an error was reported and control is back in loop(), the connection is
\* over: error() and the disconnect() in it left nothing to read or to write.
ErrorEndsConnection == pc = "idle" /\ raised # {} => ~Connected

\* After stop() nothing more is written to the socket, no handler is called and
\* no error but the missing connection is reported, whatever the application
\* calls, until it connects again.
NothingAfterStop ==
  [][~up /\ ~up' => /\ UNCHANGED <<tx, delivered>>
                    /\ raised' \subseteq raised \union {"Error_NotConnected"}]_vars

\* A frame that arrives behind frames that have handlers is handed to its
\* handler, unless our side stops the socket or the connection is lost: also
\* when the peer has closed its side meanwhile.
EveryFrameDelivered ==
  \A n \in 1..MaxFrames :
    (clean /\ Len(sent) >= n /\ \A i \in 1..n : sent[i].event # NoEvent)
      ~> (Len(delivered) >= n \/ ~up \/ peer = "gone")

\* Once the peer sends no more, control comes back to loop(): an empty payload's
\* turns without a byte end, and a frame that stopped half-way is not waited for.
ControlReturns == [](Len(sent) = MaxFrames => <>(pc = "idle"))
===============================================================================
