--------------------------- MODULE WebSocketProofs ----------------------------
(***************************************************************************)
(* Theorems about WebSocket, for every value of its constants: every peer, *)
(* every frame and message size the counters can hold, every number of     *)
(* frames and connections.                                                 *)
(* The first half is about the parser and the control around it.  The      *)
(* second is FramesInOrder, for every number of frames in any pieces.  Its *)
(* invariant relates three things: the bytes that are on their way, those  *)
(* in messageBuffer_, and the parser's state, to the frames that the peer  *)
(* has sent.  `off' gives the place of every frame in the stream: its      *)
(* byte j is byte off[i] + j of what has not been read yet, and the frame  *)
(* that is being read starts framePtr_ bytes before the stream.            *)
(* From the same invariant: reader, writer, application and network        *)
(* together implement FrameChannel.                                        *)
(***************************************************************************)
EXTENDS WebSocket, WebSocketChannel, SocketProofs

-------------------------------------------------------------------------------
(* Type correctness. *)

\* The values the reader and the writer compute from bytes are bytes again.
LEMMA ByteArithmetic ==
  /\ \A n \in Byte : Inc8(n) \in Byte /\ Dec8(n) \in Byte
  /\ \A b \in Byte : LengthOf(b) \in 0..127 /\ OpcodeOf(b) \in 0..15
  /\ \A hi, lo \in Byte : Length16(hi, lo) \in Nat
  BY DEF Byte, Inc8, Dec8, LengthOf, OpcodeOf, Length16

\* What the writer puts on the wire is a sequence of bytes.
LEMMA EncodedBytes ==
  /\ CloseFrame \in Seq(Byte)
  /\ \A m \in Seq(Byte) : EncodedData(m, Opcode_Text) \in Seq(Byte)
<1>1. CloseFrame \in Seq(Byte)
  BY DEF CloseFrame, Flag_Fin, Opcode_Close, Byte
<1>2. ASSUME NEW m \in Seq(Byte)
      PROVE  EncodedData(m, Opcode_Text) \in Seq(Byte)
  <2> DEFINE size == Len(m)
             length == IF size > 125
                         THEN <<126, (size \div 256) % 256, IF size # 0 THEN 1 ELSE 0>>
                         ELSE <<size>>
  <2>1. size \in Nat
    OBVIOUS
  <2>2. length \in Seq(Byte)
    <3>1. CASE size > 125
      <4>1. \A n \in Nat : n \div 256 \in Nat /\ n % 256 \in Byte
        BY DEF Byte
      <4> HIDE DEF size
      <4>2. (size \div 256) % 256 \in Byte
        BY <2>1, <4>1
      <4>3. length = <<126, (size \div 256) % 256, IF size # 0 THEN 1 ELSE 0>>
        BY <3>1
      <4> HIDE DEF length
      <4> QED BY <4>2, <4>3 DEF Byte
    <3>2. CASE ~(size > 125)
      <4>1. length = <<size>>
        BY <3>2
      <4> HIDE DEF length, size
      <4> QED BY <2>1, <3>2, <4>1 DEF Byte
    <3> QED BY <3>1, <3>2
  <2>3. <<Flag_Fin + Opcode_Text>> \in Seq(Byte)
    BY DEF Flag_Fin, Opcode_Text, Byte
  <2>4. EncodedData(m, Opcode_Text) = <<Flag_Fin + Opcode_Text>> \o length \o m
    BY DEF EncodedData
  <2> HIDE DEF length
  <2> QED BY <2>2, <2>3, <2>4
<1> QED BY <1>1, <1>2

\* The constructor leaves every variable in its range, whatever the storage of
\* frameState_ held.
LEMMA InitType == Init => TypeOK
  BY StartAssumption, BoundAssumption
     DEF Init, TypeOK, SocketInit, SocketTypeOK, ParserTypeOK, ControlTypeOK,
         HistoryTypeOK, Byte, Slots, Control

\* disconnect() in any state and a connect() that fails leave the socket's
\* variables in their ranges.
LEMMA DisconnectType == SocketTypeOK /\ (Disconnect \/ ConnectFails) => SocketTypeOK'
<1> SUFFICES ASSUME SocketTypeOK, Disconnect \/ ConnectFails
             PROVE  SocketTypeOK'
  OBVIOUS
<1>3. CASE ConnectFails
  <2>1. wire' = <<>> /\ rx' = <<>> /\ up' = FALSE /\ UNCHANGED <<peer, tx>>
    BY <1>3 DEF ConnectFails, Stop
  <2>2. wire' \in Seq(Byte) /\ rx' \in Seq(Byte)
    BY <2>1
  <2> QED BY <2>1, <2>2 DEF SocketTypeOK
<1> SUFFICES ASSUME Disconnect
             PROVE  SocketTypeOK'
  BY <1>3
<1>1. CASE Connected
  <2>1. tx' = tx \o CloseFrame /\ wire' = <<>> /\ rx' = <<>> /\ up' = FALSE /\ peer' = peer
    BY <1>1 DEF Disconnect, Write, Stop
  <2>2. tx' \in Seq(Byte)
    BY <2>1, EncodedBytes DEF SocketTypeOK
  <2>3. wire' \in Seq(Byte) /\ rx' \in Seq(Byte)
    BY <2>1
  <2>4. up' \in BOOLEAN /\ peer' \in {"open", "closed", "gone"}
    BY <2>1 DEF SocketTypeOK
  <2> QED BY <2>2, <2>3, <2>4 DEF SocketTypeOK
<1>2. CASE ~Connected
  BY <1>2 DEF SocketTypeOK, Disconnect, socketVars
<1> QED BY <1>1, <1>2

\* Reading a byte into the buffer keeps the ranges, and leaves the switch a
\* byte in the header's places and a framePtr_ that has wrapped if it had to.
LEMMA GotByteType ==
  ASSUME NEW state, TypeOK, GotByte(state)
  PROVE  /\ SocketTypeOK'
         /\ messageBuffer_' \in [Slots -> Byte]
         /\ Buf \in [Slots -> Byte] /\ Ptr \in Byte
         /\ Ptr <= MaxMessageSize /\ \A j \in Byte : j < Ptr => Buf[j] \in Byte
<1> USE DEF TypeOK, ParserTypeOK, SocketTypeOK
<1>1. Head(rx) \in Byte /\ rx' \in Seq(Byte)
  BY DEF GotByte
<1>2. Buf \in [Slots -> Byte]
  BY <1>1 DEF Buf
<1>3. Ptr \in Byte
  BY ByteArithmetic DEF Ptr
<1>4. Ptr <= MaxMessageSize /\ \A j \in Byte : j < Ptr => Buf[j] \in Byte
  <2>1. framePtr_ \in 0..255 /\ framePtr_ < MaxMessageSize /\ MaxMessageSize \in Nat
    BY SizeAssumption DEF GotByte, Byte
  <2>2. Ptr \in 0..framePtr_ + 1
    BY <2>1 DEF Ptr, Inc8
  <2>3. Ptr <= MaxMessageSize /\ \A j \in Byte : j < Ptr => j \in Slots
    BY <2>1, <2>2 DEF Byte, Slots
  <2> QED BY <1>2, <2>3
<1> QED BY <1>1, <1>2, <1>3, <1>4 DEF GotByte

\* What error() may add to the notifications, and where it leaves control.
LEMMA ErrorType ==
  ASSUME ControlTypeOK,
         NEW err \in {"Error_WouldBlock", "Error_NotConnected", "Error_FrameTooBig",
                      "Error_UnsupportedFrameType"},
         Error(err)
  PROVE  ControlTypeOK'
  BY DEF Error, Notified, ControlTypeOK, Control

\* Which payload lengths are bytes, and which places of a message the buffer has.
LEMMA IndexArithmetic ==
  /\ 0 \in Byte /\ 1 \in Byte /\ 2 \in Byte /\ 3 \in Byte
  /\ \A n \in Byte : n \in Nat
  /\ \A n \in Nat : n <= 125 \/ n <= MaxFrameSize => n \in Byte
  /\ \A p, n \in Byte : p > n /\ p <= MaxMessageSize
       => \A i \in 1..n : p - n + i - 1 \in Slots
<1>1. /\ 0 \in Byte /\ 1 \in Byte /\ 2 \in Byte /\ 3 \in Byte
      /\ \A n \in Byte : n \in Nat
  BY DEF Byte
<1>3. \A n \in Nat : n <= 125 \/ n <= MaxFrameSize => n \in Byte
  BY SizeAssumption DEF Byte
<1>2. ASSUME NEW p \in Byte, NEW n \in Byte, p > n, p <= MaxMessageSize, NEW i \in 1..n
      PROVE  p - n + i - 1 \in Slots
  <2>1. /\ p \in Int /\ n \in Int /\ i \in Int /\ 0 <= n /\ 1 <= i /\ i <= n
        /\ MaxMessageSize \in Nat
    BY SizeAssumption DEF Byte
  <2>2. p - n + i - 1 \in Int /\ 0 <= p - n + i - 1 /\ p - n + i - 1 <= MaxMessageSize - 1
    BY <1>2, <2>1
  <2> QED BY <2>1, <2>2 DEF Slots
<1> QED BY <1>1, <1>2, <1>3

\* The message handed to a handler is a sequence of bytes of the buffer: the
\* assertion before it keeps its first index from wrapping below zero.
LEMMA MessageType ==
  ASSUME NEW buf \in [Slots -> Byte], NEW ptr \in Byte,
         payloadLength_ \in Byte, ptr > payloadLength_,
         ptr <= MaxMessageSize \/ payloadLength_ = 0
  PROVE  Message(buf, ptr) \in Seq(Byte)
<1>1. \A i \in 1..payloadLength_ : ptr - payloadLength_ + i - 1 \in Slots
  BY IndexArithmetic
<1>2. \A i \in 1..payloadLength_ : buf[ptr - payloadLength_ + i - 1] \in Byte
  BY <1>1
<1>3. Message(buf, ptr) \in [1..payloadLength_ -> Byte]
  BY <1>2 DEF Message
<1>4. payloadLength_ \in Nat
  BY IndexArithmetic
<1> QED BY <1>3, <1>4

\* A header that is complete sets the two counters and the next state in range.
LEMMA HeaderCompleteType ==
  ASSUME TypeOK, NEW len \in Byte, HeaderComplete(len)
  PROVE  /\ payloadRemainingBytes_' \in Byte /\ payloadLength_' \in Byte
         /\ frameState_' \in FrameStates /\ ControlTypeOK'
  BY DEF HeaderComplete, Continue, TypeOK, ControlTypeOK, FrameStates

\* One pass of the payload case, whichever way its byte came.
LEMMA PayloadStepType ==
  ASSUME TypeOK, NEW buf \in [Slots -> Byte], NEW ptr \in Byte, PayloadStep(buf, ptr),
         ptr <= MaxMessageSize \/ payloadLength_ = 0
  PROVE  /\ frameState_' \in FrameStates /\ framePtr_' \in Byte
         /\ payloadLength_' \in Byte /\ payloadRemainingBytes_' \in Byte
         /\ ControlTypeOK'
         /\ delivered' \in Seq([cb : Handlers, msg : Seq(Byte)])
<1> USE DEF TypeOK, ParserTypeOK, ControlTypeOK, HistoryTypeOK
<1>1. payloadLength_' \in Byte /\ payloadRemainingBytes_' \in Byte
  BY ByteArithmetic DEF PayloadStep
<1>2. CASE frameState_' = frameState_ /\ framePtr_' = ptr /\ UNCHANGED delivered
           /\ (Continue \/ Hang)
  BY <1>1, <1>2 DEF Continue, Hang, Control
<1>3. CASE ptr > payloadLength_ /\ FrameComplete(buf, ptr)
  <2>1. frameState_' \in FrameStates /\ framePtr_' \in Byte
    BY <1>3, IndexArithmetic DEF FrameComplete, NextFrame, FrameStates
  <2>2. Message(buf, ptr) \in Seq(Byte)
    BY <1>3, MessageType
  <2>3. \A op \in DOMAIN Handler : Handler[op] \in Handlers
    BY DEF Handler, Handlers, Opcode_Text, Opcode_Binary, Opcode_Ping, Opcode_Pong
  <2>4. delivered' \in Seq([cb : Handlers, msg : Seq(Byte)])
    <3>1. CASE UNCHANGED delivered
      BY <3>1
    <3>2. ASSUME NEW op \in DOMAIN Handler,
                 delivered' = Append(delivered, [cb |-> Handler[op], msg |-> Message(buf, ptr)])
          PROVE  delivered' \in Seq([cb : Handlers, msg : Seq(Byte)])
      <4>1. [cb |-> Handler[op], msg |-> Message(buf, ptr)] \in [cb : Handlers, msg : Seq(Byte)]
        BY <2>2, <2>3
      <4> QED BY <3>2, <4>1
    <3> QED BY <1>3, <3>1, <3>2 DEF FrameComplete
  <2>5. ControlTypeOK'
    <3>1. CASE Error("Error_UnsupportedFrameType")
      BY <3>1, ErrorType
    <3>2. CASE pc' \in {"onFrame", "closing"} /\ UNCHANGED raised
      BY <3>2 DEF Control
    <3> QED BY <1>3, <3>1, <3>2 DEF FrameComplete
  <2> QED BY <1>1, <2>1, <2>4, <2>5
<1> QED BY <1>2, <1>3 DEF PayloadStep, Continue, Hang

\* Every iteration of readFrame's loop keeps the ranges.
LEMMA ReadFrameType == TypeOK /\ ReadFrame => TypeOK'
<1> SUFFICES ASSUME TypeOK, ReadFrame
             PROVE  TypeOK'
  OBVIOUS
<1> USE DEF TypeOK
<1>1. CASE ReadByteError
  <2>1. ControlTypeOK'
    BY <1>1, ErrorType DEF ReadByteError
  <2> QED
    BY <1>1, <2>1 DEF ReadByteError, socketVars, parserVars, historyVars, SocketTypeOK,
                      ParserTypeOK, HistoryTypeOK
<1>2. CASE ReadOpcode
  <2>1. SocketTypeOK' /\ messageBuffer_' \in [Slots -> Byte] /\ Ptr \in Byte
    BY <1>2, GotByteType DEF ReadOpcode
  <2>2. HistoryTypeOK'
    BY <1>2 DEF ReadOpcode, GotByte, historyVars, HistoryTypeOK
  <2>3. frameState_' \in FrameStates
    BY <1>2 DEF ReadOpcode, FrameStates, ParserTypeOK
  <2>4. ControlTypeOK'
    BY <1>2, ErrorType DEF ReadOpcode, Hang, Continue, ControlTypeOK, Control
  <2> QED BY <1>2, <2>1, <2>2, <2>3, <2>4 DEF ReadOpcode, ParserTypeOK
<1>3. CASE ReadLength
  <2>1. /\ SocketTypeOK' /\ messageBuffer_' \in [Slots -> Byte] /\ Ptr \in Byte
        /\ Ptr = 2 => LengthOf(Buf[1]) \in 0..127
    <3>1. Ptr = 2 => Buf[1] \in Byte
      BY <1>3, GotByteType, IndexArithmetic DEF ReadLength
    <3> QED BY <1>3, <3>1, GotByteType, ByteArithmetic DEF ReadLength
  <2>2. HistoryTypeOK'
    BY <1>3 DEF ReadLength, GotByte, historyVars, HistoryTypeOK
  <2>3. CASE UNCHANGED <<payloadLength_, payloadRemainingBytes_>>
    <3>1. frameState_' \in FrameStates
      BY <1>3, <2>3 DEF ReadLength, HeaderComplete, FrameStates, ParserTypeOK
    <3>2. ControlTypeOK'
      BY <1>3, <2>3 DEF ReadLength, HeaderComplete, Hang, Continue, ControlTypeOK, Control
    <3> QED BY <1>3, <2>1, <2>2, <2>3, <3>1, <3>2 DEF ReadLength, ParserTypeOK
  <2>4. CASE Ptr = 2 /\ LengthOf(Buf[1]) <= 125 /\ HeaderComplete(LengthOf(Buf[1]))
    <3>1. LengthOf(Buf[1]) \in Byte
      BY <2>1, <2>4, IndexArithmetic
    <3>2. /\ payloadRemainingBytes_' \in Byte /\ payloadLength_' \in Byte
          /\ frameState_' \in FrameStates /\ ControlTypeOK'
      BY <2>4, <3>1, HeaderCompleteType
    <3> QED BY <1>3, <2>1, <2>2, <3>2 DEF ReadLength, ParserTypeOK
  <2> QED BY <1>3, <2>3, <2>4 DEF ReadLength
<1>4. CASE ReadLength2
  <2> DEFINE len == Length16(Buf[2], Buf[3])
  <2>1. /\ SocketTypeOK' /\ messageBuffer_' \in [Slots -> Byte] /\ Ptr \in Byte
        /\ Ptr = 4 => len \in Nat
    <3>1. Ptr = 4 => Buf[2] \in Byte /\ Buf[3] \in Byte
      BY <1>4, GotByteType, IndexArithmetic DEF ReadLength2
    <3> QED BY <1>4, <3>1, GotByteType, ByteArithmetic DEF ReadLength2
  <2>2. HistoryTypeOK'
    BY <1>4 DEF ReadLength2, GotByte, historyVars, HistoryTypeOK
  <2>3. CASE UNCHANGED <<frameState_, payloadLength_, payloadRemainingBytes_>>
             /\ (Hang \/ Continue \/ Error("Error_FrameTooBig"))
    <3>1. ControlTypeOK'
      BY <2>3, ErrorType DEF Hang, Continue, ControlTypeOK, Control
    <3> QED BY <1>4, <2>1, <2>2, <2>3, <3>1 DEF ReadLength2, ParserTypeOK
  <2>4. CASE Ptr = 4 /\ ~TooBig(len) /\ HeaderComplete(len)
    <3>1. len \in Byte
      BY <2>1, <2>4, SizeAssumption, IndexArithmetic DEF TooBig
    <3>2. /\ payloadRemainingBytes_' \in Byte /\ payloadLength_' \in Byte
          /\ frameState_' \in FrameStates /\ ControlTypeOK'
      BY <2>4, <3>1, HeaderCompleteType
    <3> QED BY <1>4, <2>1, <2>2, <3>2 DEF ReadLength2, ParserTypeOK
  <2> QED BY <1>4, <2>3, <2>4 DEF ReadLength2
<1>5. CASE ReadLength8
  <2>1. SocketTypeOK' /\ messageBuffer_' \in [Slots -> Byte] /\ Ptr \in Byte
    BY <1>5, GotByteType DEF ReadLength8
  <2>2. HistoryTypeOK'
    BY <1>5 DEF ReadLength8, GotByte, historyVars, HistoryTypeOK
  <2>3. ControlTypeOK'
    BY <1>5, ErrorType DEF ReadLength8, Hang, Continue, ControlTypeOK, Control
  <2> QED BY <1>5, <2>1, <2>2, <2>3 DEF ReadLength8, ParserTypeOK
<1>6. CASE ReadMask \/ ReadUnnamed
  <2>1. SocketTypeOK' /\ messageBuffer_' \in [Slots -> Byte] /\ Ptr \in Byte
    BY <1>6, GotByteType DEF ReadMask, ReadUnnamed
  <2>2. HistoryTypeOK' /\ ControlTypeOK'
    BY <1>6 DEF ReadMask, ReadUnnamed, GotByte, historyVars, HistoryTypeOK, ControlTypeOK, Continue
  <2> QED BY <1>6, <2>1, <2>2 DEF ReadMask, ReadUnnamed, ParserTypeOK, FrameStates
<1>7. CASE ReadPayload
  <2>1. /\ SocketTypeOK' /\ messageBuffer_' \in [Slots -> Byte]
        /\ Buf \in [Slots -> Byte] /\ Ptr \in Byte /\ Ptr <= MaxMessageSize
    BY <1>7, GotByteType DEF ReadPayload
  <2>2. PayloadStep(Buf, Ptr)
    BY <1>7 DEF ReadPayload
  <2>3. /\ frameState_' \in FrameStates /\ framePtr_' \in Byte
        /\ payloadLength_' \in Byte /\ payloadRemainingBytes_' \in Byte
        /\ ControlTypeOK'
        /\ delivered' \in Seq([cb : Handlers, msg : Seq(Byte)])
    BY <2>1, <2>2, PayloadStepType
  <2> QED BY <1>7, <2>1, <2>3 DEF ReadPayload, GotByte, historyVars, ParserTypeOK, HistoryTypeOK
<1>8. CASE SpinEmptyPayload
  <2>1. messageBuffer_ \in [Slots -> Byte] /\ framePtr_ \in Byte
    BY DEF ParserTypeOK
  <2>2. PayloadStep(messageBuffer_, framePtr_) /\ payloadLength_ = 0
    BY <1>8 DEF SpinEmptyPayload, NeedsByte
  <2>3. /\ frameState_' \in FrameStates /\ framePtr_' \in Byte
        /\ payloadLength_' \in Byte /\ payloadRemainingBytes_' \in Byte
        /\ ControlTypeOK'
        /\ delivered' \in Seq([cb : Handlers, msg : Seq(Byte)])
    BY <2>1, <2>2, PayloadStepType
  <2> QED BY <1>8, <2>1, <2>3 DEF SpinEmptyPayload, socketVars, historyVars, SocketTypeOK,
                                  ParserTypeOK, HistoryTypeOK
<1>9. CASE Overrun
  BY <1>9 DEF Overrun, socketVars, parserVars, historyVars, SocketTypeOK, ParserTypeOK,
              ControlTypeOK, HistoryTypeOK, Control
<1> QED BY <1>1, <1>2, <1>3, <1>4, <1>5, <1>6, <1>7, <1>8, <1>9 DEF ReadFrame

\* So do the application's calls and what the program does between its loops.
LEMMA AppType == TypeOK /\ (App \/ AnswerClose) => TypeOK'
<1> SUFFICES ASSUME TypeOK, App \/ AnswerClose
             PROVE  TypeOK'
  OBVIOUS
<1> USE DEF TypeOK
<1>1. CASE DispatchEvents \/ FrameHandlerReturns
  BY <1>1 DEF DispatchEvents, FrameHandlerReturns, socketVars, parserVars, historyVars,
              SocketTypeOK, ParserTypeOK, HistoryTypeOK, ControlTypeOK, Control
<1>2. CASE ErrorHandlerReturns \/ AnswerClose \/ AppDisconnects \/ ReconnectFails
  <2>1. (Disconnect \/ ConnectFails) /\ UNCHANGED <<parserVars, raised, delivered, historyVars>>
        /\ pc' \in {"idle", pc}
    BY <1>2 DEF ErrorHandlerReturns, AnswerClose, AppDisconnects,
                ReconnectFails
  <2>2. SocketTypeOK'
    BY <2>1, DisconnectType
  <2> QED BY <2>1, <2>2 DEF parserVars, historyVars, ParserTypeOK, HistoryTypeOK,
                            ControlTypeOK, Control
<1>3. CASE Reconnect
  <2>1. SocketTypeOK'
    BY <1>3 DEF Reconnect, Connect, SocketTypeOK
  <2>2. ParserTypeOK' /\ ControlTypeOK'
    BY <1>3 DEF Reconnect, parserVars, ParserTypeOK, ControlTypeOK
  <2>3. connections' \in 1..MaxConnections
    BY <1>3, BoundAssumption DEF Reconnect, HistoryTypeOK
  <2>4. HistoryTypeOK'
    BY <1>3, <2>3 DEF Reconnect, HistoryTypeOK
  <2> QED BY <2>1, <2>2, <2>4
<1>4. ASSUME NEW m \in Messages, SendData(m, Opcode_Text)
      PROVE  TypeOK'
  <2>1. EncodedData(m, Opcode_Text) \in Seq(Byte)
    BY BytesAssumption, EncodedBytes
  <2>2. tx' \in Seq(Byte)
    <3>1. tx' = tx \o EncodedData(m, Opcode_Text) \/ tx' = tx
      BY <1>4 DEF SendData, Write
    <3>2. tx \in Seq(Byte)
      BY DEF SocketTypeOK
    <3>3. tx \o EncodedData(m, Opcode_Text) \in Seq(Byte)
      BY <2>1, <3>2
    <3> QED BY <3>1, <3>2, <3>3
  <2>3. ControlTypeOK'
    BY <1>4 DEF SendData, Notified, ControlTypeOK
  <2> QED BY <1>4, <2>2, <2>3 DEF SendData, parserVars, historyVars, SocketTypeOK,
                                  ParserTypeOK, HistoryTypeOK
<1> QED BY <1>1, <1>2, <1>3, <1>4 DEF App

\* And so do the network and the peer.
LEMMA EnvironmentType ==
  TypeOK /\ (BytesArrive \/ PeerLeaves \/ \E f \in PeerFrames : PeerSends(f)) => TypeOK'
<1> SUFFICES ASSUME TypeOK, BytesArrive \/ PeerLeaves \/ \E f \in PeerFrames : PeerSends(f)
             PROVE  TypeOK'
  OBVIOUS
<1> USE DEF TypeOK
<1>1. CASE BytesArrive
  <2>1. PICK k \in 1..Len(wire) : Arrive(k)
    BY <1>1 DEF BytesArrive
  <2>2. SubSeq(wire, 1, k) \in Seq(Byte) /\ SubSeq(wire, k + 1, Len(wire)) \in Seq(Byte)
    BY DEF SocketTypeOK
  <2>3. SocketTypeOK'
    BY <2>1, <2>2 DEF Arrive, SocketTypeOK
  <2> QED BY <1>1, <2>3 DEF BytesArrive, parserVars, historyVars, ParserTypeOK, ControlTypeOK,
                            HistoryTypeOK
<1>2. CASE PeerLeaves
  <2>1. ASSUME PeerCloses PROVE SocketTypeOK'
    BY <2>1 DEF PeerCloses, SocketTypeOK
  <2>2. ASSUME PeerVanishes PROVE SocketTypeOK'
    <3>1. <<>> \in Seq(Byte)
      OBVIOUS
    <3>2. wire' \in Seq(Byte) /\ rx' \in Seq(Byte)
      BY <2>2, <3>1 DEF PeerVanishes, SocketTypeOK
    <3> QED BY <2>2, <3>2 DEF PeerVanishes, SocketTypeOK
  <2>3. SocketTypeOK'
    BY <1>2, <2>1, <2>2 DEF PeerLeaves
  <2> QED BY <1>2, <2>3 DEF PeerLeaves, parserVars, historyVars, ParserTypeOK, ControlTypeOK,
                            HistoryTypeOK
<1>3. ASSUME NEW f \in PeerFrames, PeerSends(f)
      PROVE  TypeOK'
  <2>1. f.bytes \in Seq(Byte)
    BY BytesAssumption
  <2>2. SocketTypeOK' /\ sent' \in Seq(PeerFrames)
    BY <1>3, <2>1 DEF PeerSends, PeerWrites, SocketTypeOK, HistoryTypeOK
  <2> QED BY <1>3, <2>2 DEF PeerSends, parserVars, ParserTypeOK, ControlTypeOK, HistoryTypeOK
<1> QED BY <1>1, <1>2, <1>3

\* Every step of the program and of its environment keeps the ranges.
LEMMA StepType == TypeOK /\ [Next]_vars => TypeOK'
<1>1. TypeOK /\ UNCHANGED vars => TypeOK'
  BY DEF vars, socketVars, parserVars, historyVars, TypeOK, SocketTypeOK, ParserTypeOK,
         ControlTypeOK, HistoryTypeOK
<1> QED BY <1>1, ReadFrameType, AppType, EnvironmentType DEF Next

\* No step takes a variable out of its range, whatever bytes the peer sends.
THEOREM TypeCorrect == Spec => []TypeOK
<1> QED BY InitType, StepType, PTL DEF Spec

-------------------------------------------------------------------------------
(***************************************************************************)
(* No assertion fails.  That is not inductive: why the asserted bound on   *)
(* framePtr_ holds depends on how far into which header the parser is, and *)
(* on nothing being read any more once an error has left it in between.    *)
(***************************************************************************)

IInv == TypeOK /\ ParserInStep

\* Away from their limits the uint8_t counters count; the longest payload that
\* is not refused leaves them room for the longest header.
LEMMA CounterArithmetic ==
  /\ \A n \in 0..254 : Inc8(n) = n + 1
  /\ \A n \in 1..255 : Dec8(n) = n - 1
  /\ LongestPayload \in 125..247
<1>1. \A n \in 0..254 : Inc8(n) = n + 1
  BY DEF Inc8
<1>2. \A n \in 1..255 : Dec8(n) = n - 1
  BY DEF Dec8
<1>3. LongestPayload \in 125..247
  BY SizeAssumption DEF LongestPayload
<1> QED BY <1>1, <1>2, <1>3

\* A byte is read only on a live connection: the parser is in step.
LEMMA GotByteInStep ==
  ASSUME Safe, NEW state, GotByte(state)
  PROVE  InStep /\ frameState_ = state /\ pc = "reading"
  BY DEF Safe, GotByte, Stranded

\* The end of a header starts a payload, or the masking key before it.
LEMMA HeaderCompleteSafe ==
  ASSUME NEW len \in 0..LongestPayload, HeaderComplete(len), pc = "reading",
         framePtr_' \in {2, 4}
  PROVE  Safe'
<1>1. LongestPayload \in Nat
  BY CounterArithmetic
<1>2. pc' # "hung"
  BY DEF HeaderComplete, Continue
<1>3. CASE frameState_' = "Mask"
  BY <1>1, <1>2, <1>3 DEF HeaderComplete, Safe, InStep
<1>4. CASE frameState_' = "Payload"
  <2>1. payloadRemainingBytes_' = len /\ payloadLength_' = len
    BY DEF HeaderComplete
  <2>2. CASE len = 0
    BY <1>2, <1>4, <2>1, <2>2 DEF Safe, InStep, HeaderSizes
  <2>3. CASE len # 0
    <3>0. len \in Nat /\ len <= LongestPayload
      BY <1>1
    <3>1. len \in 1..len /\ len - len = 0
      BY <2>3, <3>0
    <3>2. framePtr_' - 0 \in HeaderSizes
      BY DEF HeaderSizes
    <3> QED BY <1>2, <1>4, <2>1, <3>0, <3>1, <3>2 DEF Safe, InStep
  <2> QED BY <2>2, <2>3
<1> QED BY <1>3, <1>4 DEF HeaderComplete

\* A frame that is complete leaves the parser at the start of the next one.
LEMMA FrameCompleteSafe ==
  ASSUME NEW buf, NEW ptr, FrameComplete(buf, ptr), pc = "reading"
  PROVE  Safe'
<1>1. frameState_' = "Opcode" /\ framePtr_' = 0
  BY DEF FrameComplete, NextFrame
<1>2. pc' # "hung"
  BY DEF FrameComplete, Error
<1> QED BY <1>1, <1>2 DEF Safe, InStep

\* One iteration of readFrame's loop keeps the parser in step or ends the
\* connection, and passes its assertions.
LEMMA ReadFrameSafe == TypeOK /\ Safe /\ ReadFrame => Safe'
<1> SUFFICES ASSUME TypeOK, Safe, ReadFrame
             PROVE  Safe'
  OBVIOUS
<1>1. CASE ReadByteError
  <2>1. UNCHANGED <<frameState_, framePtr_, payloadLength_, payloadRemainingBytes_>>
        /\ Connected' = Connected /\ pc = "reading"
    BY <1>1 DEF ReadByteError, parserVars, socketVars, Connected
  <2>2. pc' \in {"idle", "onError"}
    BY <1>1 DEF ReadByteError, Error
  <2>3. InStep => InStep'
    BY <2>1 DEF InStep, Connected
  <2>4. Stranded => Stranded'
    BY <2>1 DEF Stranded
  <2> QED BY <2>2, <2>3, <2>4 DEF Safe
<1>2. CASE ReadOpcode
  <2>1. framePtr_ = 0 /\ Ptr = 1
    BY <1>2, GotByteInStep, CounterArithmetic DEF ReadOpcode, InStep, Ptr
  <2>2. CASE Error("Error_UnsupportedFrameType")
    <3>1. pc' = "onError"
      BY <2>2 DEF Error
    <3>2. frameState_' = "Opcode"
      BY <1>2, <3>1, GotByteInStep DEF ReadOpcode, Continue
    <3> QED BY <3>1, <3>2 DEF Safe, Stranded
  <2>3. CASE frameState_' = "Length" /\ Continue
    BY <1>2, <2>1, <2>3, GotByteInStep DEF ReadOpcode, Continue, Safe, InStep
  <2> QED BY <1>2, <2>1, <2>2, <2>3 DEF ReadOpcode
<1>3. CASE ReadLength
  <2>1. framePtr_ = 1 /\ Ptr = 2 /\ pc = "reading"
    BY <1>3, GotByteInStep, CounterArithmetic DEF ReadLength, InStep, Ptr
  <2>2. CASE LengthOf(Buf[1]) <= 125 /\ HeaderComplete(LengthOf(Buf[1]))
    <3>1. Buf[1] \in Byte
      BY <1>3, <2>1, GotByteType, IndexArithmetic DEF ReadLength
    <3>2. LengthOf(Buf[1]) \in 0..LongestPayload
      <4>1. LengthOf(Buf[1]) \in 0..127
        BY <3>1, ByteArithmetic
      <4> QED BY <2>2, <4>1, CounterArithmetic
    <3> QED BY <1>3, <2>1, <2>2, <3>2, HeaderCompleteSafe DEF ReadLength
  <2>3. CASE frameState_' \in {"Length2", "Length8"} /\ Continue
    BY <1>3, <2>1, <2>3 DEF ReadLength, Continue, Safe, InStep
  <2> QED BY <1>3, <2>1, <2>2, <2>3 DEF ReadLength
<1>4. CASE ReadLength2
  <2> DEFINE len == Length16(Buf[2], Buf[3])
  <2>1. framePtr_ \in 2..3 /\ Ptr = framePtr_ + 1 /\ pc = "reading" /\ frameState_ = "Length2"
    BY <1>4, GotByteInStep, CounterArithmetic DEF ReadLength2, InStep, Ptr
  <2>2. CASE Ptr = 3 /\ Continue /\ UNCHANGED frameState_
    BY <1>4, <2>1, <2>2 DEF ReadLength2, Continue, Safe, InStep
  <2>3. CASE Error("Error_FrameTooBig") /\ UNCHANGED frameState_
    BY <2>1, <2>3 DEF Error, Safe, Stranded
  <2>4. CASE Ptr = 4 /\ ~TooBig(len) /\ HeaderComplete(len)
    <3>1. Buf[2] \in Byte /\ Buf[3] \in Byte
      BY <1>4, <2>4, GotByteType, IndexArithmetic DEF ReadLength2
    <3>2. len \in Nat /\ len <= MaxFrameSize
      BY <2>4, <3>1, ByteArithmetic, SizeAssumption DEF TooBig
    <3> HIDE DEF len
    <3>3. len \in 0..LongestPayload
      BY <3>2, SizeAssumption DEF LongestPayload
    <3> QED BY <1>4, <2>1, <2>4, <3>3, HeaderCompleteSafe DEF ReadLength2
  <2> QED BY <1>4, <2>1, <2>2, <2>3, <2>4 DEF ReadLength2
<1>5. CASE ReadLength8
  <2>1. /\ framePtr_ \in 2..9 /\ Ptr = framePtr_ + 1 /\ pc = "reading"
        /\ frameState_ = "Length8" /\ frameState_' = "Length8" /\ framePtr_' = Ptr
    BY <1>5, GotByteInStep, CounterArithmetic DEF ReadLength8, InStep, Ptr
  <2>2. CASE Ptr \in 3..9 /\ Continue
    BY <2>1, <2>2 DEF Continue, Safe, InStep
  <2>3. CASE Error("Error_FrameTooBig")
    BY <2>1, <2>3 DEF Error, Safe, Stranded
  <2> QED BY <1>5, <2>1, <2>2, <2>3 DEF ReadLength8
<1>6. CASE ReadMask
  <2>1. /\ framePtr_ \in 2..7 /\ framePtr_' = framePtr_ + 1 /\ Ptr = framePtr_ + 1
        /\ pc' = "reading"
        /\ payloadRemainingBytes_ = payloadLength_ /\ payloadLength_ <= LongestPayload
        /\ UNCHANGED <<payloadLength_, payloadRemainingBytes_>>
    BY <1>6, GotByteInStep, CounterArithmetic DEF ReadMask, InStep, Ptr, Continue
  <2>2. CASE MaskDone(Ptr)
    <3>1. framePtr_' = 8 /\ frameState_' = "Payload"
      BY <1>6, <2>1, <2>2 DEF MaskDone, ReadMask
    <3>2. payloadLength_ \in Nat
      BY IndexArithmetic DEF TypeOK, ParserTypeOK
    <3>3. CASE payloadLength_ = 0
      BY <2>1, <3>1, <3>3 DEF Safe, InStep, HeaderSizes
    <3>4. CASE payloadLength_ # 0
      <4>1. payloadLength_ \in 1..payloadLength_ /\ 8 - (payloadLength_ - payloadLength_) = 8
        BY <3>2, <3>4
      <4> QED BY <2>1, <3>1, <4>1 DEF Safe, InStep, HeaderSizes
    <3> QED BY <3>3, <3>4
  <2>3. CASE ~MaskDone(Ptr)
    BY <1>6, <2>1, <2>3 DEF MaskDone, ReadMask, Safe, InStep
  <2> QED BY <2>2, <2>3
<1>7. CASE ReadUnnamed
  BY <1>7, GotByteInStep DEF ReadUnnamed, InStep
<1>8. CASE ReadPayload
  <2> DEFINE header == framePtr_ - (payloadLength_ - payloadRemainingBytes_)
  <2>1. /\ payloadLength_ <= LongestPayload /\ payloadRemainingBytes_ \in 1..payloadLength_
        /\ header \in HeaderSizes /\ pc = "reading" /\ frameState_ = "Payload"
    BY <1>8, GotByteInStep DEF ReadPayload, GotByte, NeedsByte, InStep
  <2>2. payloadLength_ \in Nat /\ framePtr_ \in Nat /\ payloadRemainingBytes_ \in Nat
    BY IndexArithmetic DEF TypeOK, ParserTypeOK
  <2>3. framePtr_ \in 0..254 /\ payloadRemainingBytes_ \in 1..255
    BY <2>1, <2>2, CounterArithmetic DEF HeaderSizes
  <2>4. Ptr = framePtr_ + 1 /\ Dec8(payloadRemainingBytes_) = payloadRemainingBytes_ - 1
    BY <2>3, CounterArithmetic DEF Ptr
  <2>5. /\ payloadRemainingBytes_' = payloadRemainingBytes_ - 1
        /\ payloadLength_' = payloadLength_
    BY <1>8, <2>4 DEF ReadPayload, PayloadStep
  <2>6. CASE payloadRemainingBytes_' # 0
    <3>1. framePtr_' = framePtr_ + 1 /\ frameState_' = "Payload" /\ pc' = "reading"
      BY <1>8, <2>1, <2>4, <2>6 DEF ReadPayload, PayloadStep, Continue
    <3>2. /\ framePtr_' - (payloadLength_' - payloadRemainingBytes_') = header
          /\ payloadRemainingBytes_' \in 1..payloadLength_'
      BY <2>1, <2>2, <2>5, <2>6, <3>1
    <3> QED BY <2>1, <2>5, <3>1, <3>2 DEF Safe, InStep
  <2>7. CASE payloadRemainingBytes_' = 0
    <3>1. Ptr > payloadLength_
      BY <2>1, <2>2, <2>4, <2>5, <2>7 DEF HeaderSizes
    <3>2. FrameComplete(Buf, Ptr)
      BY <1>8, <2>2, <2>4, <2>7, <3>1 DEF ReadPayload, PayloadStep
    <3> QED BY <2>1, <3>2, FrameCompleteSafe
  <2> QED BY <2>6, <2>7
<1>9. CASE SpinEmptyPayload
  <2>1. /\ frameState_ = "Payload" /\ payloadLength_ = 0 /\ framePtr_ \in HeaderSizes
        /\ pc = "reading"
    BY <1>9 DEF SpinEmptyPayload, NeedsByte, Safe, InStep, Stranded
  <2>2. PayloadStep(messageBuffer_, framePtr_) /\ payloadLength_' = 0
    BY <1>9, <2>1 DEF SpinEmptyPayload, PayloadStep
  <2>3. CASE payloadRemainingBytes_' # 0
    BY <2>1, <2>2, <2>3 DEF PayloadStep, Continue, Safe, InStep
  <2>4. CASE payloadRemainingBytes_' = 0
    <3>1. framePtr_ > payloadLength_
      BY <2>1 DEF HeaderSizes
    <3>2. FrameComplete(messageBuffer_, framePtr_)
      BY <2>1, <2>2, <2>4, <3>1 DEF PayloadStep, HeaderSizes
    <3> QED BY <2>1, <3>2, FrameCompleteSafe
  <2> QED BY <2>3, <2>4
<1>10. CASE Overrun
  <2>1. /\ UNCHANGED <<frameState_, framePtr_, payloadLength_, payloadRemainingBytes_>>
        /\ pc = "reading" /\ Connected /\ pc' # "hung"
    BY <1>10 DEF Overrun, parserVars
  <2> QED BY <2>1 DEF Safe, Stranded, InStep
<1> QED BY <1>1, <1>2, <1>3, <1>4, <1>5, <1>6, <1>7, <1>8, <1>9, <1>10 DEF ReadFrame

\* After disconnect() the socket is not connected, whether it was before or not,
\* nor is it after a connect() that failed.
LEMMA DisconnectEnds == Disconnect \/ ConnectFails => ~Connected'
  BY DEF Disconnect, ConnectFails, Write, Stop, Connected, socketVars

\* Once a connection is over it stays so: only a new connect brings it back.
LEMMA StaysOver ==
  TypeOK /\ ~Connected /\ [Next]_vars => ~Connected' \/ Reconnect
<1> SUFFICES ASSUME TypeOK, ~Connected, [Next]_vars, ~Reconnect
             PROVE  ~Connected'
  OBVIOUS
<1>1. CASE UNCHANGED socketVars
  BY <1>1 DEF socketVars, Connected
<1>2. ASSUME NEW state, GotByte(state) PROVE FALSE
  BY <1>2 DEF GotByte
<1>3. CASE ReadFrame
  BY <1>1, <1>2, <1>3 DEF ReadFrame, ReadByteError, ReadOpcode, ReadLength, ReadLength2,
                          ReadLength8, ReadMask, ReadUnnamed, ReadPayload, SpinEmptyPayload, Overrun
<1>4. CASE ErrorHandlerReturns \/ AnswerClose \/ AppDisconnects \/ ReconnectFails
  BY <1>4, DisconnectEnds DEF ErrorHandlerReturns, AnswerClose, AppDisconnects,
                              ReconnectFails
<1>5. CASE DispatchEvents \/ FrameHandlerReturns
  BY <1>1, <1>5 DEF DispatchEvents, FrameHandlerReturns
<1>6. ASSUME NEW m \in Messages, SendData(m, Opcode_Text) PROVE ~Connected'
  BY <1>6 DEF SendData, Connected
<1>7. CASE BytesArrive
  <2>1. PICK k \in 1..Len(wire) : Arrive(k)
    BY <1>7 DEF BytesArrive
  <2>2. wire # <<>>
    BY <2>1
  <2> QED BY <2>1, <2>2 DEF Arrive, Connected
<1>8. CASE PeerLeaves
  BY <1>8 DEF PeerLeaves, PeerCloses, PeerVanishes, Connected
<1>9. ASSUME NEW f \in PeerFrames, PeerSends(f) PROVE ~Connected'
  BY <1>9 DEF PeerSends, PeerWrites, Connected
<1> QED BY <1>1, <1>3, <1>4, <1>5, <1>6, <1>7, <1>8, <1>9 DEF Next, App, vars

\* A step that leaves the parser alone keeps it in step, or stranded if the
\* connection stays over.
LEMMA StrandedOrInStepKept ==
  ASSUME TypeOK, Safe, UNCHANGED <<frameState_, framePtr_, payloadLength_, payloadRemainingBytes_>>,
         pc' # "hung",
         Stranded => pc' = "onError" \/ ~Connected'
  PROVE  Safe'
<1>1. InStep => InStep'
  BY DEF InStep
<1>2. Stranded => Stranded'
  BY DEF Stranded
<1> QED BY <1>1, <1>2 DEF Safe

\* The constructor's parser, if it stands at a frame boundary, is in step.
LEMMA SafeInit == Init => (clean => Safe)
  BY DEF Init, Safe, InStep

\* IInv is inductive: no step of the reader, the application or the network
\* brings a parser out of step that began a connection at a frame boundary.
LEMMA SafeStep == IInv /\ [Next]_vars => IInv'
<1> SUFFICES ASSUME IInv, [Next]_vars, clean'
             PROVE  Safe'
  BY StepType DEF IInv, ParserInStep
<1> USE DEF IInv, ParserInStep
<1>1. CASE Reconnect
  BY <1>1 DEF Reconnect, parserVars, Safe, InStep
<1> SUFFICES ASSUME ~Reconnect
             PROVE  Safe'
  BY <1>1
<1>2. clean /\ Safe
  <2>1. clean' = clean
    BY DEF Next, App, ReadFrame, ReadByteError, ReadOpcode, ReadLength, ReadLength2, ReadLength8,
           ReadMask, ReadUnnamed, ReadPayload, SpinEmptyPayload, Overrun, GotByte, AnswerClose,
           DispatchEvents, FrameHandlerReturns, ErrorHandlerReturns, AppDisconnects,
           ReconnectFails, SendData, BytesArrive, PeerLeaves, PeerSends, historyVars, vars
  <2> QED BY <2>1
<1>3. CASE ReadFrame
  BY <1>2, <1>3, ReadFrameSafe
<1>4. CASE ErrorHandlerReturns \/ AnswerClose \/ AppDisconnects \/ ReconnectFails
  <2>1. ~Connected' /\ UNCHANGED parserVars /\ pc' \in {"idle", pc}
    BY <1>4, DisconnectEnds DEF ErrorHandlerReturns, AnswerClose, AppDisconnects,
                              ReconnectFails
  <2> QED BY <1>2, <2>1, StrandedOrInStepKept DEF parserVars, Safe
<1>5. CASE \/ DispatchEvents \/ FrameHandlerReturns
           \/ (\E m \in Messages : SendData(m, Opcode_Text))
           \/ BytesArrive \/ PeerLeaves
           \/ (\E f \in PeerFrames : PeerSends(f))
           \/ UNCHANGED vars
  <2>1. /\ UNCHANGED parserVars
        /\ pc' = pc \/ (pc \in {"idle", "onFrame"} /\ pc' = "reading")
    BY <1>5 DEF DispatchEvents, FrameHandlerReturns, SendData, BytesArrive, PeerLeaves, PeerSends,
                vars
  <2>2. ~Connected => ~Connected'
    BY StaysOver
  <2>3. pc = "onError" \/ ~Connected => pc' = "onError" \/ ~Connected'
    BY <2>1, <2>2
  <2> QED BY <1>2, <2>1, <2>3, StrandedOrInStepKept DEF parserVars, Safe, Stranded
<1> QED BY <1>3, <1>4, <1>5 DEF Next, App

\* So IInv holds in every state of the system.
LEMMA Invariant == Spec => []IInv
<1>1. Init => IInv
  BY InitType, SafeInit DEF IInv, ParserInStep
<1> QED BY <1>1, SafeStep, PTL DEF Spec

\* The parser stays in step with the peer's bytes: the inductive invariant's
\* part that says why the other facts hold.
THEOREM ParserStaysInStep == Spec => []ParserInStep
<1>1. IInv => ParserInStep
  BY DEF IInv
<1> QED BY <1>1, Invariant, PTL

\* No Assert of readFrame fails on a connection the parser began at a frame
\* boundary, for every peer, every segmentation of its bytes and every way the
\* connection can end.
THEOREM NeverHangs == Spec => []CleanStartNeverHangs
<1>1. IInv => CleanStartNeverHangs
  BY DEF IInv, ParserInStep, Safe, CleanStartNeverHangs
<1> QED BY <1>1, Invariant, PTL

-------------------------------------------------------------------------------
(* What an error and a stop() mean to the application. *)

\* An error was reported: onError is running, or the connection is over.
ErrorInv == raised # {} => pc = "onError" \/ ~Connected

\* From error()'s onError on, every step leaves the error with the handler or
\* the connection over.
LEMMA ErrorStep == TypeOK /\ ErrorInv /\ [Next]_vars => ErrorInv'
<1> SUFFICES ASSUME TypeOK, ErrorInv, [Next]_vars, ~Reconnect
             PROVE  ErrorInv'
  BY DEF Reconnect, ErrorInv
<1>1. ~Connected => ~Connected'
  BY StaysOver
<1>2. ASSUME NEW err \in {"Error_WouldBlock", "Error_NotConnected", "Error_FrameTooBig",
                          "Error_UnsupportedFrameType"},
             Error(err)
      PROVE  raised' = raised \/ pc' = "onError"
  BY <1>2 DEF Error, Notified
<1>3. CASE UNCHANGED raised /\ (pc = "onError" => pc' = "onError")
  BY <1>1, <1>3 DEF ErrorInv
<1>4. ASSUME NEW state, GotByte(state) PROVE pc = "reading" /\ Connected
  BY <1>4 DEF GotByte
<1>5. CASE ReadFrame
  <2>1. pc = "reading"
    BY <1>4, <1>5 DEF ReadFrame, ReadByteError, ReadOpcode, ReadLength, ReadLength2,
                      ReadLength8, ReadMask, ReadUnnamed, ReadPayload, SpinEmptyPayload, Overrun
  <2>2. raised' = raised \/ pc' = "onError"
    BY <1>2, <1>5 DEF ReadFrame, ReadByteError, ReadOpcode, ReadLength, ReadLength2,
                      ReadLength8, ReadMask, ReadUnnamed, ReadPayload, SpinEmptyPayload, Overrun,
                      PayloadStep, FrameComplete, HeaderComplete, Continue, Hang
  <2> QED BY <1>1, <2>1, <2>2 DEF ErrorInv
<1>6. CASE ErrorHandlerReturns \/ AnswerClose \/ AppDisconnects \/ ReconnectFails
  BY <1>6, DisconnectEnds DEF ErrorHandlerReturns, AnswerClose, AppDisconnects, ReconnectFails,
                              ErrorInv
<1>7. ASSUME NEW m \in Messages, SendData(m, Opcode_Text) PROVE ErrorInv'
  BY <1>1, <1>7 DEF SendData, ErrorInv
<1>8. CASE \/ DispatchEvents \/ FrameHandlerReturns \/ BytesArrive \/ PeerLeaves
           \/ (\E f \in PeerFrames : PeerSends(f)) \/ UNCHANGED vars
  BY <1>3, <1>8 DEF DispatchEvents, FrameHandlerReturns, BytesArrive, PeerLeaves, PeerSends, vars
<1> QED BY <1>5, <1>6, <1>7, <1>8 DEF Next, App

\* Whenever an error was reported and control is back in loop(), the connection
\* is over, and stays so until the application connects again.
THEOREM ErrorEnds == Spec => []ErrorEndsConnection
<1>1. Init => ErrorInv
  BY DEF Init, ErrorInv
<1>2. ErrorInv => ErrorEndsConnection
  BY DEF ErrorInv, ErrorEndsConnection
<1> QED BY <1>1, <1>2, ErrorStep, TypeCorrect, PTL DEF Spec

\* An empty payload is waited for only inside readFrame and on a live socket,
\* except by a parser that was constructed in that state and will hang.
SpinInv ==
  frameState_ = "Payload" /\ payloadLength_ = 0
    => (pc = "reading" /\ up) \/ framePtr_ = 0

\* No step takes a parser that waits for an empty payload off its live socket.
LEMMA SpinStep == TypeOK /\ SpinInv /\ [Next]_vars => SpinInv'
<1> SUFFICES ASSUME TypeOK, SpinInv, [Next]_vars
             PROVE  SpinInv'
  OBVIOUS
<1>1. CASE ReadFrame
  <2>1. ASSUME NEW state, GotByte(state) PROVE up' /\ pc = "reading" /\ frameState_ = state /\ NeedsByte
    BY <2>1 DEF GotByte, Connected
  <2>2. CASE ReadByteError
    BY <2>2 DEF ReadByteError, NeedsByte, parserVars, SpinInv
  <2>3. CASE ReadOpcode \/ ReadLength8 \/ ReadUnnamed
    BY <2>1, <2>3 DEF ReadOpcode, ReadLength8, ReadUnnamed, SpinInv
  <2>4. CASE ReadLength \/ ReadLength2 \/ ReadMask
    BY <2>1, <2>4 DEF ReadLength, ReadLength2, ReadMask, HeaderComplete, Continue, SpinInv
  <2>5. CASE ReadPayload
    BY <2>1, <2>5 DEF ReadPayload, PayloadStep, FrameComplete, NextFrame, NeedsByte, SpinInv
  <2>6. CASE SpinEmptyPayload
    <3>1. pc = "reading" /\ frameState_ = "Payload" /\ payloadLength_ = 0 /\ up' = up
      BY <2>6 DEF SpinEmptyPayload, NeedsByte, socketVars
    <3>2. framePtr_ <= payloadLength_ => framePtr_ = 0
      BY <3>1, IndexArithmetic DEF TypeOK, ParserTypeOK
    <3> QED BY <2>6, <3>1, <3>2 DEF SpinEmptyPayload, PayloadStep, FrameComplete, NextFrame,
                                    Continue, Hang, SpinInv
  <2>7. CASE Overrun
    BY <2>7 DEF Overrun, NeedsByte, parserVars, SpinInv
  <2> QED BY <1>1, <2>2, <2>3, <2>4, <2>5, <2>6, <2>7 DEF ReadFrame
<1>2. CASE \/ ErrorHandlerReturns \/ AnswerClose \/ AppDisconnects \/ Reconnect
           \/ ReconnectFails \/ DispatchEvents \/ FrameHandlerReturns
  BY <1>2 DEF ErrorHandlerReturns, AnswerClose, AppDisconnects, Reconnect, ReconnectFails,
              DispatchEvents, FrameHandlerReturns, AppTurn, parserVars, SpinInv
<1>3. CASE \/ (\E m \in Messages : SendData(m, Opcode_Text)) \/ BytesArrive \/ PeerLeaves
           \/ (\E f \in PeerFrames : PeerSends(f)) \/ UNCHANGED vars
  <2>1. UNCHANGED <<up, pc, parserVars>>
    BY <1>3 DEF SendData, BytesArrive, Arrive, PeerLeaves, PeerCloses, PeerVanishes, PeerSends,
                PeerWrites, vars, socketVars
  <2> QED BY <2>1 DEF parserVars, SpinInv
<1> QED BY <1>1, <1>2, <1>3 DEF Next, App

\* What one step of the stopped program may do: nothing but report the missing
\* connection.
LEMMA StopStep ==
  TypeOK /\ SpinInv /\ [Next]_vars
    => (~up /\ ~up' => /\ UNCHANGED <<tx, delivered>>
                       /\ raised' \subseteq raised \union {"Error_NotConnected"})
<1> SUFFICES ASSUME TypeOK, SpinInv, [Next]_vars, ~up, ~up'
             PROVE  /\ UNCHANGED <<tx, delivered>>
                    /\ raised' \subseteq raised \union {"Error_NotConnected"}
  OBVIOUS
<1>1. ~Connected
  BY DEF Connected
<1>2. ASSUME Overrun \/ \E state : GotByte(state) PROVE FALSE
  BY <1>1, <1>2 DEF GotByte, Overrun
<1>3. CASE ReadByteError
  BY <1>1, <1>3 DEF ReadByteError, Error, Notified, socketVars
<1>4. CASE SpinEmptyPayload
  <2>1. frameState_ = "Payload" /\ payloadLength_ = 0 /\ framePtr_ = 0
    BY <1>4 DEF SpinEmptyPayload, NeedsByte, SpinInv
  <2>2. ~(framePtr_ > payloadLength_)
    BY <2>1
  <2> QED BY <1>4, <2>2 DEF SpinEmptyPayload, PayloadStep, Continue, Hang, socketVars
<1>5. CASE ErrorHandlerReturns \/ AnswerClose \/ AppDisconnects \/ ReconnectFails
  BY <1>1, <1>5 DEF ErrorHandlerReturns, AnswerClose, AppDisconnects, ReconnectFails,
                    ConnectFails, Disconnect, socketVars
<1>6. CASE \/ Reconnect \/ DispatchEvents \/ FrameHandlerReturns
           \/ (\E m \in Messages : SendData(m, Opcode_Text)) \/ BytesArrive \/ PeerLeaves
           \/ (\E f \in PeerFrames : PeerSends(f)) \/ UNCHANGED vars
  BY <1>1, <1>6 DEF Reconnect, Connect, DispatchEvents, FrameHandlerReturns, SendData, Notified,
                    BytesArrive, Arrive, PeerLeaves, PeerCloses, PeerVanishes, PeerSends,
                    PeerWrites, vars, socketVars
<1> QED BY <1>2, <1>3, <1>4, <1>5, <1>6
           DEF Next, App, ReadFrame, ReadOpcode, ReadLength, ReadLength2, ReadLength8,
               ReadMask, ReadUnnamed, ReadPayload

\* After stop() nothing is written or delivered, and no error but the missing
\* connection is reported, until the application connects again.
THEOREM StopIsFinal == Spec => NothingAfterStop
<1>1. Init => SpinInv
  BY DEF Init, SpinInv
<1>2. TypeOK /\ SpinInv /\ [Next]_vars
        => [~up /\ ~up' => /\ UNCHANGED <<tx, delivered>>
                           /\ raised' \subseteq raised \union {"Error_NotConnected"}]_vars
  BY StopStep
<1> QED BY <1>1, <1>2, SpinStep, TypeCorrect, PTL DEF Spec, NothingAfterStop

-------------------------------------------------------------------------------
(* Where the frames are: the invariant. *)

Layout(off) ==
  /\ \A i \in 1..Len(sent) : off[i + 1] = off[i] + Len(sent[i].bytes)
  /\ \A i \in 1..Len(sent) : off[i + 1] <= off[Len(sent) + 1]
  /\ StreamLength > 0 => StreamLength <= off[Len(sent) + 1]
  /\ up /\ peer # "gone" => StreamLength = off[Len(sent) + 1]
  /\ \A i \in 1..Len(sent) : \A j \in 1..Len(sent[i].bytes) :
       off[i] + j \in 1..StreamLength => StreamAt(off[i] + j) = sent[i].bytes[j]

\* The parser's state is right for the part of frame f it has read.
InPayload(f, h) ==
  /\ HasHeader(f, h, payloadLength_)
  /\ \/ payloadLength_ = 0 /\ framePtr_ = h
     \/ /\ payloadRemainingBytes_ \in 1..payloadLength_
        /\ framePtr_ = h + payloadLength_ - payloadRemainingBytes_

InFrame(f) ==
  \/ frameState_ = "Length" /\ framePtr_ = 1
  \/ frameState_ = "Length2" /\ framePtr_ \in 2..3 /\ LengthOf(f.bytes[2]) = 126
  \/ frameState_ = "Length8" /\ framePtr_ \in 2..9 /\ LengthOf(f.bytes[2]) = 127
  \/ /\ frameState_ = "Mask" /\ framePtr_ \in 4..7
     /\ HasHeader(f, 8, payloadLength_) /\ payloadRemainingBytes_ = payloadLength_
  \/ frameState_ = "Payload" /\ \E h \in HeaderSizes : InPayload(f, h)

AtBoundary == frameState_ = "Opcode" /\ framePtr_ = 0
Reads(f) == AtBoundary \/ (Fin(f.bytes[1]) /\ InFrame(f))
Buffered(f) == \A j \in 1..framePtr_ : messageBuffer_[j - 1] = f.bytes[j]

Current(off) ==
  /\ off[Len(delivered) + 1] = -framePtr_
  /\ Len(delivered) = Len(sent) => AtBoundary
  /\ Len(delivered) < Len(sent) =>
       Reads(sent[Len(delivered) + 1]) /\ Buffered(sent[Len(delivered) + 1])

Aligned == \E off \in [1..Len(sent) + 1 -> Int] : Layout(off) /\ Current(off)

\* A frame without a handler came: the connection is over, or will be before
\* another byte is read.
Ending ==
  /\ frameState_ \in {"Opcode", "Length2", "Length8"}
  /\ pc \in {"onError", "closing"} \/ ~Connected

InOrder ==
  /\ Len(delivered) <= Len(sent)
  /\ \A i \in DOMAIN delivered : delivered[i] = sent[i].event

OrderInv == clean => InOrder /\ (Ending \/ Aligned)

AllLegible == \A f \in PeerFrames : Legible(f)

-------------------------------------------------------------------------------
(* The stream. *)

\* What the peer sent are frames of the instance, with bytes.
LEMMA SentFrames ==
  ASSUME TypeOK, NEW i \in 1..Len(sent)
  PROVE  sent[i] \in PeerFrames /\ sent[i].bytes \in Seq(Byte) /\ Len(sent[i].bytes) \in Nat
<1>1. sent[i] \in PeerFrames
  BY DEF TypeOK, HistoryTypeOK
<1> QED BY <1>1, BytesAssumption

\* The lengths the invariant computes with are naturals.
LEMMA Lengths ==
  ASSUME TypeOK
  PROVE  /\ Len(sent) \in Nat /\ Len(delivered) \in Nat /\ Len(rx) \in Nat /\ Len(wire) \in Nat
         /\ StreamLength \in Nat
<1>1. /\ Len(sent) \in Nat /\ Len(delivered) \in Nat /\ Len(rx) \in Nat /\ Len(wire) \in Nat
  BY DEF TypeOK, HistoryTypeOK, SocketTypeOK
<1> QED BY <1>1 DEF StreamLength

\* And they still are after the step.
LEMMA LengthsNext ==
  ASSUME TypeOK'
  PROVE  (Len(rx) \in Nat /\ Len(wire) \in Nat /\ StreamLength \in Nat)'
<1>1. rx' \in Seq(Byte) /\ wire' \in Seq(Byte)
  BY DEF TypeOK, SocketTypeOK
<1> QED BY <1>1 DEF StreamLength

\* When d bytes leave the front of the stream every frame's place moves by d.
LEMMA LayoutCut ==
  ASSUME TypeOK, TypeOK', NEW d \in Nat, StreamCut(d), sent' = sent,
         NEW off \in [1..Len(sent) + 1 -> Int], Layout(off),
         NEW less \in [1..Len(sent) + 1 -> Int],
         \A i \in 1..Len(sent) + 1 : less[i] = off[i] - d
  PROVE  Layout(less)'
<1>1. /\ Len(sent) \in Nat /\ StreamLength \in Nat /\ StreamLength' \in Nat
  BY Lengths, LengthsNext
<1> DEFINE n == Len(sent) + 1
<1>2. n \in 1..n /\ off[n] \in Int /\ less[n] = off[n] - d
  BY <1>1
<1>3. ASSUME NEW i \in 1..Len(sent)
      PROVE  less[i + 1] = less[i] + Len(sent[i].bytes) /\ less[i + 1] <= less[n]
  <2>1. /\ i \in 1..n /\ i + 1 \in 1..n /\ Len(sent[i].bytes) \in Nat
    BY <1>1, SentFrames
  <2>2. off[i] \in Int /\ off[i + 1] \in Int /\ less[i] = off[i] - d /\ less[i + 1] = off[i + 1] - d
    BY <2>1
  <2>3. off[i + 1] = off[i] + Len(sent[i].bytes) /\ off[i + 1] <= off[n]
    BY DEF Layout
  <2> DEFINE a == off[i]
             b == off[i + 1]
             c == off[n]
             length == Len(sent[i].bytes)
  <2>4. a \in Int /\ b \in Int /\ c \in Int /\ length \in Nat /\ b = a + length /\ b <= c
    BY <1>2, <2>1, <2>2, <2>3
  <2>5. less[i] = a - d /\ less[i + 1] = b - d /\ less[n] = c - d
    BY <1>2, <2>2
  <2> HIDE DEF n, a, b, c, length
  <2>6. b - d = (a - d) + length /\ b - d <= c - d
    BY <2>4
  <2>7. less[i + 1] = less[i] + length /\ less[i + 1] <= less[n]
    BY <2>5, <2>6
  <2> QED BY <2>7 DEF length
<1>4. StreamLength' > 0 => StreamLength' <= less[n]
  <2>1. StreamLength > 0 => StreamLength <= off[n]
    BY DEF Layout
  <2>2. StreamLength' > 0 => StreamLength' <= StreamLength - d
    BY DEF StreamCut
  <2> HIDE DEF n
  <2> QED BY <1>1, <1>2, <2>1, <2>2
<1>5. up' /\ peer' # "gone" => StreamLength' = less[n]
  <2>1. up /\ peer # "gone" => StreamLength = off[n]
    BY DEF Layout
  <2>2. up' /\ peer' # "gone" => up /\ peer # "gone" /\ StreamLength' = StreamLength - d
    BY DEF StreamCut
  <2> HIDE DEF n
  <2> QED BY <1>1, <1>2, <2>1, <2>2
<1>6. ASSUME NEW i \in 1..Len(sent), NEW j \in 1..Len(sent[i].bytes),
             less[i] + j \in 1..StreamLength'
      PROVE  StreamAt(less[i] + j)' = sent[i].bytes[j]
  <2>1. i \in 1..n /\ j \in Int /\ off[i] \in Int /\ less[i] = off[i] - d
    BY <1>1, SentFrames
  <2>2. less[i] + j + d = off[i] + j
    BY <2>1
  <2>3. StreamLength' <= StreamLength - d
    BY <1>1, <1>6 DEF StreamCut
  <2>4. off[i] + j \in 1..StreamLength
    BY <1>1, <1>6, <2>1, <2>3
  <2>5. StreamAt(less[i] + j)' = StreamAt(less[i] + j + d)
    BY <1>6 DEF StreamCut
  <2>6. StreamAt(off[i] + j) = sent[i].bytes[j]
    BY <2>4 DEF Layout
  <2> QED BY <2>2, <2>5, <2>6
<1> QED BY <1>3, <1>4, <1>5, <1>6 DEF Layout

\* The network delivers, the connection ends, or nothing happens on it.
LEMMA QuietStream ==
  ASSUME TypeOK, TypeOK',
         \/ UNCHANGED <<up, peer, wire, rx>>
         \/ Disconnect \/ ConnectFails \/ BytesArrive \/ PeerLeaves
  PROVE  StreamCut(0)
<1>0. /\ rx \in Seq(Byte) /\ wire \in Seq(Byte) /\ StreamLength \in Nat
  BY Lengths DEF TypeOK, SocketTypeOK
<1>1. CASE UNCHANGED <<up, peer, wire, rx>>
  BY <1>0, <1>1 DEF StreamCut, StreamLength, StreamAt
<1>2. CASE up' = FALSE /\ wire' = <<>> /\ rx' = <<>>
  BY <1>0, <1>2 DEF StreamCut, StreamLength
<1>3. CASE Disconnect \/ ConnectFails
  BY <1>1, <1>2, <1>3 DEF Disconnect, ConnectFails, Stop, Write, socketVars
<1>4. CASE BytesArrive \/ PeerLeaves
  BY <1>4, NetworkCut DEF BytesArrive, PeerLeaves, TypeOK
<1> QED BY <1>1, <1>3, <1>4

\* A step that leaves the parser alone keeps it aligned with the stream.
LEMMA AlignedKept ==
  ASSUME TypeOK, TypeOK', Aligned, StreamCut(0), UNCHANGED <<parserVars, delivered, sent>>
  PROVE  Aligned'
<1>1. PICK off \in [1..Len(sent) + 1 -> Int] : Layout(off) /\ Current(off)
  BY DEF Aligned
<1>2. \A i \in 1..Len(sent) + 1 : off[i] = off[i] - 0
  OBVIOUS
<1>3. Layout(off)'
  BY <1>1, <1>2, LayoutCut
<1>4. Current(off)'
  BY <1>1 DEF Current, AtBoundary, Reads, InFrame, InPayload, Buffered, parserVars
<1> QED BY <1>3, <1>4 DEF Aligned

-------------------------------------------------------------------------------
(* The next byte. *)

\* The formats of a header exclude each other, and what may be refused.
LEMMA HeaderUnique ==
  ASSUME NEW f \in PeerFrames, Legible(f), Fin(f.bytes[1]),
         NEW h \in HeaderSizes, NEW n \in Nat, HasHeader(f, h, n)
  PROVE  f.event = IF OpcodeOf(f.bytes[1]) \in DOMAIN Handler
                     THEN [cb |-> Handler[OpcodeOf(f.bytes[1])],
                           msg |-> [i \in 1..n |-> f.bytes[h + i]]]
                     ELSE NoEvent
<1>1. ~Refusable(f)
  BY DEF Refusable, HasHeader, HeaderSizes, LengthOf
<1>2. PICK h2 \in HeaderSizes, n2 \in 0..LongestPayload :
        /\ HasHeader(f, h2, n2)
        /\ f.event = IF OpcodeOf(f.bytes[1]) \in DOMAIN Handler
                       THEN [cb |-> Handler[OpcodeOf(f.bytes[1])],
                             msg |-> [i \in 1..n2 |-> f.bytes[h2 + i]]]
                       ELSE NoEvent
  BY <1>1 DEF Legible, Supported
<1>3. n2 \in Nat
  BY CounterArithmetic
<1> DEFINE second == f.bytes[2]
           length == Len(f.bytes)
<1>4. /\ h = 2 => second <= 125 /\ second = n
      /\ h = 4 => second = 126
      /\ h = 8 => second = 254
      /\ length = h + n
  BY DEF HasHeader
<1>5. /\ h2 = 2 => second <= 125 /\ second = n2
      /\ h2 = 4 => second = 126
      /\ h2 = 8 => second = 254
      /\ length = h2 + n2
  <2>1. HasHeader(f, h2, n2)
    BY <1>2
  <2> QED BY ONLY <2>1 DEF HasHeader
<1>6. h \in {2, 4, 8} /\ h2 \in {2, 4, 8}
  BY <1>2 DEF HeaderSizes
<1>7. h2 = h /\ n2 = n
  <2> HIDE DEF second, length
  <2>1. h2 = h
    BY <1>3, <1>4, <1>5, <1>6
  <2>2. h + n2 = h + n
    BY <1>4, <1>5, <2>1
  <2> QED BY <1>3, <1>6, <2>1, <2>2
<1> QED BY <1>2, <1>7

\* Which header a legible frame has, by the length in its second byte.
LEMMA HeaderByLength ==
  ASSUME NEW f \in PeerFrames, Legible(f), Fin(f.bytes[1]), f.bytes[2] \in Byte
  PROVE  /\ LengthOf(f.bytes[2]) <= 125 => HasHeader(f, 2, f.bytes[2]) /\ f.bytes[2] <= 125
         /\ LengthOf(f.bytes[2]) = 126 =>
              /\ Len(f.bytes) >= 4
              /\ ~TooBig(Length16(f.bytes[3], f.bytes[4])) =>
                   IF Masked(f.bytes[2])
                     THEN HasHeader(f, 8, Length16(f.bytes[3], f.bytes[4]))
                     ELSE HasHeader(f, 4, Length16(f.bytes[3], f.bytes[4]))
         /\ LengthOf(f.bytes[2]) = 127 => Len(f.bytes) >= 10
<1>1. CASE Refusable(f)
  <2>1. CASE LengthOf(f.bytes[2]) = 126 /\ Len(f.bytes) >= 4
             /\ TooBig(Length16(f.bytes[3], f.bytes[4]))
    BY <2>1
  <2>2. CASE LengthOf(f.bytes[2]) = 127 /\ Len(f.bytes) >= 10
    BY <2>2
  <2> QED BY <1>1, <2>1, <2>2 DEF Refusable
<1>2. CASE Supported(f)
  <2>1. PICK h \in HeaderSizes, n \in 0..LongestPayload : HasHeader(f, h, n)
    BY <1>2 DEF Supported
  <2>2. n \in Nat /\ f.bytes[2] \in 0..255
    BY CounterArithmetic DEF Byte
  <2>3. CASE h = 2
    <3>1. f.bytes[2] = n /\ n <= 125
      BY <2>1, <2>3 DEF HasHeader
    <3>2. LengthOf(f.bytes[2]) <= 125
      BY <2>2, <3>1 DEF LengthOf
    <3> QED BY <2>1, <2>2, <2>3, <3>1, <3>2
  <2>4. CASE h = 4
    <3>1. f.bytes[2] = 126 /\ Length16(f.bytes[3], f.bytes[4]) = n /\ Len(f.bytes) = 4 + n
      BY <2>1, <2>4 DEF HasHeader
    <3>2. LengthOf(f.bytes[2]) = 126 /\ ~Masked(f.bytes[2])
      BY <3>1 DEF LengthOf, Masked
    <3> QED BY <2>1, <2>2, <2>4, <3>1, <3>2
  <2>5. CASE h = 8
    <3>1. f.bytes[2] = 254 /\ Length16(f.bytes[3], f.bytes[4]) = n /\ Len(f.bytes) = 8 + n
      BY <2>1, <2>5 DEF HasHeader
    <3>2. LengthOf(f.bytes[2]) = 126 /\ Masked(f.bytes[2])
      BY <3>1 DEF LengthOf, Masked
    <3> QED BY <2>1, <2>2, <2>5, <3>1, <3>2
  <2> QED BY <2>3, <2>4, <2>5 DEF HeaderSizes
<1> QED BY <1>1, <1>2 DEF Legible

\* Inside a frame the parser has not read all of it, unless it waits for an
\* empty payload.
LEMMA PositionInFrame ==
  ASSUME TypeOK, NEW f \in PeerFrames, Legible(f), Reads(f), NeedsByte
  PROVE  framePtr_ \in 0..254 /\ framePtr_ < Len(f.bytes)
<1>1. f.bytes \in Seq(Byte) /\ Len(f.bytes) \in Nat
  BY BytesAssumption
<1>2. Len(f.bytes) >= 2
  BY DEF Legible
<1>3. framePtr_ \in Nat /\ payloadLength_ \in Nat /\ payloadRemainingBytes_ \in Nat
  BY IndexArithmetic DEF TypeOK, ParserTypeOK
<1>4. f.bytes[2] \in Byte
  <2>1. \A j \in 1..Len(f.bytes) : f.bytes[j] \in Byte
    BY <1>1, <1>2
  <2>2. 2 \in 1..Len(f.bytes)
    BY <1>1, <1>2
  <2> QED BY <2>1, <2>2
<1>5. CASE AtBoundary
  BY <1>1, <1>2, <1>3, <1>5 DEF AtBoundary
<1>6. CASE Fin(f.bytes[1]) /\ InFrame(f)
  <2>1. CASE frameState_ = "Length" /\ framePtr_ = 1
    BY <1>1, <1>2, <1>3, <2>1
  <2>2. CASE framePtr_ \in 2..3 /\ LengthOf(f.bytes[2]) = 126
    BY <1>1, <1>2, <1>3, <1>4, <1>6, <2>2, HeaderByLength
  <2>3. CASE framePtr_ \in 2..9 /\ LengthOf(f.bytes[2]) = 127
    BY <1>1, <1>2, <1>3, <1>4, <1>6, <2>3, HeaderByLength
  <2>4. CASE framePtr_ \in 4..7 /\ HasHeader(f, 8, payloadLength_)
    BY <1>1, <1>2, <1>3, <2>4 DEF HasHeader
  <2>5. CASE frameState_ = "Payload" /\ \E h \in HeaderSizes : InPayload(f, h)
    <3>1. PICK h \in HeaderSizes : InPayload(f, h)
      BY <2>5
    <3>2. payloadRemainingBytes_ \in 1..payloadLength_
          /\ framePtr_ = h + payloadLength_ - payloadRemainingBytes_
      BY <2>5, <3>1 DEF InPayload, NeedsByte
    <3>3. Len(f.bytes) = h + payloadLength_ /\ payloadLength_ <= 247
      <4>1. HasHeader(f, h, payloadLength_)
        BY <3>1 DEF InPayload
      <4>2. CASE h = 2
        BY <1>1, <1>2, <1>3, <4>1, <4>2 DEF HasHeader
      <4>3. CASE h \in {4, 8}
        BY <1>1, <1>2, <1>3, <4>1, <4>3, SizeAssumption DEF HasHeader, TooBig
      <4> QED BY <4>2, <4>3 DEF HeaderSizes
    <3> QED BY <1>1, <1>2, <1>3, <3>2, <3>3 DEF HeaderSizes
  <2> QED BY <1>6, <2>1, <2>2, <2>3, <2>4, <2>5 DEF InFrame
<1> QED BY <1>5, <1>6 DEF Reads

\* The frame that is being read, and where the next state's stream is in it.
Frame == sent[Len(delivered) + 1]
Placed(pos) == \E off \in [1..Len(sent) + 1 -> Int] : Layout(off)' /\ off[Len(delivered) + 1] = -pos

\* Taking d bytes of the stream moves the place in the frame on by d.
LEMMA PlacedByCut ==
  ASSUME TypeOK, TypeOK', NEW d \in Nat, StreamCut(d), sent' = sent, Aligned,
         Len(delivered) <= Len(sent)
  PROVE  Placed(framePtr_ + d)
<1>1. PICK off \in [1..Len(sent) + 1 -> Int] : Layout(off) /\ Current(off)
  BY DEF Aligned
<1>2. PICK less \in [1..Len(sent) + 1 -> Int] : \A i \in 1..Len(sent) + 1 : less[i] = off[i] - d
  <2>1. [i \in 1..Len(sent) + 1 |-> off[i] - d] \in [1..Len(sent) + 1 -> Int]
    OBVIOUS
  <2> QED BY <2>1
<1>3. Layout(less)'
  BY <1>1, <1>2, LayoutCut
<1>4. less[Len(delivered) + 1] = -(framePtr_ + d)
  <2>1. Len(delivered) + 1 \in 1..Len(sent) + 1
    BY Lengths
  <2>2. less[Len(delivered) + 1] = off[Len(delivered) + 1] - d
    BY <1>2, <2>1
  <2>3. off[Len(delivered) + 1] = -framePtr_ /\ framePtr_ \in Nat
    BY <1>1, IndexArithmetic DEF Current, TypeOK, ParserTypeOK
  <2> QED BY <2>2, <2>3
<1> QED BY <1>3, <1>4 DEF Placed

\* A byte that waits for an aligned parser is one of a frame it is not through
\* with.
LEMMA InsideFrame ==
  ASSUME TypeOK, AllLegible, Aligned, Len(delivered) <= Len(sent), NeedsByte, rx # <<>>
  PROVE  /\ Len(delivered) < Len(sent) /\ Len(delivered) + 1 \in 1..Len(sent)
         /\ Frame \in PeerFrames /\ Legible(Frame) /\ Reads(Frame) /\ Buffered(Frame)
         /\ framePtr_ \in 0..254 /\ framePtr_ < Len(Frame.bytes) /\ Frame.bytes \in Seq(Byte)
<1>1. PICK off \in [1..Len(sent) + 1 -> Int] : Layout(off) /\ Current(off)
  BY DEF Aligned
<1>2. /\ Len(sent) \in Nat /\ Len(delivered) \in Nat /\ framePtr_ \in Nat
      /\ StreamLength \in Nat /\ StreamLength >= 1
  <2>1. rx \in Seq(Byte) /\ Len(rx) >= 1
    BY DEF TypeOK, SocketTypeOK
  <2> QED BY <2>1, Lengths, IndexArithmetic DEF TypeOK, ParserTypeOK, StreamLength
<1>3. Len(delivered) < Len(sent)
  <2>1. SUFFICES ASSUME Len(delivered) = Len(sent) PROVE FALSE
    BY <1>2
  <2>2. off[Len(sent) + 1] = 0
    BY <1>1, <1>2, <2>1 DEF Current, AtBoundary
  <2>3. StreamLength <= off[Len(sent) + 1]
    BY <1>1, <1>2 DEF Layout
  <2> QED BY <1>2, <2>2, <2>3
<1>4. Len(delivered) + 1 \in 1..Len(sent)
  BY <1>2, <1>3
<1>5. Frame \in PeerFrames /\ Legible(Frame) /\ Reads(Frame) /\ Buffered(Frame)
  <2>1. Frame \in PeerFrames
    BY <1>4, SentFrames DEF Frame
  <2> QED BY <1>1, <1>3, <2>1 DEF AllLegible, Current, Frame
<1>6. framePtr_ \in 0..254 /\ framePtr_ < Len(Frame.bytes) /\ Frame.bytes \in Seq(Byte)
  BY <1>5, PositionInFrame, BytesAssumption
<1> QED BY <1>3, <1>4, <1>5, <1>6

\* The byte that readByte gets is the next one of the frame.
LEMMA NextByte ==
  ASSUME TypeOK, TypeOK', AllLegible, Aligned, Len(delivered) <= Len(sent),
         NEW state, GotByte(state)
  PROVE  /\ Len(delivered) < Len(sent) /\ Frame \in PeerFrames /\ Legible(Frame) /\ Reads(Frame)
         /\ framePtr_ \in 0..254 /\ framePtr_ < Len(Frame.bytes)
         /\ Ptr = framePtr_ + 1
         /\ \A j \in 1..Ptr : Buf[j - 1] = Frame.bytes[j]
         /\ Placed(Ptr)
<1>1. PICK off \in [1..Len(sent) + 1 -> Int] : Layout(off) /\ Current(off)
  BY DEF Aligned
<1>2. NeedsByte /\ rx # <<>> /\ rx' = Tail(rx) /\ UNCHANGED <<up, peer, wire, sent>>
  BY DEF GotByte, historyVars
<1>3. /\ rx \in Seq(Byte) /\ Len(rx) \in Nat /\ Len(wire) \in Nat /\ Len(rx) >= 1
      /\ StreamLength \in Nat /\ StreamLength >= 1
  BY <1>2, Lengths DEF TypeOK, SocketTypeOK, StreamLength
<1>4. Len(sent) \in Nat /\ Len(delivered) \in Nat /\ framePtr_ \in Nat
  BY Lengths, IndexArithmetic DEF TypeOK, ParserTypeOK
<1> DEFINE n == Len(delivered) + 1
<1>5. Len(delivered) < Len(sent)
  BY <1>2, InsideFrame
<1>6. n \in 1..Len(sent)
  BY <1>2, InsideFrame
<1>7. Frame \in PeerFrames /\ Legible(Frame) /\ Reads(Frame) /\ Buffered(Frame)
  BY <1>2, InsideFrame
<1>8. framePtr_ \in 0..254 /\ framePtr_ < Len(Frame.bytes) /\ Frame.bytes \in Seq(Byte)
  BY <1>2, InsideFrame
<1>9. Ptr = framePtr_ + 1
  BY <1>8, CounterArithmetic DEF Ptr
<1>10. Head(rx) = Frame.bytes[framePtr_ + 1]
  <2>1. framePtr_ + 1 \in 1..Len(Frame.bytes)
    BY <1>8
  <2>2. off[n] = -framePtr_
    BY <1>1 DEF Current
  <2>3. off[n] + (framePtr_ + 1) = 1
    BY <1>4, <2>2
  <2>4. 1 \in 1..StreamLength
    BY <1>3
  <2>5. StreamAt(off[n] + (framePtr_ + 1)) = sent[n].bytes[framePtr_ + 1]
    BY <1>1, <1>6, <2>1, <2>3, <2>4 DEF Layout, Frame
  <2>6. StreamAt(1) = Head(rx)
    BY <1>3 DEF StreamAt
  <2> QED BY <2>3, <2>5, <2>6 DEF Frame
<1>11. \A j \in 1..Ptr : Buf[j - 1] = Frame.bytes[j]
  <2>1. messageBuffer_ \in [Slots -> Byte]
    BY DEF TypeOK, ParserTypeOK
  <2>2. ASSUME NEW j \in 1..Ptr PROVE Buf[j - 1] = Frame.bytes[j]
    <3>1. j - 1 \in Slots
      BY <1>8, <1>9, SizeAssumption DEF GotByte, Slots
    <3>2. CASE j = framePtr_ + 1
      BY <1>8, <1>10, <2>1, <3>1, <3>2 DEF Buf
    <3>3. CASE j # framePtr_ + 1
      <4>1. j \in 1..framePtr_ /\ j - 1 # framePtr_
        BY <1>8, <1>9, <3>3
      <4>2. Buf[j - 1] = messageBuffer_[j - 1]
        BY <2>1, <3>1, <4>1 DEF Buf
      <4> QED BY <1>7, <4>1, <4>2 DEF Buffered
    <3> QED BY <3>2, <3>3
  <2> QED BY <2>2
<1>12. StreamCut(1)
  <2>1. Len(rx') = Len(rx) - 1 /\ \A p \in 1..Len(rx) - 1 : rx'[p] = rx[p + 1]
    BY <1>2, <1>3
  <2>2. StreamLength' = StreamLength - 1
    BY <1>2, <1>3, <2>1 DEF StreamLength
  <2>3. ASSUME NEW p \in 1..StreamLength' PROVE StreamAt(p)' = StreamAt(p + 1)
    <3>1. CASE p <= Len(rx) - 1
      BY <1>2, <1>3, <2>1, <2>2, <3>1 DEF StreamAt
    <3>2. CASE p > Len(rx) - 1
      <4>1. p - (Len(rx) - 1) = p + 1 - Len(rx)
        BY <1>3, <2>2
      <4>2. StreamAt(p)' = wire[p - (Len(rx) - 1)]
        BY <1>2, <1>3, <2>1, <2>2, <3>2 DEF StreamAt
      <4>3. StreamAt(p + 1) = wire[p + 1 - Len(rx)]
        BY <1>3, <2>2, <3>2 DEF StreamAt
      <4> QED BY <4>1, <4>2, <4>3
    <3> QED BY <1>3, <2>2, <3>1, <3>2
  <2> QED BY <1>2, <1>3, <2>2, <2>3 DEF StreamCut
<1>13. Placed(Ptr)
  BY <1>2, <1>9, <1>12, PlacedByCut
<1> QED BY <1>5, <1>7, <1>8, <1>9, <1>11, <1>13

\* The parser goes on in the same frame.
LEMMA StaysInFrame ==
  ASSUME TypeOK, TypeOK', Len(delivered) < Len(sent), UNCHANGED <<delivered, sent>>,
         Placed(framePtr_'), Reads(Frame)',
         \A j \in 1..framePtr_' : messageBuffer_'[j - 1] = Frame.bytes[j]
  PROVE  Aligned'
<1>1. PICK off \in [1..Len(sent) + 1 -> Int] : Layout(off)' /\ off[Len(delivered) + 1] = -framePtr_'
  BY DEF Placed
<1>2. Len(sent) \in Nat /\ Len(delivered) \in Nat
  BY Lengths
<1>3. Current(off)'
  BY <1>1, <1>2 DEF Current, Frame, Buffered
<1> QED BY <1>1, <1>3 DEF Aligned

\* The handlers' calls stay those of the peer's frames when one is added.
LEMMA OneMoreInOrder ==
  ASSUME TypeOK, InOrder, Len(delivered) < Len(sent), sent' = sent, NEW e, e = Frame.event,
         delivered' = Append(delivered, e)
  PROVE  InOrder'
<1>1. /\ Len(sent) \in Nat /\ Len(delivered) \in Nat
      /\ delivered \in Seq([cb : Handlers, msg : Seq(Byte)])
  BY Lengths DEF TypeOK, HistoryTypeOK
<1>2. /\ Len(delivered') = Len(delivered) + 1
      /\ DOMAIN delivered' = 1..Len(delivered) + 1
      /\ delivered'[Len(delivered) + 1] = e
      /\ \A i \in 1..Len(delivered) : delivered'[i] = delivered[i]
  BY <1>1
<1>3. ASSUME NEW i \in DOMAIN delivered' PROVE delivered'[i] = sent[i].event
  <2>1. CASE i = Len(delivered) + 1
    BY <1>2, <2>1 DEF Frame
  <2>2. CASE i # Len(delivered) + 1
    <3>1. i \in 1..Len(delivered) /\ DOMAIN delivered = 1..Len(delivered)
      BY <1>1, <1>2, <2>2
    <3> QED BY <1>2, <3>1 DEF InOrder
  <2> QED BY <2>1, <2>2
<1>4. Len(delivered') <= Len(sent)
  BY <1>1, <1>2
<1> QED BY <1>3, <1>4 DEF InOrder

\* At the end of a frame its handler is called, or the connection ends.
LEMMA FrameEnds ==
  ASSUME TypeOK, TypeOK', InOrder, Len(delivered) < Len(sent), sent' = sent,
         Frame \in PeerFrames, Legible(Frame), Fin(Frame.bytes[1]),
         NEW h \in HeaderSizes, HasHeader(Frame, h, payloadLength_),
         NEW buf, NEW ptr, ptr = h + payloadLength_, FrameComplete(buf, ptr),
         \A j \in 1..ptr : buf[j - 1] = Frame.bytes[j], Placed(ptr)
  PROVE  InOrder' /\ (Ending' \/ Aligned')
<1>1. /\ Len(sent) \in Nat /\ Len(delivered) \in Nat /\ payloadLength_ \in Nat /\ h \in 2..8
      /\ delivered \in Seq([cb : Handlers, msg : Seq(Byte)])
  <2>1. Len(sent) \in Nat /\ Len(delivered) \in Nat
    BY Lengths
  <2>2. payloadLength_ \in Nat /\ delivered \in Seq([cb : Handlers, msg : Seq(Byte)])
    BY IndexArithmetic DEF TypeOK, HistoryTypeOK, ParserTypeOK
  <2>3. h \in 2..8
    BY DEF HeaderSizes
  <2> QED BY <2>1, <2>2, <2>3
<1>2. frameState_' = "Opcode" /\ framePtr_' = 0
  BY DEF FrameComplete, NextFrame
<1>3. buf[0] = Frame.bytes[1]
  <2>1. 1 \in 1..ptr /\ 1 - 1 = 0
    BY <1>1
  <2> QED BY <2>1
<1> DEFINE op == OpcodeOf(buf[0])
           e == [cb |-> Handler[op], msg |-> Message(buf, ptr)]
<1>4. CASE op \in DOMAIN Handler /\ delivered' = Append(delivered, e)
  <2>1. Frame.event = [cb |-> Handler[op],
                       msg |-> [i \in 1..payloadLength_ |-> Frame.bytes[h + i]]]
    <3>1. OpcodeOf(Frame.bytes[1]) = op /\ op \in DOMAIN Handler
      BY <1>3, <1>4
    <3>2. payloadLength_ \in Nat
      BY <1>1
    <3> HIDE DEF op, e
    <3>3. Frame.event = IF OpcodeOf(Frame.bytes[1]) \in DOMAIN Handler
                          THEN [cb |-> Handler[OpcodeOf(Frame.bytes[1])],
                                msg |-> [i \in 1..payloadLength_ |-> Frame.bytes[h + i]]]
                          ELSE NoEvent
      BY <3>2, HeaderUnique
    <3> QED BY <3>1, <3>3
  <2>2. Message(buf, ptr) = [i \in 1..payloadLength_ |-> Frame.bytes[h + i]]
    <3>1. ASSUME NEW i \in 1..payloadLength_
          PROVE  buf[ptr - payloadLength_ + i - 1] = Frame.bytes[h + i]
      <4>1. h + i \in 1..ptr /\ ptr - payloadLength_ + i - 1 = (h + i) - 1
        BY <1>1
      <4> QED BY <4>1
    <3> QED BY <3>1 DEF Message
  <2>3. InOrder'
    <3>1. e = Frame.event
      BY <2>1, <2>2
    <3> HIDE DEF e
    <3> QED BY <1>4, <3>1, OneMoreInOrder
  <2>4. Len(delivered') = Len(delivered) + 1
    <3> HIDE DEF e
    <3> QED BY <1>1, <1>4
  <2>5. PICK off \in [1..Len(sent) + 1 -> Int] : Layout(off)' /\ off[Len(delivered) + 1] = -ptr
    BY DEF Placed
  <2>6. off[Len(delivered) + 2] = 0
    <3> DEFINE n == Len(delivered) + 1
    <3>1. n \in 1..Len(sent) /\ n + 1 = Len(delivered) + 2
      BY <1>1
    <3>2. off[n + 1] = off[n] + Len(sent[n].bytes)
      BY <2>5, <3>1 DEF Layout
    <3>3. Len(sent[n].bytes) = ptr
      BY DEF HasHeader, Frame
    <3>4. ptr \in Nat
      BY <1>1
    <3> QED BY <2>5, <3>1, <3>2, <3>3, <3>4
  <2>7. Current(off)'
    <3>1. Len(delivered') + 1 = Len(delivered) + 2
      BY <1>1, <2>4
    <3>2. AtBoundary'
      BY <1>2 DEF AtBoundary
    <3>3. 1..framePtr_' = {}
      BY <1>2
    <3>4. off[Len(delivered') + 1] = -framePtr_'
      BY <1>2, <2>6, <3>1
    <3> QED BY <3>2, <3>3, <3>4 DEF Current, Reads, Buffered
  <2> QED BY <2>3, <2>5, <2>7 DEF Aligned
<1>5. CASE pc' \in {"closing", "onError"} /\ UNCHANGED delivered
  BY <1>2, <1>5 DEF InOrder, Ending
<1> QED
  BY <1>4, <1>5 DEF FrameComplete, Error

-------------------------------------------------------------------------------
(* The reader's steps. *)

\* A length byte of the first format has no flag in it.
LEMMA ShortLengths == \A b \in Byte : b <= 125 => LengthOf(b) = b /\ ~Masked(b) /\ b \in Nat
  BY DEF Byte, LengthOf, Masked

\* In a frame's header: each byte leads to the state that fits the next one, or
\* to the end of the connection.
LEMMA HeaderByteInOrder ==
  ASSUME TypeOK, TypeOK', AllLegible, InOrder, Aligned,
         ReadOpcode \/ ReadLength \/ ReadLength2 \/ ReadLength8 \/ ReadMask
  PROVE  InOrder' /\ (Ending' \/ Aligned')
<1>1. PICK state : GotByte(state) /\ framePtr_' = Ptr /\ UNCHANGED delivered
  BY DEF ReadOpcode, ReadLength, ReadLength2, ReadLength8, ReadMask
<1>2. messageBuffer_' = Buf /\ sent' = sent /\ pc = "reading"
  BY <1>1 DEF GotByte, historyVars
<1>3. /\ Len(delivered) < Len(sent) /\ Frame \in PeerFrames /\ Legible(Frame) /\ Reads(Frame)
      /\ framePtr_ \in 0..254 /\ framePtr_ < Len(Frame.bytes) /\ Ptr = framePtr_ + 1
      /\ \A j \in 1..Ptr : Buf[j - 1] = Frame.bytes[j]
      /\ Placed(Ptr)
  BY <1>1, NextByte DEF InOrder
<1>4. InOrder'
  BY <1>1, <1>2 DEF InOrder
<1>5. Frame' = Frame
  BY <1>1, <1>2 DEF Frame
<1>6. Reads(Frame)' => Aligned'
  BY <1>1, <1>2, <1>3, StaysInFrame
<1>7. ASSUME NEW k \in 1..Len(Frame.bytes) PROVE Frame.bytes[k] \in Byte
  BY <1>3, <1>7, BytesAssumption
<1>8. CASE ReadOpcode
  <2>1. framePtr_ = 0 /\ Ptr = 1
    BY <1>3, <1>8 DEF ReadOpcode, GotByte, Reads, AtBoundary, InFrame
  <2>2. Buf[0] = Frame.bytes[1]
    BY <1>3, <2>1
  <2>3. CASE ~Fin(Frame.bytes[1])
    BY <1>4, <1>8, <2>1, <2>2, <2>3 DEF ReadOpcode, GotByte, Error, Ending
  <2>4. CASE Fin(Frame.bytes[1])
    BY <1>1, <1>4, <1>5, <1>6, <1>8, <2>1, <2>2, <2>4 DEF ReadOpcode, Reads, InFrame
  <2> QED BY <2>3, <2>4
<1>9. CASE ReadLength
  <2>1. framePtr_ = 1 /\ Ptr = 2 /\ Fin(Frame.bytes[1])
    BY <1>3, <1>9 DEF ReadLength, GotByte, Reads, AtBoundary, InFrame
  <2>2. Buf[1] = Frame.bytes[2] /\ Frame.bytes[2] \in Byte
    BY <1>3, <1>7, <2>1, BytesAssumption
  <2> DEFINE b == Frame.bytes[2]
  <2>3. CASE LengthOf(b) <= 125
    <3>1. HasHeader(Frame, 2, b) /\ b <= 125
      BY <1>3, <2>1, <2>2, <2>3, HeaderByLength
    <3>2. LengthOf(b) = b /\ ~Masked(b)
      BY <2>2, <3>1, ShortLengths
    <3>3. /\ payloadLength_' = b /\ payloadRemainingBytes_' = b
          /\ frameState_' = "Payload" /\ framePtr_' = 2
      <4>1. LengthOf(Buf[1]) = b /\ ~(b > 125) /\ framePtr_' = 2
        BY <1>1, <2>1, <2>2, <3>1, <3>2, ShortLengths
      <4>2. HeaderComplete(b)
        BY <1>9, <2>1, <4>1 DEF ReadLength
      <4> QED BY <2>2, <3>2, <4>1, <4>2 DEF HeaderComplete
    <3>4. InPayload(Frame, 2)'
      <4>1. b \in Nat
        BY <2>2, <3>1, ShortLengths
      <4>2. HasHeader(Frame, 2, payloadLength_)'
        BY <1>5, <3>1, <3>3 DEF HasHeader
      <4> QED BY <3>3, <4>1, <4>2 DEF InPayload
    <3> QED BY <1>4, <1>5, <1>6, <2>1, <3>3, <3>4 DEF Reads, InFrame, HeaderSizes
  <2>4. CASE LengthOf(b) > 125
    <3>1. LengthOf(b) \in {126, 127}
      BY <2>2, <2>4, ByteArithmetic
    <3>2. framePtr_' = 2 /\ frameState_' = IF LengthOf(b) = 126 THEN "Length2" ELSE "Length8"
      BY <1>1, <1>9, <2>1, <2>2, <2>4, <3>1 DEF ReadLength
    <3> QED BY <1>4, <1>5, <1>6, <2>1, <3>1, <3>2 DEF Reads, InFrame
  <2> QED BY <2>2, <2>3, <2>4, ByteArithmetic
<1>10. CASE ReadLength2
  <2>1. /\ framePtr_ \in 2..3 /\ Ptr = framePtr_ + 1 /\ Fin(Frame.bytes[1])
        /\ LengthOf(Frame.bytes[2]) = 126
    BY <1>3, <1>10 DEF ReadLength2, GotByte, Reads, AtBoundary, InFrame
  <2>2. CASE framePtr_ = 2
    <3>1. framePtr_' = 3 /\ frameState_' = "Length2"
      BY <1>1, <1>10, <2>1, <2>2 DEF ReadLength2, GotByte
    <3> QED BY <1>4, <1>5, <1>6, <2>1, <3>1 DEF Reads, InFrame
  <2>3. CASE framePtr_ = 3
    <3> DEFINE len == Length16(Frame.bytes[3], Frame.bytes[4])
    <3>1. Ptr = 4 /\ framePtr_' = 4 /\ Buf[1] = Frame.bytes[2] /\ Length16(Buf[2], Buf[3]) = len
      <4>1. Ptr = 4 /\ framePtr_' = 4 /\ 2 \in 1..Ptr /\ 3 \in 1..Ptr /\ 4 \in 1..Ptr
        BY <1>1, <1>3, <2>1, <2>3
      <4>2. Buf[2 - 1] = Frame.bytes[2] /\ Buf[3 - 1] = Frame.bytes[3] /\ Buf[4 - 1] = Frame.bytes[4]
        BY <1>3, <4>1
      <4> QED BY <4>1, <4>2
    <3>2. Frame.bytes[2] \in Byte /\ Frame.bytes[3] \in Byte /\ Frame.bytes[4] \in Byte /\ len \in Nat
      <4>1. 2 \in 1..Len(Frame.bytes) /\ 3 \in 1..Len(Frame.bytes) /\ 4 \in 1..Len(Frame.bytes)
        BY <1>3, <2>3, BytesAssumption
      <4> QED BY <1>7, <4>1, ByteArithmetic
    <3>3. CASE TooBig(len)
      BY <1>2, <1>4, <1>10, <2>1, <3>1, <3>3 DEF ReadLength2, GotByte, Error, Ending
    <3>4. CASE ~TooBig(len)
      <4>1. /\ payloadLength_' = len /\ payloadRemainingBytes_' = len
            /\ frameState_' = IF Masked(Frame.bytes[2]) THEN "Mask" ELSE "Payload"
        BY <1>10, <3>1, <3>4 DEF ReadLength2, HeaderComplete
      <4>2. IF Masked(Frame.bytes[2]) THEN HasHeader(Frame, 8, len) ELSE HasHeader(Frame, 4, len)
        BY <1>3, <2>1, <3>2, <3>4, HeaderByLength
      <4>3. CASE Masked(Frame.bytes[2])
        BY <1>4, <1>5, <1>6, <2>1, <3>1, <4>1, <4>2, <4>3 DEF Reads, InFrame, HasHeader
      <4>4. CASE ~Masked(Frame.bytes[2])
        <5>1. InPayload(Frame, 4)'
          <6>1. HasHeader(Frame, 4, payloadLength_)'
            BY <1>5, <4>1, <4>2, <4>4 DEF HasHeader
          <6> QED BY <3>1, <3>2, <4>1, <6>1 DEF InPayload
        <5> QED BY <1>4, <1>5, <1>6, <2>1, <4>1, <4>4, <5>1 DEF Reads, InFrame, HeaderSizes
      <4> QED BY <4>3, <4>4
    <3> QED BY <3>3, <3>4
  <2> QED BY <2>1, <2>2, <2>3
<1>11. CASE ReadLength8
  <2>1. /\ framePtr_ \in 2..9 /\ Ptr = framePtr_ + 1 /\ Fin(Frame.bytes[1])
        /\ LengthOf(Frame.bytes[2]) = 127 /\ frameState_' = "Length8"
    BY <1>3, <1>11 DEF ReadLength8, GotByte, Reads, AtBoundary, InFrame
  <2>2. CASE framePtr_ # 9
    BY <1>1, <1>4, <1>5, <1>6, <2>1, <2>2 DEF Reads, InFrame
  <2>3. CASE framePtr_ = 9
    BY <1>4, <1>11, <2>1, <2>3 DEF ReadLength8, Error, Ending
  <2> QED BY <2>2, <2>3
<1>12. CASE ReadMask
  <2>1. /\ framePtr_ \in 4..7 /\ Ptr = framePtr_ + 1 /\ Fin(Frame.bytes[1])
        /\ HasHeader(Frame, 8, payloadLength_) /\ payloadRemainingBytes_ = payloadLength_
        /\ UNCHANGED <<payloadLength_, payloadRemainingBytes_>>
    BY <1>3, <1>12 DEF ReadMask, GotByte, Reads, AtBoundary, InFrame
  <2>2. frameState_' = IF framePtr_ = 7 THEN "Payload" ELSE "Mask"
    BY <1>12, <2>1 DEF ReadMask, MaskDone
  <2>3. CASE framePtr_ # 7
    BY <1>1, <1>4, <1>5, <1>6, <2>1, <2>2, <2>3 DEF Reads, InFrame, HasHeader
  <2>4. CASE framePtr_ = 7
    <3>1. payloadLength_ \in Nat /\ framePtr_' = 8
      <4>1. payloadLength_ \in Byte
        BY DEF TypeOK, ParserTypeOK
      <4> QED BY <1>1, <2>1, <2>4, <4>1 DEF Byte
    <3>2. InPayload(Frame, 8)'
      <4>1. HasHeader(Frame, 8, payloadLength_)'
        BY <1>5, <2>1 DEF HasHeader
      <4> QED BY <2>1, <3>1, <4>1 DEF InPayload
    <3> QED BY <1>4, <1>5, <1>6, <2>1, <2>2, <2>4, <3>2 DEF Reads, InFrame, HeaderSizes
  <2> QED BY <2>3, <2>4
<1> QED BY <1>8, <1>9, <1>10, <1>11, <1>12

\* In the payload: a byte is kept, or it is the last one and the frame ends.
LEMMA PayloadByteInOrder ==
  ASSUME TypeOK, TypeOK', AllLegible, InOrder, Aligned, ReadPayload
  PROVE  InOrder' /\ (Ending' \/ Aligned')
<1>1. GotByte("Payload") /\ PayloadStep(Buf, Ptr)
  BY DEF ReadPayload
<1>2. messageBuffer_' = Buf /\ sent' = sent /\ frameState_ = "Payload" /\ NeedsByte
  BY <1>1 DEF GotByte, historyVars
<1>3. /\ Len(delivered) < Len(sent) /\ Frame \in PeerFrames /\ Legible(Frame) /\ Reads(Frame)
      /\ framePtr_ \in 0..254 /\ framePtr_ < Len(Frame.bytes) /\ Ptr = framePtr_ + 1
      /\ \A j \in 1..Ptr : Buf[j - 1] = Frame.bytes[j]
      /\ Placed(Ptr)
  BY <1>1, NextByte DEF InOrder
<1>4. Fin(Frame.bytes[1]) /\ \E h \in HeaderSizes : InPayload(Frame, h)
  BY <1>2, <1>3 DEF Reads, AtBoundary, InFrame
<1>5. PICK h \in HeaderSizes : InPayload(Frame, h)
  BY <1>4
<1>6. /\ HasHeader(Frame, h, payloadLength_) /\ payloadRemainingBytes_ \in 1..payloadLength_
      /\ framePtr_ = h + payloadLength_ - payloadRemainingBytes_
  BY <1>2, <1>5 DEF InPayload, NeedsByte
<1>7. /\ payloadLength_ \in 0..255 /\ h \in 2..8
      /\ payloadRemainingBytes_' = payloadRemainingBytes_ - 1 /\ payloadLength_' = payloadLength_
  <2>1. payloadLength_ \in 0..255 /\ h \in 2..8
    <3>1. payloadLength_ \in Byte
      BY DEF TypeOK, ParserTypeOK
    <3> QED BY <3>1 DEF Byte, HeaderSizes
  <2>2. payloadRemainingBytes_ \in 1..255
    BY <1>6, <2>1
  <2> QED BY <1>1, <2>1, <2>2, CounterArithmetic DEF PayloadStep
<1>8. CASE payloadRemainingBytes_' # 0
  <2>1. framePtr_' = Ptr /\ UNCHANGED <<frameState_, delivered>>
    BY <1>1, <1>8 DEF PayloadStep
  <2>2. Frame' = Frame
    BY <1>2, <2>1 DEF Frame
  <2>3. HasHeader(Frame, h, payloadLength_)'
    BY <1>6, <1>7, <2>2 DEF HasHeader
  <2>4. payloadRemainingBytes_' \in 1..payloadLength_
        /\ framePtr_' = h + payloadLength_ - payloadRemainingBytes_'
    BY <1>3, <1>6, <1>7, <1>8, <2>1
  <2>5. InPayload(Frame, h)'
    BY <1>7, <2>3, <2>4 DEF InPayload
  <2>6. Reads(Frame)'
    BY <1>2, <1>4, <2>1, <2>2, <2>5 DEF Reads, InFrame
  <2>7. Aligned'
    BY <1>2, <1>3, <2>1, <2>6, StaysInFrame
  <2>8. InOrder'
    BY <1>2, <2>1 DEF InOrder
  <2> QED BY <2>7, <2>8
<1>9. CASE payloadRemainingBytes_' = 0
  <2>1. Ptr = h + payloadLength_ /\ ~(Ptr <= payloadLength_)
    BY <1>3, <1>6, <1>7, <1>9
  <2>2. FrameComplete(Buf, Ptr)
    BY <1>1, <1>9, <2>1 DEF PayloadStep
  <2> QED BY <1>2, <1>3, <1>4, <1>6, <2>1, <2>2, FrameEnds
<1> QED BY <1>8, <1>9

\* Without a payload the parser has read the frame when it has its header.
LEMMA EmptyPayload ==
  ASSUME TypeOK, AllLegible, InOrder, Aligned, frameState_ = "Payload", payloadLength_ = 0
  PROVE  /\ Len(delivered) < Len(sent) /\ Frame \in PeerFrames /\ Legible(Frame)
         /\ Buffered(Frame) /\ Fin(Frame.bytes[1])
         /\ \E h \in HeaderSizes : InPayload(Frame, h)
<1>1. Len(delivered) # Len(sent)
  BY DEF Aligned, Current, AtBoundary
<1>2. Len(delivered) < Len(sent) /\ Len(delivered) + 1 \in 1..Len(sent)
  BY <1>1, Lengths DEF InOrder
<1>3. Frame \in PeerFrames
  BY <1>2, SentFrames DEF Frame
<1>4. Reads(Frame) /\ Buffered(Frame)
  BY <1>2 DEF Aligned, Current, Frame
<1> QED BY <1>2, <1>3, <1>4 DEF AllLegible, Reads, AtBoundary, InFrame

\* A turn without a byte: an empty payload's counter goes on, or the frame ends.
LEMMA EmptyPayloadInOrder ==
  ASSUME TypeOK, TypeOK', AllLegible, InOrder, Aligned, SpinEmptyPayload
  PROVE  InOrder' /\ (Ending' \/ Aligned')
<1>1. /\ PayloadStep(messageBuffer_, framePtr_) /\ frameState_ = "Payload" /\ payloadLength_ = 0
      /\ UNCHANGED <<up, peer, wire, rx, messageBuffer_, sent>>
  BY DEF SpinEmptyPayload, NeedsByte, socketVars, historyVars
<1>2. Len(delivered) < Len(sent) /\ Frame \in PeerFrames /\ Legible(Frame)
  BY <1>1, EmptyPayload
<1>3. Buffered(Frame)
  BY <1>1, EmptyPayload
<1>4. Fin(Frame.bytes[1]) /\ \E h \in HeaderSizes : InPayload(Frame, h)
  BY <1>1, EmptyPayload
<1>5. PICK h \in HeaderSizes : InPayload(Frame, h)
  BY <1>4
<1>6. HasHeader(Frame, h, payloadLength_) /\ framePtr_ = h /\ h \in 2..8
  BY <1>1, <1>5 DEF InPayload, HeaderSizes
<1>7. Placed(framePtr_)
  <2>1. StreamCut(0)
    BY <1>1, QuietStream
  <2>2. Placed(framePtr_ + 0)
    BY <1>1, <1>2, <2>1, PlacedByCut
  <2>3. framePtr_ + 0 = framePtr_
    BY <1>6
  <2> QED BY <2>2, <2>3
<1>8. \A j \in 1..framePtr_ : messageBuffer_[j - 1] = Frame.bytes[j]
  BY <1>3 DEF Buffered
<1>9. CASE payloadRemainingBytes_' # 0
  <2>1. framePtr_' = framePtr_ /\ UNCHANGED <<frameState_, payloadLength_, delivered>>
    BY <1>1, <1>9 DEF PayloadStep
  <2>2. Frame' = Frame
    BY <1>1, <2>1 DEF Frame
  <2>3. HasHeader(Frame, h, payloadLength_)'
    BY <1>6, <2>1, <2>2 DEF HasHeader
  <2>4. InPayload(Frame, h)'
    BY <1>1, <1>6, <2>1, <2>3 DEF InPayload
  <2>5. Reads(Frame)'
    BY <1>1, <1>4, <2>1, <2>2, <2>4 DEF Reads, InFrame
  <2>6. Aligned'
    BY <1>1, <1>2, <1>7, <1>8, <2>1, <2>5, StaysInFrame
  <2>7. InOrder'
    BY <1>1, <2>1 DEF InOrder
  <2> QED BY <2>6, <2>7
<1>10. CASE payloadRemainingBytes_' = 0
  <2>1. framePtr_ = h + payloadLength_ /\ ~(framePtr_ <= payloadLength_)
    BY <1>1, <1>6
  <2>2. FrameComplete(messageBuffer_, framePtr_)
    BY <1>1, <1>10, <2>1 DEF PayloadStep
  <2> QED BY <1>1, <1>2, <1>4, <1>6, <1>7, <1>8, <2>1, <2>2, FrameEnds
<1> QED BY <1>9, <1>10

-------------------------------------------------------------------------------
(* Every step. *)

\* Addition is associative.
LEMMA Sums == \A a, b, c \in Nat : a + (b + c) = (a + b) + c
  OBVIOUS

\* A frame comes to the end of the stream, from a peer that may leave behind it.
FrameComes(f) ==
  /\ up /\ peer = "open"
  /\ wire' = wire \o f.bytes /\ sent' = Append(sent, f)
  /\ UNCHANGED <<up, rx, parserVars, delivered>>

LEMMA SendingBrings == \A f : PeerSends(f) => FrameComes(f)
  BY DEF PeerSends, PeerWrites, FrameComes

\* It goes behind the others.
LEMMA LayoutGrows ==
  ASSUME TypeOK, NEW f \in PeerFrames, FrameComes(f),
         NEW off \in [1..Len(sent) + 1 -> Int], Layout(off)
  PROVE  \E more \in [1..Len(sent') + 1 -> Int] :
           Layout(more)' /\ \A i \in 1..Len(sent) + 1 : more[i] = off[i]
<1>1. Layout(off)
  OBVIOUS
<1>2. /\ up /\ peer = "open" /\ wire' = wire \o f.bytes /\ sent' = Append(sent, f)
      /\ UNCHANGED <<up, rx, parserVars, delivered>>
  BY DEF FrameComes
<1>3. /\ f.bytes \in Seq(Byte) /\ Len(f.bytes) \in Nat
      /\ rx \in Seq(Byte) /\ wire \in Seq(Byte) /\ sent \in Seq(PeerFrames)
      /\ Len(rx) \in Nat /\ Len(wire) \in Nat /\ Len(sent) \in Nat /\ Len(delivered) \in Nat
  BY Lengths, BytesAssumption DEF TypeOK, SocketTypeOK, HistoryTypeOK
<1>4. /\ Len(sent') = Len(sent) + 1 /\ sent'[Len(sent) + 1] = f
      /\ \A i \in 1..Len(sent) : sent'[i] = sent[i]
  BY <1>2, <1>3
<1>5. /\ Len(wire') = Len(wire) + Len(f.bytes)
      /\ \A p \in 1..Len(wire) : wire'[p] = wire[p]
      /\ \A p \in 1..Len(f.bytes) : wire'[Len(wire) + p] = f.bytes[p]
  BY <1>2, <1>3
<1>6. StreamLength \in Nat /\ StreamLength' = StreamLength + Len(f.bytes)
  <2>1. StreamLength' = Len(rx) + Len(wire')
    BY <1>2 DEF StreamLength
  <2>2. StreamLength = Len(rx) + Len(wire)
    BY DEF StreamLength
  <2>3. StreamLength' = Len(rx) + (Len(wire) + Len(f.bytes))
    BY <1>5, <2>1
  <2>4. Len(rx) + (Len(wire) + Len(f.bytes)) = (Len(rx) + Len(wire)) + Len(f.bytes)
    BY <1>3, Sums, Zenon
  <2> QED BY <2>2, <2>3, <2>4, Lengths, Zenon
<1> DEFINE n == Len(sent) + 1
<1>7. off[n] = StreamLength
  BY <1>1, <1>2 DEF Layout
<1>8. PICK more \in [1..Len(sent) + 2 -> Int] :
        /\ more[Len(sent) + 2] = StreamLength + Len(f.bytes)
        /\ \A i \in 1..n : more[i] = off[i]
  <2> DEFINE m == [i \in 1..Len(sent) + 2 |-> IF i \in 1..n THEN off[i] ELSE StreamLength + Len(f.bytes)]
  <2>1. m \in [1..Len(sent) + 2 -> Int]
    BY <1>3, <1>6
  <2>2. m[Len(sent) + 2] = StreamLength + Len(f.bytes) /\ \A i \in 1..n : m[i] = off[i]
    BY <1>3
  <2> HIDE DEF m
  <2> QED BY <2>1, <2>2
<1>9. ASSUME NEW i \in 1..Len(sent')
      PROVE  more[i + 1] = more[i] + Len(sent'[i].bytes) /\ more[i + 1] <= more[Len(sent') + 1]
  <2>1. CASE i = n
    <3>1. /\ i + 1 = Len(sent) + 2 /\ Len(sent') + 1 = Len(sent) + 2 /\ i \in 1..n
          /\ sent'[i] = f
      BY <1>3, <1>4, <2>1
    <3>2. more[i] = StreamLength /\ more[Len(sent) + 2] = StreamLength + Len(f.bytes)
      BY <1>7, <1>8, <2>1, <3>1
    <3>3. more[Len(sent) + 2] \in Int
      BY <1>3, <1>6, <3>2
    <3> QED BY <3>1, <3>2, <3>3
  <2>2. CASE i \in 1..Len(sent)
    <3>1. i \in 1..n /\ i + 1 \in 1..n
      BY <1>3, <2>2
    <3>2. off[i + 1] = off[i] + Len(sent[i].bytes) /\ off[i + 1] <= off[n]
      BY <1>1, <2>2 DEF Layout
    <3>3. more[i] = off[i] /\ more[i + 1] = off[i + 1] /\ off[i + 1] \in Int
      BY <1>8, <3>1
    <3>4. more[Len(sent') + 1] = off[n] + Len(f.bytes)
      BY <1>3, <1>4, <1>7, <1>8
    <3>5. more[i + 1] = more[i] + Len(sent'[i].bytes)
      BY <1>4, <2>2, <3>2, <3>3
    <3>6. off[n] \in Int
      BY <1>6, <1>7
    <3>7. more[i + 1] <= more[Len(sent') + 1]
      BY <1>3, <3>2, <3>3, <3>4, <3>6
    <3> QED BY <3>5, <3>7
  <2> QED BY <1>3, <1>4, <2>1, <2>2
<1>10. more[Len(sent') + 1] = StreamLength'
  BY <1>3, <1>4, <1>6, <1>8
<1>11. ASSUME NEW i \in 1..Len(sent'), NEW j \in 1..Len(sent'[i].bytes),
              more[i] + j \in 1..StreamLength'
       PROVE  StreamAt(more[i] + j)' = sent'[i].bytes[j]
  <2>1. ASSUME NEW p \in 1..StreamLength PROVE StreamAt(p)' = StreamAt(p)
    <3>1. CASE p <= Len(rx)
      BY <1>2, <3>1 DEF StreamAt
    <3>2. CASE p > Len(rx)
      <4>1. p - Len(rx) \in 1..Len(wire)
        BY <1>3, <3>2 DEF StreamLength
      <4> QED BY <1>2, <1>3, <1>5, <3>2, <4>1 DEF StreamAt
    <3> QED BY <1>3, <3>1, <3>2
  <2>2. CASE i = n
    <3>1. sent'[i] = f /\ j \in 1..Len(f.bytes) /\ more[i] = StreamLength
      BY <1>3, <1>4, <1>7, <1>8, <2>2
    <3>2. PICK p \in Int : p = more[i] + j
      BY <1>6, <3>1
    <3>3. ~(p <= Len(rx)) /\ p - Len(rx) = Len(wire) + j
      BY <1>3, <3>1, <3>2 DEF StreamLength
    <3>4. StreamAt(p)' = wire'[Len(wire) + j]
      <4>1. rx' = rx /\ ~(p <= Len(rx'))
        BY <1>2, <3>3
      <4>2. StreamAt(p)' = wire'[p - Len(rx')]
        BY <4>1 DEF StreamAt
      <4> QED BY <3>3, <4>1, <4>2
    <3>5. wire'[Len(wire) + j] = f.bytes[j]
      BY <1>5, <3>1
    <3> QED BY <3>1, <3>2, <3>4, <3>5
  <2>3. CASE i \in 1..Len(sent)
    <3>1. i \in 1..n /\ i + 1 \in 1..n /\ sent'[i] = sent[i] /\ more[i] = off[i]
      BY <1>3, <1>4, <1>8, <2>3
    <3>2. off[i] + j \in 1..StreamLength
      <4>1. off[i + 1] = off[i] + Len(sent[i].bytes) /\ off[i + 1] <= StreamLength
        BY <1>1, <1>7, <2>3 DEF Layout
      <4>2. off[i] \in Int /\ j \in 1..Len(sent[i].bytes) /\ Len(sent[i].bytes) \in Nat
        BY <2>3, <3>1, SentFrames
      <4> QED BY <1>6, <1>11, <3>1, <4>1, <4>2
    <3>3. StreamAt(off[i] + j) = sent[i].bytes[j]
      BY <1>1, <2>3, <3>1, <3>2 DEF Layout
    <3> QED BY <2>1, <3>1, <3>2, <3>3
  <2> QED BY <1>3, <1>4, <2>2, <2>3
<1>12. Layout(more)'
  <2>1. StreamLength' \in Nat
    BY <1>3, <1>6
  <2> QED BY <1>9, <1>10, <1>11, <2>1 DEF Layout
<1>13. more \in [1..Len(sent') + 1 -> Int]
  <2>1. Len(sent') + 1 = Len(sent) + 2
    BY <1>3, <1>4
  <2> QED BY <2>1
<1> QED BY <1>8, <1>12, <1>13

\* And the frame that is being read stays where it is.
LEMMA ComesAligned ==
  ASSUME TypeOK, TypeOK', InOrder, Aligned, NEW f \in PeerFrames, FrameComes(f)
  PROVE  Aligned'
<1>1. PICK off \in [1..Len(sent) + 1 -> Int] : Layout(off) /\ Current(off)
  BY DEF Aligned
<1>2. sent' = Append(sent, f) /\ UNCHANGED <<parserVars, delivered>>
  BY DEF FrameComes
<1>3. sent \in Seq(PeerFrames) /\ Len(sent) \in Nat /\ Len(delivered) \in Nat
  BY Lengths DEF TypeOK, HistoryTypeOK
<1>4. Len(sent') = Len(sent) + 1 /\ \A i \in 1..Len(sent) : sent'[i] = sent[i]
  BY <1>2, <1>3
<1> DEFINE n == Len(sent) + 1
<1>8. PICK more \in [1..Len(sent') + 1 -> Int] : Layout(more)' /\ \A i \in 1..n : more[i] = off[i]
  BY <1>1, LayoutGrows
<1>13. Current(more)'
  <2>1. Len(delivered) + 1 \in 1..n /\ framePtr_ \in Nat
    BY <1>3, IndexArithmetic DEF InOrder, TypeOK, ParserTypeOK
  <2>2. more[Len(delivered) + 1] = -framePtr_
    BY <1>1, <1>8, <2>1 DEF Current
  <2>3. CASE Len(delivered) = Len(sent)
    <3>1. AtBoundary /\ AtBoundary'
      BY <1>1, <1>2, <2>3 DEF Current, AtBoundary, parserVars
    <3>2. 1..framePtr_' = {}
      BY <3>1 DEF AtBoundary
    <3> QED BY <1>2, <2>2, <3>1, <3>2 DEF Current, Reads, Buffered, parserVars
  <2>4. CASE Len(delivered) < Len(sent)
    <3>1. sent'[Len(delivered) + 1] = sent[Len(delivered) + 1] /\ Len(delivered) # Len(sent')
      <4>1. Len(delivered) + 1 \in 1..Len(sent)
        BY <1>3, <2>4
      <4>2. Len(sent') = Len(sent) + 1
        BY <1>4
      <4> QED BY <1>3, <1>4, <2>4, <4>1, <4>2
    <3>2. Reads(sent[Len(delivered) + 1]) /\ Buffered(sent[Len(delivered) + 1])
      BY <1>1, <2>4 DEF Current
    <3> QED BY <1>2, <2>2, <3>1, <3>2
            DEF Current, Reads, AtBoundary, InFrame, InPayload, Buffered, HasHeader, parserVars
  <2> QED BY <1>3, <2>3, <2>4 DEF InOrder
<1> QED BY <1>8, <1>13 DEF Aligned

\* What the peer sends does not change what was in order.
LEMMA SendingKeepsOrder ==
  ASSUME TypeOK, InOrder, NEW f \in PeerFrames, FrameComes(f)
  PROVE  InOrder'
<1>1. sent' = Append(sent, f) /\ delivered' = delivered
  BY DEF FrameComes
<1>2. /\ sent \in Seq(PeerFrames) /\ Len(sent) \in Nat /\ Len(delivered) \in Nat
      /\ DOMAIN delivered = 1..Len(delivered)
  BY Lengths DEF TypeOK, HistoryTypeOK
<1>3. Len(sent') = Len(sent) + 1 /\ \A i \in 1..Len(sent) : sent'[i] = sent[i]
  BY <1>1, <1>2
<1>4. \A i \in DOMAIN delivered : i \in 1..Len(sent)
  BY <1>2 DEF InOrder
<1> QED BY <1>1, <1>2, <1>3, <1>4 DEF InOrder

\* The end of a connection is not undone but by a new one.
LEMMA EndingKept ==
  ASSUME TypeOK, Ending, [Next]_vars, ~Reconnect
  PROVE  Ending'
<1>1. ~Connected => ~Connected'
  BY StaysOver
<1>2. ASSUME Overrun \/ \E state : GotByte(state) PROVE FALSE
  BY <1>2 DEF GotByte, Overrun, Ending
<1>3. ~SpinEmptyPayload
  BY DEF SpinEmptyPayload, NeedsByte, Ending
<1>4. CASE ReadByteError
  BY <1>1, <1>4 DEF ReadByteError, Ending, parserVars
<1>5. CASE ErrorHandlerReturns \/ AnswerClose \/ AppDisconnects \/ ReconnectFails
  BY <1>5, DisconnectEnds
     DEF ErrorHandlerReturns, AnswerClose, AppDisconnects, ReconnectFails, parserVars, Ending
<1>6. CASE \/ DispatchEvents \/ FrameHandlerReturns
           \/ (\E m \in Messages : SendData(m, Opcode_Text)) \/ BytesArrive \/ PeerLeaves
           \/ (\E f \in PeerFrames : PeerSends(f)) \/ UNCHANGED vars
  BY <1>1, <1>6 DEF DispatchEvents, FrameHandlerReturns, SendData, BytesArrive, PeerLeaves,
                    PeerSends, vars, parserVars, Ending
<1> QED BY <1>2, <1>3, <1>4, <1>5, <1>6
           DEF Next, App, ReadFrame, ReadOpcode, ReadLength, ReadLength2, ReadLength8,
               ReadMask, ReadUnnamed, ReadPayload

\* A connection that begins: nothing was sent, the stream is empty.
LEMMA EmptyInOrder ==
  ASSUME sent = <<>>, delivered = <<>>, StreamLength = 0, AtBoundary
  PROVE  InOrder /\ Aligned
<1>1. PICK off \in [1..1 -> Int] : off[1] = 0
  <2>1. [i \in 1..1 |-> 0] \in [1..1 -> Int] /\ [i \in 1..1 |-> 0][1] = 0
    OBVIOUS
  <2> QED BY <2>1
<1>2. Len(sent) = 0 /\ Len(delivered) = 0 /\ DOMAIN delivered = {}
  OBVIOUS
<1>3. Layout(off) /\ Current(off)
  BY <1>1, <1>2 DEF Layout, Current, AtBoundary
<1> QED BY <1>2, <1>3 DEF InOrder, Aligned

LEMMA FreshInOrder ==
  /\ Init => OrderInv
  /\ Reconnect => OrderInv'
<1>1. ASSUME Init, clean PROVE InOrder /\ Aligned
  <2>1. /\ sent = <<>> /\ delivered = <<>> /\ rx = <<>> /\ wire = <<>>
        /\ framePtr_ = 0 /\ frameState_ = "Opcode"
    BY <1>1 DEF Init, SocketInit
  <2> QED BY <2>1, EmptyInOrder DEF StreamLength, AtBoundary
<1>2. ASSUME Reconnect, clean' PROVE InOrder' /\ Aligned'
  <2>1. /\ sent' = <<>> /\ delivered' = <<>> /\ rx' = <<>> /\ wire' = <<>>
        /\ framePtr_' = 0 /\ frameState_' = "Opcode"
    BY <1>2 DEF Reconnect, Connect, parserVars
  <2>2. PICK off \in [1..1 -> Int] : off[1] = 0
    <3>1. [i \in 1..1 |-> 0] \in [1..1 -> Int] /\ [i \in 1..1 |-> 0][1] = 0
      OBVIOUS
    <3> QED BY <3>1
  <2>3. Len(sent') = 0 /\ Len(delivered') = 0 /\ StreamLength' = 0 /\ DOMAIN delivered' = {}
    BY <2>1 DEF StreamLength
  <2>4. Layout(off)' /\ Current(off)'
    BY <2>1, <2>2, <2>3 DEF Layout, Current, AtBoundary
  <2> QED BY <2>3, <2>4 DEF InOrder, Aligned
<1> QED BY <1>1, <1>2 DEF OrderInv

\* Every step keeps the handlers' calls in order, and the parser at the place in
\* the stream that its state says, or the connection ends.
LEMMA OrderStep == AllLegible /\ TypeOK /\ TypeOK' /\ OrderInv /\ [Next]_vars => OrderInv'
<1> SUFFICES ASSUME AllLegible, TypeOK, TypeOK', OrderInv, [Next]_vars, ~Reconnect, clean'
             PROVE  InOrder' /\ (Ending' \/ Aligned')
  BY FreshInOrder DEF OrderInv
<1>1. clean /\ InOrder /\ (Ending \/ Aligned)
  <2>1. clean' = clean
    BY DEF Next, App, ReadFrame, ReadByteError, ReadOpcode, ReadLength, ReadLength2, ReadLength8,
           ReadMask, ReadUnnamed, ReadPayload, SpinEmptyPayload, Overrun, GotByte, AnswerClose,
           DispatchEvents, FrameHandlerReturns, ErrorHandlerReturns, AppDisconnects,
           ReconnectFails, SendData, BytesArrive, PeerLeaves, PeerSends, historyVars, vars
  <2> QED BY <2>1 DEF OrderInv
<1>2. CASE \/ ReadOpcode \/ ReadLength \/ ReadLength2 \/ ReadLength8 \/ ReadMask \/ ReadUnnamed
           \/ ReadPayload \/ SpinEmptyPayload
  <2>1. CASE Aligned
    <3>1. ~ReadUnnamed
      <4>1. SUFFICES ASSUME GotByte("Unnamed") PROVE FALSE
        BY DEF ReadUnnamed
      <4>2. Reads(Frame) /\ frameState_ = "Unnamed"
        BY <1>1, <2>1, <4>1, NextByte DEF GotByte, InOrder
      <4> QED BY <4>2 DEF Reads, AtBoundary, InFrame
    <3> QED BY <1>1, <1>2, <2>1, <3>1, HeaderByteInOrder, PayloadByteInOrder, EmptyPayloadInOrder
  <2>2. CASE Ending
    <3>1. ASSUME NEW state, GotByte(state) PROVE FALSE
      BY <2>2, <3>1 DEF GotByte, Ending
    <3>2. ~SpinEmptyPayload
      BY <2>2 DEF SpinEmptyPayload, NeedsByte, Ending
    <3> QED BY <1>2, <3>1, <3>2 DEF ReadOpcode, ReadLength, ReadLength2, ReadLength8, ReadMask,
                                    ReadUnnamed, ReadPayload
  <2> QED BY <1>1, <2>1, <2>2
<1>3. CASE \E f \in PeerFrames : PeerSends(f)
  BY <1>1, <1>3, SendingBrings, SendingKeepsOrder, ComesAligned, EndingKept
<1>4. CASE \/ ReadByteError \/ AnswerClose \/ DispatchEvents \/ FrameHandlerReturns
           \/ ErrorHandlerReturns \/ AppDisconnects \/ ReconnectFails \/ BytesArrive \/ PeerLeaves
           \/ (\E m \in Messages : SendData(m, Opcode_Text)) \/ Overrun \/ UNCHANGED vars
  <2>1. UNCHANGED <<parserVars, delivered, sent>>
    BY <1>4 DEF ReadByteError, Overrun, AnswerClose, DispatchEvents, FrameHandlerReturns,
                ErrorHandlerReturns, AppDisconnects, ReconnectFails, BytesArrive, PeerLeaves,
                SendData, historyVars, vars
  <2>2. \/ UNCHANGED <<up, peer, wire, rx>>
        \/ Disconnect \/ ConnectFails \/ BytesArrive \/ PeerLeaves
    BY <1>4 DEF ReadByteError, Overrun, AnswerClose, DispatchEvents, FrameHandlerReturns,
                ErrorHandlerReturns, AppDisconnects, ReconnectFails, SendData, socketVars, vars
  <2>3. StreamCut(0)
    BY <2>2, QuietStream
  <2>4. InOrder'
    BY <1>1, <2>1 DEF InOrder
  <2> QED BY <1>1, <2>1, <2>3, <2>4, AlignedKept, EndingKept
<1> QED BY <1>2, <1>3, <1>4 DEF Next, App, ReadFrame

\* Whatever frames the peer sends, of the kinds readFrame takes apart as RFC 6455
\* means them or refuses, in whatever pieces and however the connection ends: the
\* handlers are called for these frames, each once, in order, with its payload.
THEOREM FramesStayInOrder ==
  ASSUME AllLegible
  PROVE  Spec => []FramesInOrder
<1>1. Init => OrderInv
  BY FreshInOrder
<1>2. OrderInv => FramesInOrder
  BY DEF OrderInv, InOrder, FramesInOrder
<1>3. TypeOK /\ TypeOK' /\ OrderInv /\ [Next]_vars => OrderInv'
  BY OrderStep
<1> QED BY <1>1, <1>2, <1>3, TypeCorrect, PTL DEF Spec

\* From a state in which an overrun, if there was one, was a long frame's, a step
\* leads to such a state: no byte is stored but one of the frame being read, at
\* its own place in that frame.
LEMMA OverrunStep ==
  ASSUME AllLegible, TypeOK, TypeOK', OrderInv, FrameStaysInBuffer, [Next]_vars
  PROVE  FrameStaysInBuffer'
<1> SUFFICES ASSUME clean', pc' = "overrun"
             PROVE  /\ Len(delivered') < Len(sent')
                    /\ Len(sent'[Len(delivered') + 1].bytes) > MaxMessageSize
  BY DEF FrameStaysInBuffer
<1>1. CASE Overrun
  <2>1. /\ clean /\ pc = "reading" /\ Connected /\ NeedsByte /\ rx # <<>>
        /\ framePtr_ >= MaxMessageSize /\ UNCHANGED <<delivered, sent>>
    BY <1>1 DEF Overrun, historyVars
  <2>2. Aligned /\ Len(delivered) <= Len(sent)
    BY <2>1 DEF OrderInv, InOrder, Ending
  <2>3. /\ Len(delivered) < Len(sent) /\ framePtr_ \in 0..254
        /\ framePtr_ < Len(Frame.bytes) /\ Frame.bytes \in Seq(Byte)
    BY <2>1, <2>2, InsideFrame
  <2>4. Len(Frame.bytes) > MaxMessageSize
    BY <2>1, <2>3, SizeAssumption
  <2> QED BY <2>1, <2>3, <2>4 DEF Frame
<1>2. CASE /\ clean /\ pc = "overrun" /\ UNCHANGED delivered
           /\ UNCHANGED sent \/ \E f \in PeerFrames : sent' = Append(sent, f)
  <2>1. /\ Len(delivered) < Len(sent)
        /\ Len(sent[Len(delivered) + 1].bytes) > MaxMessageSize
    BY <1>2 DEF FrameStaysInBuffer
  <2>2. sent \in Seq(PeerFrames) /\ Len(delivered) \in Nat
    BY Lengths DEF TypeOK, HistoryTypeOK
  <2>3. Len(sent) <= Len(sent') /\ sent'[Len(delivered) + 1] = sent[Len(delivered) + 1]
    BY <1>2, <2>1, <2>2
  <2>4. Len(sent) \in Nat /\ Len(sent') \in Nat
    BY Lengths, <2>2 DEF TypeOK, HistoryTypeOK
  <2> QED BY <1>2, <2>1, <2>2, <2>3, <2>4
<1>3. CASE ReadFrame /\ ~Overrun
  BY <1>3 DEF ReadFrame, ReadByteError, ReadOpcode, ReadLength, ReadLength2, ReadLength8,
              ReadMask, ReadUnnamed, ReadPayload, SpinEmptyPayload, GotByte, Error, Continue,
              Hang, HeaderComplete, PayloadStep, FrameComplete
<1>4. CASE \/ App \/ AnswerClose \/ BytesArrive \/ PeerLeaves \/ UNCHANGED vars
           \/ \E f \in PeerFrames : PeerSends(f)
  BY <1>2, <1>4 DEF App, DispatchEvents, FrameHandlerReturns, ErrorHandlerReturns,
     AppDisconnects, Reconnect, ReconnectFails, AppTurn, SendData, AnswerClose, BytesArrive,
     PeerLeaves, PeerSends, historyVars, vars
<1> QED BY <1>1, <1>3, <1>4 DEF Next

\* With legible frames, whatever their number, pieces and endings, and whatever
\* the sizes of limit and buffer: what overruns messageBuffer_ is a frame longer
\* than it.
THEOREM OnlyLongFramesOverrun ==
  ASSUME AllLegible
  PROVE  Spec => []FrameStaysInBuffer
<1>1. Init => OrderInv /\ FrameStaysInBuffer
  BY FreshInOrder DEF Init, FrameStaysInBuffer
<1>2. TypeOK /\ TypeOK' /\ OrderInv /\ FrameStaysInBuffer /\ [Next]_vars
        => OrderInv' /\ FrameStaysInBuffer'
  BY OrderStep, OverrunStep
<1> QED BY <1>1, <1>2, TypeCorrect, PTL DEF Spec

\* So a peer whose frames fit, header and all, never overruns it.
THEOREM FittingFramesStay ==
  ASSUME AllLegible, \A f \in PeerFrames : Len(f.bytes) <= MaxMessageSize
  PROVE  Spec => []BufferBound
<1>1. TypeOK /\ FrameStaysInBuffer => BufferBound
  <2> SUFFICES ASSUME TypeOK, Len(delivered) < Len(sent),
                      Len(sent[Len(delivered) + 1].bytes) > MaxMessageSize
               PROVE  FALSE
    BY DEF FrameStaysInBuffer, BufferBound
  <2>1. Len(delivered) + 1 \in 1..Len(sent)
    BY Lengths
  <2>2. Frame \in PeerFrames /\ Len(Frame.bytes) \in Nat
    BY <2>1, SentFrames DEF Frame
  <2> QED BY <2>2, SizeAssumption DEF Frame
<1> QED BY <1>1, OnlyLongFramesOverrun, TypeCorrect, PTL

-------------------------------------------------------------------------------
(* The channel: on one connection that begins at a frame boundary every step *)
(* of reader, writer, application and network is a step of FrameChannel or    *)
(* changes nothing that the channel shows.  This is the safety part of the    *)
(* refinement.                                                                *)

\* The reader's connection begins as the channel does.
LEMMA InitOfChannel == Init => Channel!Init
  BY DEF Init, SocketInit, ChannelStatus, Channel!Init

\* One pass of the payload case calls at most one handler, and a real one.
LEMMA OneHandlerCall ==
  ASSUME NEW buf, NEW ptr, PayloadStep(buf, ptr)
  PROVE  \/ delivered' = delivered
         \/ \E e : delivered' = Append(delivered, e) /\ e # NoEvent
<1>1. CASE UNCHANGED delivered
  BY <1>1
<1>2. CASE FrameComplete(buf, ptr) /\ ~UNCHANGED delivered
  <2>1. /\ OpcodeOf(buf[0]) \in DOMAIN Handler
        /\ delivered' = Append(delivered, [cb  |-> Handler[OpcodeOf(buf[0])],
                                           msg |-> Message(buf, ptr)])
    BY <1>2 DEF FrameComplete
  <2>2. Handler[OpcodeOf(buf[0])] # "none"
    BY <2>1 DEF Handler, Opcode_Text, Opcode_Binary, Opcode_Ping, Opcode_Pong
  <2>3. [cb |-> Handler[OpcodeOf(buf[0])], msg |-> Message(buf, ptr)] # NoEvent
    BY <2>2 DEF NoEvent
  <2> QED BY <2>1, <2>3
<1> QED BY <1>1, <1>2 DEF PayloadStep

\* A handler call that leaves the calls in order is the channel's delivery.
LEMMA DeliveryOfChannel ==
  ASSUME TypeOK, TypeOK', InOrder, InOrder', up, UNCHANGED <<up, peer, sent>>,
         NEW e, e # NoEvent, delivered' = Append(delivered, e)
  PROVE  Channel!Deliver
<1>1. /\ delivered \in Seq([cb : Handlers, msg : Seq(Byte)]) /\ Len(delivered) \in Nat
      /\ delivered' \in Seq([cb : Handlers, msg : Seq(Byte)])
  BY DEF TypeOK, HistoryTypeOK
<1>2. /\ Len(delivered') = Len(delivered) + 1
      /\ delivered'[Len(delivered) + 1] = e
      /\ Len(delivered) + 1 \in DOMAIN delivered'
  BY <1>1
<1>3. Len(delivered') <= Len(sent) /\ Len(sent) \in Nat
  BY Lengths DEF InOrder
<1>4. e = sent[Len(delivered) + 1].event
  BY <1>2 DEF InOrder
<1>5. Len(delivered) < Len(sent)
  BY <1>1, <1>2, <1>3
<1> QED BY <1>4, <1>5 DEF ChannelStatus, Channel!Deliver, Channel!NextEvent

\* readFrame's loop delivers the oldest frame or shows the channel nothing.
LEMMA ReadFrameOfChannel ==
  ASSUME TypeOK, TypeOK', SpinInv, InOrder, InOrder', ReadFrame
  PROVE  [Channel!Next]_Channel!vars
<1>1. UNCHANGED <<up, peer, sent>>
  BY DEF ReadFrame, ReadByteError, ReadOpcode, ReadLength, ReadLength2, ReadLength8, ReadMask,
         ReadUnnamed, ReadPayload, SpinEmptyPayload, Overrun, GotByte, historyVars, socketVars
<1>2. CASE UNCHANGED delivered
  BY <1>1, <1>2 DEF ChannelStatus, Channel!vars
<1>3. CASE ~UNCHANGED delivered
  <2>1. PICK e : delivered' = Append(delivered, e) /\ e # NoEvent
    BY <1>3, OneHandlerCall
       DEF ReadFrame, ReadByteError, ReadOpcode, ReadLength, ReadLength2, ReadLength8, ReadMask,
           ReadUnnamed, ReadPayload, SpinEmptyPayload, Overrun
  <2>2. up
    <3>1. [Next]_vars
      BY DEF Next
    <3> QED BY <1>1, <1>3, <3>1, StopStep
  <2> QED BY <1>1, <2>1, <2>2, DeliveryOfChannel DEF Channel!Next
<1> QED BY <1>2, <1>3

\* A frame of the peer's is a frame in the channel's queue.
LEMMA SendingOfChannel ==
  ASSUME NEW f \in PeerFrames, PeerSends(f)
  PROVE  Channel!Send(f)
<1>1. up /\ peer = "open" /\ UNCHANGED <<up, peer, delivered>> /\ sent' = Append(sent, f)
  BY DEF PeerSends, PeerWrites
<1> QED BY <1>1 DEF ChannelStatus, Channel!Send

\* disconnect() stops the channel, an attempt to connect again that fails does
\* too, and a peer that is lost breaks it.
LEMMA EndingOfChannel ==
  ASSUME Disconnect \/ ConnectFails \/ BytesArrive \/ PeerLeaves,
         UNCHANGED <<sent, delivered>>
  PROVE  [Channel!Next]_Channel!vars
<1>1. CASE UNCHANGED <<up, peer>>
  BY <1>1 DEF ChannelStatus, Channel!vars
<1>2. CASE up' = FALSE /\ peer' = peer
  BY <1>2 DEF ChannelStatus, Channel!vars, Channel!Next, Channel!Stop
<1>3. CASE PeerVanishes
  BY <1>3 DEF PeerVanishes, ChannelStatus, Channel!Next, Channel!Break
<1>4. CASE PeerCloses
  BY <1>4 DEF PeerCloses, ChannelStatus, Channel!vars
<1> QED BY <1>1, <1>2, <1>3, <1>4
        DEF Disconnect, ConnectFails, Stop, socketVars, BytesArrive, Arrive, PeerLeaves

\* Every step but a new connection is the channel's, or hidden from it.
LEMMA StepOfChannel ==
  ASSUME TypeOK, TypeOK', SpinInv, InOrder, InOrder', [Next]_vars, ~Reconnect
  PROVE  [Channel!Next]_Channel!vars
<1>1. CASE ReadFrame
  BY <1>1, ReadFrameOfChannel
<1>2. CASE \E f \in PeerFrames : PeerSends(f)
  BY <1>2, SendingOfChannel DEF Channel!Next
<1>3. CASE \/ ErrorHandlerReturns \/ AnswerClose \/ AppDisconnects \/ ReconnectFails
           \/ BytesArrive \/ PeerLeaves
  BY <1>3, EndingOfChannel
     DEF ErrorHandlerReturns, AnswerClose, AppDisconnects, ReconnectFails, BytesArrive,
         PeerLeaves, historyVars
<1>4. CASE \/ DispatchEvents \/ FrameHandlerReturns
           \/ (\E m \in Messages : SendData(m, Opcode_Text)) \/ UNCHANGED vars
  BY <1>4 DEF DispatchEvents, FrameHandlerReturns, SendData, vars, historyVars, socketVars,
              ChannelStatus, Channel!vars
<1> QED BY <1>1, <1>2, <1>3, <1>4 DEF Next, App

\* One connection of an object that is constructed at a frame boundary: it is
\* the one connection that FrameChannel describes.
OneCleanConnection == MaxConnections = 1 /\ StartStates = {"Opcode"}

FirstConnection == clean /\ connections = 1

\* There is no second connection, and the first one stays a clean one.
LEMMA StaysFirst ==
  ASSUME OneCleanConnection
  PROVE  /\ Init => FirstConnection
         /\ FirstConnection /\ [Next]_vars => FirstConnection' /\ ~Reconnect
<1>1. Init => FirstConnection
  BY DEF OneCleanConnection, Init, FirstConnection
<1>2. FirstConnection => ~Reconnect
  BY DEF OneCleanConnection, FirstConnection, Reconnect
<1>3. FirstConnection /\ [Next]_vars /\ ~Reconnect => FirstConnection'
  BY DEF Next, App, ReadFrame, ReadByteError, ReadOpcode, ReadLength, ReadLength2, ReadLength8,
         ReadMask, ReadUnnamed, ReadPayload, SpinEmptyPayload, Overrun, GotByte, AnswerClose,
         DispatchEvents, FrameHandlerReturns, ErrorHandlerReturns, AppDisconnects,
         ReconnectFails, SendData, BytesArrive, PeerLeaves, PeerSends, historyVars, vars,
         FirstConnection
<1> QED BY <1>1, <1>2, <1>3

\* Reader, writer, handlers, application and network implement the channel: the
\* handlers are called for the peer's oldest frame, for it only, and never after
\* stop(), for every peer of legible frames and every bound on their number.
THEOREM ReaderImplementsChannel ==
  ASSUME AllLegible, OneCleanConnection
  PROVE  Spec => Channel!Init /\ [][Channel!Next]_Channel!vars
<1> DEFINE I == TypeOK /\ SpinInv /\ OrderInv /\ FirstConnection
<1>1. Init => I
  BY InitType, FreshInOrder, StaysFirst DEF Init, SpinInv
<1>2. I /\ [Next]_vars => I'
  BY StepType, SpinStep, OrderStep, StaysFirst
<1>3. I /\ I' /\ [Next]_vars => [Channel!Next]_Channel!vars
  BY StepOfChannel, StaysFirst DEF OrderInv, FirstConnection
<1> QED BY <1>1, <1>2, <1>3, InitOfChannel, PTL DEF Spec

-------------------------------------------------------------------------------
(* A parser that starts on the rest of a header: no byte of a header begins   *)
(* a frame, so the connection ends at the first one.                          *)

Unfit == AtBoundary /\ (StreamLength > 0 => StreamAt(1) < Flag_Fin)
Dud == delivered = <<>> /\ (Ending \/ Unfit)

\* When the connection is ending no handler is called, and no frame is refused.
LEMMA NothingWhileEnding ==
  ASSUME TypeOK, Ending, [Next]_vars, ~Reconnect
  PROVE  /\ delivered' = delivered
         /\ raised' \subseteq raised \union {"Error_NotConnected"}
<1>1. ASSUME Overrun \/ \E s : GotByte(s) PROVE FALSE
  BY <1>1 DEF GotByte, Overrun, Ending
<1>2. ~SpinEmptyPayload
  BY DEF SpinEmptyPayload, NeedsByte, Ending
<1>3. CASE ReadByteError
  BY <1>3 DEF ReadByteError, Error, Notified
<1>4. CASE \E m \in Messages : SendData(m, Opcode_Text)
  BY <1>4 DEF SendData, Notified
<1>5. CASE \/ AnswerClose \/ DispatchEvents \/ FrameHandlerReturns \/ ErrorHandlerReturns
           \/ AppDisconnects \/ ReconnectFails \/ BytesArrive \/ PeerLeaves
           \/ (\E f \in PeerFrames : PeerSends(f)) \/ UNCHANGED vars
  BY <1>5 DEF AnswerClose, DispatchEvents, FrameHandlerReturns, ErrorHandlerReturns,
              AppDisconnects, ReconnectFails, BytesArrive, PeerLeaves, PeerSends, vars
<1> QED BY <1>1, <1>2, <1>3, <1>4, <1>5
           DEF Next, App, ReadFrame, ReadOpcode, ReadLength, ReadLength2, ReadLength8,
               ReadMask, ReadUnnamed, ReadPayload

\* Its first byte ends the connection.
LEMMA DudRead ==
  ASSUME TypeOK, Unfit, ReadOpcode
  PROVE  Ending' /\ delivered' = delivered
<1>1. /\ frameState_ = "Opcode" /\ framePtr_ = 0 /\ rx # <<>> /\ rx \in Seq(Byte)
      /\ wire \in Seq(Byte) /\ messageBuffer_ \in [Slots -> Byte]
  BY DEF Unfit, AtBoundary, ReadOpcode, GotByte, TypeOK, ParserTypeOK, SocketTypeOK
<1>2. Ptr = 1 /\ Buf[0] = rx[1]
  <2>1. Head(rx) = rx[1]
    BY <1>1
  <2>2. 0 \in Slots /\ Inc8(0) = 1
    BY SizeAssumption DEF Slots, Inc8
  <2>3. Buf[0] = Head(rx)
    BY <1>1, <2>2 DEF Buf
  <2> QED BY <1>1, <2>1, <2>2, <2>3 DEF Ptr
<1>3. rx[1] < Flag_Fin
  <2>1. Len(rx) \in Nat /\ Len(wire) \in Nat /\ 1 <= Len(rx)
    BY <1>1
  <2> QED BY <2>1 DEF Unfit, StreamLength, StreamAt
<1>4. rx[1] \in Nat
  <2>1. 1 \in 1..Len(rx)
    BY <1>1
  <2>2. rx[1] \in Byte
    BY <1>1, <2>1
  <2> QED BY <2>2 DEF Byte
<1>5. ~Fin(Buf[0])
  BY <1>2, <1>3, <1>4 DEF Fin, Flag_Fin
<1> QED BY <1>1, <1>2, <1>5 DEF ReadOpcode, Error, Ending

\* The stream is empty although the connection stands.
Dry == StreamLength = 0 /\ Connected

LEMMA DudKept ==
  ASSUME TypeOK, TypeOK', Dud, [Next]_vars, ~Reconnect,
         Ending \/ StreamLength # 0 \/ ~\E f \in PeerFrames : PeerSends(f)
  PROVE  Dud' /\ (Dry' => Ending' \/ Dry)
<1>0. SocketTypeOK /\ rx \in Seq(Byte) /\ wire \in Seq(Byte) /\ StreamLength \in Nat
  BY StreamNat DEF TypeOK, SocketTypeOK
<1>1. CASE Ending
  BY <1>1, EndingKept, NothingWhileEnding DEF Dud
<1>2. CASE ~Ending
  <2>1. Unfit /\ delivered = <<>> /\ frameState_ = "Opcode"
    BY <1>2 DEF Dud, Unfit, AtBoundary
  <2>2. ASSUME UNCHANGED parserVars, ~Connected' PROVE Ending'
    BY <2>1, <2>2 DEF parserVars, Ending
  <2>3. CASE ReadOpcode
    BY <2>1, <2>3, DudRead DEF Dud
  <2>4. CASE \/ AnswerClose \/ ErrorHandlerReturns \/ AppDisconnects \/ ReconnectFails
    <3>1. ~Connected' /\ UNCHANGED <<parserVars, delivered>>
      BY <2>4, DisconnectEnds DEF AnswerClose, ErrorHandlerReturns, AppDisconnects, ReconnectFails
    <3> QED BY <2>1, <2>2, <3>1 DEF Dud, parserVars
  <2>5. CASE \/ ReadByteError \/ Overrun \/ DispatchEvents \/ FrameHandlerReturns
             \/ (\E m \in Messages : SendData(m, Opcode_Text)) \/ UNCHANGED vars
    <3>1. UNCHANGED <<up, peer, wire, rx, parserVars, delivered>>
      BY <2>5 DEF ReadByteError, Overrun, DispatchEvents, FrameHandlerReturns, SendData, vars, socketVars
    <3>2. StreamLength' = StreamLength /\ \A p : StreamAt(p)' = StreamAt(p)
      BY <3>1 DEF StreamLength, StreamAt
    <3> QED BY <2>1, <3>1, <3>2 DEF Dud, Unfit, AtBoundary, parserVars, Dry, Connected
  <2>6. CASE BytesArrive \/ PeerLeaves
    <3>1. StreamCut(0) /\ UNCHANGED <<parserVars, delivered>>
      BY <1>0, <2>6, NetworkCut DEF BytesArrive, PeerLeaves
    <3>2. rx' \in Seq(Byte) /\ wire' \in Seq(Byte)
      BY DEF TypeOK, SocketTypeOK
    <3>3. StreamLength' \in Nat
      BY <3>2 DEF StreamLength
    <3>4. StreamLength' > 0 => StreamLength > 0 /\ StreamAt(1)' = StreamAt(1)
      BY <1>0, <3>1, <3>3 DEF StreamCut
    <3>5. Unfit'
      BY <2>1, <3>1, <3>4 DEF Unfit, AtBoundary, parserVars
    <3>6. ASSUME Dry' PROVE Dry
      <4>1. Len(rx') = 0 /\ Len(wire') = 0
        BY <3>2, <3>6 DEF Dry, StreamLength
      <4>2. rx' = <<>> /\ wire' = <<>>
        BY <3>2, <4>1
      <4>3. up' /\ peer' = "open"
        BY <3>6, <4>2 DEF Dry, Connected
      <4>4. up /\ peer = "open"
        BY <2>6, <4>3 DEF BytesArrive, Arrive, PeerLeaves, PeerCloses, PeerVanishes
      <4>5. StreamLength = 0
        BY <1>0, <3>1, <3>6, <4>3 DEF StreamCut, Dry
      <4> QED BY <4>4, <4>5 DEF Dry, Connected
    <3> QED BY <2>1, <3>1, <3>5, <3>6 DEF Dud
  <2>7. ASSUME NEW f \in PeerFrames, PeerSends(f) PROVE Dud' /\ ~Dry'
    <3>1. PeerWrites(f.bytes) /\ UNCHANGED <<parserVars, delivered>> /\ f.bytes \in Seq(Byte)
      BY <2>7, BytesAssumption DEF PeerSends
    <3>2. StreamLength > 0
      BY <1>0, <1>2, <2>7
    <3>3. /\ StreamLength' = StreamLength + Len(f.bytes)
          /\ \A p \in 1..StreamLength : StreamAt(p)' = StreamAt(p)
      BY <1>0, <3>1, WritesGrow
    <3>4. StreamLength' > 0 /\ StreamLength' # 0 /\ StreamAt(1)' = StreamAt(1)
      BY <1>0, <3>1, <3>2, <3>3
    <3> QED BY <2>1, <3>1, <3>2, <3>4 DEF Dud, Unfit, AtBoundary, parserVars, Dry
  <2>8. ASSUME NEW s, GotByte(s) PROVE s = "Opcode"
    BY <2>1, <2>8 DEF GotByte
  <2>9. ~SpinEmptyPayload
    BY <2>1 DEF SpinEmptyPayload, NeedsByte
  <2> QED BY <2>3, <2>4, <2>5, <2>6, <2>7, <2>8, <2>9
             DEF Next, App, ReadFrame, ReadLength, ReadLength2, ReadLength8, ReadMask,
                 ReadUnnamed, ReadPayload
<1> QED BY <1>1, <1>2

-------------------------------------------------------------------------------
(* Frames of the formats that readFrame supports, with an opcode it knows, are  *)
(* not refused: the only error there is to report is a lost connection.         *)

Accepted(f) ==
  /\ Supported(f) /\ Fin(f.bytes[1])
  /\ OpcodeOf(f.bytes[1]) \in DOMAIN Handler \union {Opcode_Close}
AllAccepted == \A f \in PeerFrames : Accepted(f)

LEMMA AcceptedLegible == AllAccepted => AllLegible
<1> SUFFICES ASSUME NEW f \in PeerFrames, Supported(f) PROVE Legible(f)
  BY DEF AllAccepted, Accepted, AllLegible
<1>1. PICK h \in HeaderSizes, n \in 0..LongestPayload : HasHeader(f, h, n)
  BY DEF Supported
<1>2. n \in Nat /\ h \in {2, 4, 8} /\ Len(f.bytes) = h + n
  BY <1>1, CounterArithmetic DEF HasHeader, HeaderSizes
<1>3. Len(f.bytes) >= 2
  BY <1>2
<1> QED BY <1>3 DEF Legible

\* A long length in such a frame is in two bytes, and not too long.
LEMMA AcceptedLength ==
  ASSUME NEW f \in PeerFrames, Accepted(f)
  PROVE  /\ LengthOf(f.bytes[2]) # 127
         /\ LengthOf(f.bytes[2]) = 126 => ~TooBig(Length16(f.bytes[3], f.bytes[4]))
<1>1. PICK h \in HeaderSizes, n \in 0..LongestPayload : HasHeader(f, h, n)
  BY DEF Accepted, Supported
<1>2. n \in Nat
  BY CounterArithmetic
<1>3. CASE h = 2
  <2>1. f.bytes[2] = n /\ n <= 125
    BY <1>1, <1>3 DEF HasHeader
  <2>2. LengthOf(n) <= 125
    BY <1>2, <2>1 DEF LengthOf
  <2>3. LengthOf(n) \in Nat
    BY <1>2 DEF LengthOf
  <2> QED BY <2>1, <2>2, <2>3
<1>4. CASE h \in {4, 8}
  <2>1. /\ f.bytes[2] = (IF h = 4 THEN 126 ELSE 254)
        /\ Length16(f.bytes[3], f.bytes[4]) = n /\ ~TooBig(n)
    BY <1>1, <1>4 DEF HasHeader
  <2>2. LengthOf(126) = 126 /\ LengthOf(254) = 126
    BY DEF LengthOf
  <2> QED BY <2>1, <2>2
<1> QED BY <1>3, <1>4 DEF HeaderSizes

\* What the parser sees of the frame it is in.
LEMMA SeesFrame ==
  ASSUME TypeOK, TypeOK', AllAccepted, InOrder, Aligned, NEW s, GotByte(s)
  PROVE  /\ Frame \in PeerFrames /\ Accepted(Frame) /\ Reads(Frame) /\ framePtr_ \in 0..254
         /\ Ptr = framePtr_ + 1 /\ Buf[0] = Frame.bytes[1]
         /\ Ptr = 4 => Buf[2] = Frame.bytes[3] /\ Buf[3] = Frame.bytes[4]
<1>1. /\ Frame \in PeerFrames /\ Reads(Frame) /\ framePtr_ \in 0..254 /\ Ptr = framePtr_ + 1
      /\ \A j \in 1..Ptr : Buf[j - 1] = Frame.bytes[j]
  <2>1. AllLegible /\ Len(delivered) <= Len(sent)
    BY AcceptedLegible DEF InOrder
  <2> QED BY <2>1, NextByte
<1>2. 1 \in 1..Ptr /\ 1 - 1 = 0
  BY <1>1
<1>3. Buf[0] = Frame.bytes[1]
  BY <1>1, <1>2
<1>4. ASSUME Ptr = 4 PROVE Buf[2] = Frame.bytes[3] /\ Buf[3] = Frame.bytes[4]
  <2>1. 3 \in 1..Ptr /\ 4 \in 1..Ptr /\ 3 - 1 = 2 /\ 4 - 1 = 3
    BY <1>4
  <2> QED BY <1>1, <2>1
<1> QED BY <1>1, <1>3, <1>4 DEF AllAccepted

LEMMA NoneRefused ==
  ASSUME TypeOK, TypeOK', AllAccepted, InOrder, Ending \/ Aligned, [Next]_vars, ~Reconnect
  PROVE  raised' \subseteq raised \union {"Error_NotConnected"}
<1>0. AllLegible /\ Len(delivered) <= Len(sent)
  BY AcceptedLegible DEF InOrder
<1>1. CASE Ending
  BY <1>1, NothingWhileEnding
<1>3. CASE Aligned /\ ReadOpcode
  <2>1. Buf[0] = Frame.bytes[1] /\ Fin(Frame.bytes[1])
    BY <1>3, SeesFrame DEF ReadOpcode, Accepted
  <2> QED BY <1>3, <2>1 DEF ReadOpcode, Continue, Hang
<1>4. CASE ReadLength \/ ReadMask \/ ReadUnnamed
  BY <1>4 DEF ReadLength, ReadMask, ReadUnnamed, HeaderComplete, Continue, Hang
<1>5. CASE Aligned /\ ReadLength2
  <2>1. GotByte("Length2") /\ frameState_ = "Length2"
    BY <1>5 DEF ReadLength2, GotByte
  <2>2. Frame \in PeerFrames /\ Accepted(Frame) /\ LengthOf(Frame.bytes[2]) = 126
    BY <1>5, <2>1, SeesFrame DEF Reads, AtBoundary, InFrame
  <2>3. Ptr = 4 => ~TooBig(Length16(Buf[2], Buf[3]))
    BY <1>5, <2>1, <2>2, SeesFrame, AcceptedLength
  <2> QED BY <1>5, <2>3 DEF ReadLength2, HeaderComplete, Continue, Hang
<1>6. CASE Aligned /\ ReadLength8
  <2>1. GotByte("Length8") /\ frameState_ = "Length8"
    BY <1>6 DEF ReadLength8, GotByte
  <2>2. Frame \in PeerFrames /\ Accepted(Frame) /\ LengthOf(Frame.bytes[2]) = 127
    BY <1>6, <2>1, SeesFrame DEF Reads, AtBoundary, InFrame
  <2> QED BY <2>2, AcceptedLength
<1>7. ASSUME NEW buf, NEW ptr, PayloadStep(buf, ptr),
             OpcodeOf(buf[0]) \in DOMAIN Handler \union {Opcode_Close}
      PROVE  raised' = raised
  BY <1>7 DEF PayloadStep, FrameComplete, Continue, Hang
<1>8. CASE Aligned /\ ReadPayload
  BY <1>7, <1>8, SeesFrame DEF ReadPayload, Accepted
<1>9. CASE Aligned /\ SpinEmptyPayload
  <2>1. /\ PayloadStep(messageBuffer_, framePtr_)
        /\ frameState_ = "Payload" /\ payloadLength_ = 0
    BY <1>9 DEF SpinEmptyPayload, NeedsByte
  <2>2. /\ Frame \in PeerFrames /\ Buffered(Frame)
        /\ \E h \in HeaderSizes : InPayload(Frame, h)
    BY <1>0, <1>9, <2>1, EmptyPayload
  <2>3. framePtr_ \in {2, 4, 8}
    BY <2>1, <2>2 DEF InPayload, HeaderSizes
  <2>4. messageBuffer_[0] = Frame.bytes[1]
    <3>1. 1 \in 1..framePtr_ /\ 1 - 1 = 0
      BY <2>3
    <3> QED BY <2>2, <3>1 DEF Buffered
  <2> QED BY <1>7, <2>1, <2>2, <2>4 DEF AllAccepted, Accepted
<1>10. CASE ReadByteError \/ Overrun
  BY <1>10 DEF ReadByteError, Overrun, Error, Notified
<1>11. CASE \E m \in Messages : SendData(m, Opcode_Text)
  BY <1>11 DEF SendData, Notified
<1>12. CASE \/ AnswerClose \/ DispatchEvents \/ FrameHandlerReturns \/ ErrorHandlerReturns
            \/ AppDisconnects \/ ReconnectFails \/ BytesArrive \/ PeerLeaves
            \/ (\E f \in PeerFrames : PeerSends(f)) \/ UNCHANGED vars
  BY <1>12 DEF AnswerClose, DispatchEvents, FrameHandlerReturns, ErrorHandlerReturns,
               AppDisconnects, ReconnectFails, BytesArrive, PeerLeaves, PeerSends, vars
<1> QED BY <1>1, <1>3, <1>4, <1>5, <1>6, <1>8, <1>9, <1>10, <1>11, <1>12
        DEF Next, App, ReadFrame
===============================================================================
