----------------------------- MODULE MCWebSocket ------------------------------
(* Instances of WebSocket for TLC: what its peers send, and its messages.  *)
EXTENDS WebSocketChannel, Rfc6455, FiniteSets

\* n payload bytes that tell positions apart and look like no frame header.
Payload(n) == [i \in 1..n |-> 32 + (i % 64)]

\* What the receiver's application should see of a final frame.
EventOf(opcode, payload) ==
  IF opcode \in DOMAIN Handler THEN [cb |-> Handler[opcode], msg |-> payload] ELSE NoEvent

Frame(opcode, form, masked, n) ==
  [bytes |-> FrameBytes(TRUE, opcode, form, masked, Payload(n)),
   event |-> EventOf(opcode, Payload(n))]
Short(opcode, n) == Frame(opcode, 7, FALSE, n)

\* A first fragment: FIN is not set.
Fragment(n) == [bytes |-> FrameBytes(FALSE, Opcode_Text, 7, FALSE, Payload(n)), event |-> NoEvent]

\* A frame readFrame refuses by its length, whatever its opcode.
Refused(form, masked, n) == [Frame(Opcode_Text, form, masked, n) EXCEPT !.event = NoEvent]

\* What readFrame tells apart, but for the masked frames with a one-byte length
\* (MaskedShort), for a limit and a buffer of 16 both: the masked frame of 8
\* bytes fills the buffer, 17 bytes are over the limit, and the two in the last
\* line are neither refused, nor does the buffer hold them.
MixedFrames ==
  {Short(Opcode_Text, 1), Short(Opcode_Binary, 2), Short(Opcode_Ping, 0),
   Short(Opcode_Close, 0), Short(Opcode_Close, 2), Short(3, 1), Fragment(1),
   Frame(Opcode_Pong, 16, FALSE, 3), Frame(Opcode_Text, 16, TRUE, 8),
   Refused(16, TRUE, 17), Refused(64, FALSE, 1),
   Short(Opcode_Text, 15), Frame(Opcode_Text, 16, FALSE, 13)}

\* One frame to deliver and one for each way in which a connection ends.
EndingFrames ==
  {Short(Opcode_Text, 2), Short(Opcode_Close, 0), Short(3, 1), Fragment(1),
   Refused(16, FALSE, 17)}

\* The peer is another WebSocket: its frames are what sendData writes.
Sent(n) == [bytes |-> EncodedData(Payload(n), Opcode_Text),
            event |-> EventOf(Opcode_Text, Payload(n))]

\* Frames that have handlers, empty ones among them.
HandledFrames ==
  {Sent(0), Sent(2), Short(Opcode_Ping, 0), Frame(Opcode_Binary, 16, FALSE, 2)}

\* And the frame behind which nothing is delivered.
ClosedFrames == HandledFrames \union {Short(Opcode_Close, 0)}

\* A message whose length needs two bytes.
LongSent == {Sent(126)}

\* With the header's sizes, 64 and 64, the shortest frames that readFrame does not
\* refuse and the buffer does not hold: a one-byte length is compared with nothing,
\* a two-byte length without the header that is kept before the payload.
TooLongFrames == {Short(Opcode_Text, 63), Frame(Opcode_Text, 16, FALSE, 61)}

\* A short masked frame, as a client sends it to a server.
MaskedShort == {Frame(Opcode_Text, 7, TRUE, 3)}

Greeting == {Payload(2)}
===============================================================================
