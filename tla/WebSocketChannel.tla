--------------------------- MODULE WebSocketChannel ---------------------------
(* The frame reader over its socket implements the abstract FrameChannel.    *)
EXTENDS WebSocket

\* The connection as the abstract channel sees it.
ChannelStatus ==
  IF ~up THEN "stopped" ELSE IF peer = "gone" THEN "broken" ELSE "open"

Channel == INSTANCE FrameChannel
             WITH Frames <- PeerFrames, NoHandler <- NoEvent, status <- ChannelStatus

\* The reader, its handlers, the network and the application's calls together
\* behave as the channel: every step is one of its steps or changes nothing it
\* shows, and under Fairness a frame that can be delivered is.
ImplementsChannel == Channel!Spec
===============================================================================
