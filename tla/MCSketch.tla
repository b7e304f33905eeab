------------------------------- MODULE MCSketch -------------------------------
(* The instance of WebSocket whose application does everything a sketch may    *)
(* do, and what makes the theorem FramesStayInOrder speak of the instances'    *)
(* peers: with MaxFrameSize = 16 all their frames are legible.                  *)
EXTENDS MCWebSocket

ASSUME LegibleFrames ==
  \A f \in MixedFrames \union EndingFrames \union ClosedFrames : Legible(f)
===============================================================================
