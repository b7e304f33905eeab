SPECIFICATION Spec
CONSTANTS
  MaxFrameSize = 16
  MaxMessageSize = 16
  PeerFrames <- MixedFrames
  Messages = {}
  StartStates = {"Opcode"}
  MaxFrames = 2
  MaxTx = 0
  MaxConnections = 1
INVARIANTS TypeOK ParserInStep FramesInOrder FrameStaysInBuffer
CHECK_DEADLOCK FALSE
