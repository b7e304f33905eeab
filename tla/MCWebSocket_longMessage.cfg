SPECIFICATION Spec
CONSTANTS
  MaxFrameSize = 64
  MaxMessageSize = 64
  PeerFrames <- LongSent
  Messages = {}
  StartStates = {"Opcode"}
  MaxFrames = 1
  MaxTx = 0
  MaxConnections = 1
INVARIANT FramesInOrder
