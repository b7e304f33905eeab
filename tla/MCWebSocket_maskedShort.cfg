SPECIFICATION Spec
CONSTANTS
  MaxFrameSize = 64
  MaxMessageSize = 64
  PeerFrames <- MaskedShort
  Messages = {}
  StartStates = {"Opcode"}
  MaxFrames = 2
  MaxTx = 0
  MaxConnections = 1
INVARIANT FramesInOrder
