SPECIFICATION Spec
CONSTANTS
  MaxFrameSize = 64
  MaxMessageSize = 64
  PeerFrames <- EndingFrames
  Messages = {}
  StartStates = {"Opcode"}
  MaxFrames = 1
  MaxTx = 0
  MaxConnections = 2
INVARIANT AssertsHold
