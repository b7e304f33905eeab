SPECIFICATION SessionFairSpec
CONSTANTS
  MaxFrameSize = 16
  MaxMessageSize = 16
  PeerFrames <- SessionFrames
  Messages = {}
  StartStates = {"Opcode"}
  MaxFrames = 2
  MaxTx = 0
  MaxConnections = 1
  Request <- UpgradeRequest
  Responses <- AllAnswers
  AcceptNames <- Names
  CalculatedKey <- Right
INVARIANTS HandshakeTypeOK VerdictIsRight HeaderRead OnlyProvenServers FramesInOrder ErrorOnlyFromLineFeed
PROPERTY HandshakeReturns
CHECK_DEADLOCK FALSE
