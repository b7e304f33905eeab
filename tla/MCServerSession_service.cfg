SPECIFICATION ServiceFairSpec
CONSTANTS
  MaxFrameSize = 16
  MaxMessageSize = 16
  PeerFrames <- ServiceFrames
  Messages = {}
  StartStates = {"Opcode"}
  MaxFrames = 2
  MaxTx = 0
  MaxConnections = 1
  UpgradePrefixes <- Upgrades
  KeyPrefix <- Key
  OriginPrefix <- Origin
  Requests <- SomeRequests
  Response <- Answer101
INVARIANTS ServerTypeOK KeyIsWhole RestIsNoFrame
PROPERTIES AnsweredOrStopped RunReturns RestEndsService
CHECK_DEADLOCK FALSE
