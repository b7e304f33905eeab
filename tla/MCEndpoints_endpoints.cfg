SPECIFICATION EndpointsFairSpec
CONSTANTS
  MaxFrameSize = 16
  MaxMessageSize = 16
  PeerFrames <- ClientFrames
  Messages = {}
  StartStates = {"Opcode"}
  MaxFrames = 2
  MaxTx = 0
  MaxConnections = 1
  UpgradePrefixes <- Upgrades
  KeyPrefix <- Key
  OriginPrefix <- Origin
  Requests <- OneRequest
  Response <- TheResponse
  ClientRequest <- TheRequest
  ClientMessages <- TwoBytes
  AcceptNames <- Names
  CalculatedKey <- Right
INVARIANTS VerdictsAgree NoFalseAlarm
PROPERTIES BothReturn MessagesArrive
CHECK_DEADLOCK FALSE
