SPECIFICATION FairSpec
CONSTANTS
  MaxFrameSize = 16
  MaxMessageSize = 16
  PeerFrames <- ClosedFrames
  Messages = {}
  StartStates = {"Opcode"}
  MaxFrames = 2
  MaxTx = 0
  MaxConnections = 1
PROPERTIES EveryFrameDelivered ControlReturns ImplementsChannel
