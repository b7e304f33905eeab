SPECIFICATION Spec
CONSTANTS
  MaxFrameSize = 16
  MaxMessageSize = 16
  PeerFrames <- EndingFrames
  Messages <- Greeting
  StartStates <- FrameStates
  MaxFrames = 1
  MaxTx = 4
  MaxConnections = 2
INVARIANTS CleanStartNeverHangs ErrorEndsConnection
PROPERTY NothingAfterStop
CHECK_DEADLOCK FALSE
