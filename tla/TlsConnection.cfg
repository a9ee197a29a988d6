SPECIFICATION FairSpec
CONSTANTS
  NumSockets = 2
  MaxRx = 2
  RecordLength = 2
  NumRootCA = 2
INVARIANTS TypeOK SocketsOwned ConnectsFresh
PROPERTY StopReturns
