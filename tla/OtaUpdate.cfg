CONSTANTS
  NumBuffers = 2
  QueueLength = 3
  MaxMessages = 4
  NoMessage = NoMessage
SPECIFICATION FairSpec
INVARIANTS TypeOK PayloadIntact BuffersConserved
PROPERTY BufferComesBack
CHECK_DEADLOCK FALSE
