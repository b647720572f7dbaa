SPECIFICATION FairSpec
CONSTANTS
  Self = 0
  Peers = {1, 2}
  Script <- MCScript
  RetryNum = 2
  MaxBuf = 2
INVARIANTS
  SuccessMeansDelivered
PROPERTIES
  WireSpec
  QueueDrains
