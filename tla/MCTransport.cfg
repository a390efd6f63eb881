CONSTANTS
  SeqRange = 3
  Window = 2
  MaxFrames = 4
  MaxInFlight = 3
  MaxFaults = 1
  MaxSessions = 2
SPECIFICATION FairSpec
CHECK_DEADLOCK FALSE
INVARIANTS
  TypeOK
  InOrderOnce
  AckedWereExecuted
PROPERTIES
  EventuallyAcked
