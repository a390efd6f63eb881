CONSTANTS
  Boots <- BootSequences
  LengthRange = 8
  Count = 5
  SeqRange = 3
  Room = 3
  MaxFailures = 1
  MaxFaults = 2
  MaxInFlight = 3
  MaxSessions = 2
SPECIFICATION FairSpec
INVARIANTS
  TypeOK
  DictionaryIsWhole
PROPERTIES
  NoticedIsFresh
  AckBeforeReset
  FetchCompletes
