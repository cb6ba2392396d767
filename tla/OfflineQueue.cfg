SPECIFICATION FairSpec
CONSTANTS
  f1 = f1
  f2 = f2
  MaxEntries = 2
  Flushers <- TwoFlushers
  MaxAttempts = 2
  MaxDoubt = 1
INVARIANTS
  TypeOK
  NothingLost
  DuplicatesExplained
  FifoUnlessGivenUp
PROPERTIES
  SettledOnlyByListers
  DrainsIfWoken
