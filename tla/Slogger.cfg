SPECIFICATION FairSpec
CONSTANTS
  p1 = p1
  p2 = p2
  Producers <- TwoProducers
  Logger = Logger
  Main = Main
  NoOne = NoOne
  Garbage = Garbage
  CAPACITY = 2
  MaxMsgs = 3
  MayFail = TRUE
INVARIANTS
  TypeOK
  Conservation
  DataLive
  CondLive
  NoLostWakeup
  TruthfulReport
  NothingLost
PROPERTIES
  ImplementsChannel
  StopReturns
  StoredIsWritten
