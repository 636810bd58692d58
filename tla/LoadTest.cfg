SPECIFICATION FairLoadSpec
CONSTANTS
  l1 = l1
  l2 = l2
  Caller = Caller
  Loaders <- TwoLoaders
  Producers <- LoadersAndMain
  Logger = Logger
  Main = Main
  NoOne = NoOne
  Garbage = Garbage
  CAPACITY = 2
  MaxMsgs = 3
  MayFail = FALSE
INVARIANTS
  NothingLate
  EndedIsLast
  AccountedFor
PROPERTIES
  MainExits
