SPECIFICATION RestartSpec
CONSTANTS
  p1 = p1
  Producers <- OneProducer
  Logger = Logger
  Main = Main
  NoOne = NoOne
  Garbage = Garbage
  CAPACITY = 2
  MaxMsgs = 1
  MayFail = FALSE
PROPERTIES
  StartInitializesQueue
