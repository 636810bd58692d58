SPECIFICATION ThreadSpec
CONSTANTS
  Waiter = Waiter
  NoOne = NoOne
  Handlers <- Nobody
  Timeouts <- EveryPeriod
  Second = 3
  Period = 2
  MaxTime = 10
  MaxSignals = 0
  MaxRounds = 4
  MaxWakeups = 2
INVARIANTS
  RoundsOnSchedule
  StopsWithinAPeriod
