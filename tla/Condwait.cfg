SPECIFICATION FairSpec
CONSTANTS
  h1 = h1
  h2 = h2
  Handlers <- TwoHandlers
  Waiter = Waiter
  NoOne = NoOne
  Second = 3
  Timeouts <- ShortAndLong
  MaxTime = 7
  MaxSignals = 2
INVARIANTS
  DeadlineOnSchedule
  TimeoutNotEarly
  NeverTooLong
PROPERTIES
  CallsReturn
