SPECIFICATION MessageSpec
CONSTANTS
  t1 = t1
  t2 = t2
  Threads <- TwoThreads
  ConsoleLoglevel = 2
  Second = 2
  Minute = 2
  MaxTime = 5
  MaxCalls = 1
SYMMETRY AnyThread
PROPERTIES
  ConsoleOnlyForAdbshell
\* The calls and the clock are bounded; what has come to both bounds rests.
CHECK_DEADLOCK FALSE
