SPECIFICATION CommandSpec
CONSTANTS
  PipeSize = 3
  MaxStops = 2
  MaxWritten = 4
  Hole = Hole
INVARIANTS
  AtMostOneMore
  CopiedToTheEnd
  OutputInPlace
  CommandFinishes
PROPERTIES
  OnlyTheRace
  StopReturns
  ReaderEnds
  ExecReturns
\* The program comes to its end; that it does not get stuck before is what
\* StopReturns, ReaderEnds and ExecReturns say.
CHECK_DEADLOCK FALSE
