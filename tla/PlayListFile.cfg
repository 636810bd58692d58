SPECIFICATION FileSpec
CONSTANTS
  x = x
  y = y
  Path <- Paths
  Previous <- FoundFiles
  Character = {x, y}
  Newline = Newline
  NoFile = NoFile
  Lost = Lost
  PageListLen = 2
  MaxPlayListLen = 3
  LineMax = 3
  MaxEdits = 2
  MaxRuns = 3
INVARIANTS
  ReadsBack
  CutSaveLeavesBeginning
  LongPathsInPieces
