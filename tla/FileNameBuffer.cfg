SPECIFICATION NameSpec
CONSTANTS
  letter = letter
  slash = slash
  Newline = Newline
  Strings <- ShortStrings
  Separators <- OneSeparator
  MaxEntries = 3
INVARIANTS
  FoundAgain
