SPECIFICATION FairSpec
CONSTANTS
  Chars = {a}
  Loggers = {w}
  HistoryLimit = 2
  MaxLine = 2
  MaxQueue = 2
INVARIANTS
  TypeOK
  RacesAreKnown
PROPERTIES
  KeysHandled
