SPECIFICATION Spec
CONSTANTS
  IntMax = 3
  LongMax = 15
  Exact = 7
  LenMax = 44
  EmbedLen = 2
  Asked <- Numbers
  Length <- Lengths
INVARIANTS TypeOK ReadsBack IntervalsKept StringsHold CurveHolds
PROPERTIES Restores
