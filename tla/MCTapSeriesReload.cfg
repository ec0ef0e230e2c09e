CONSTANTS
  TapKeys = {shiftR}
  ComboKey = combo
  OtherKey = letter
  Windows = {1, 2}
  MayLengthen = TRUE
  MaxTime = 4
  Horizon = 2
  MaxLog = 3
  MaxOther = 1
SPECIFICATION LogSpec
PROPERTY SeriesEnds
CHECK_DEADLOCK FALSE
