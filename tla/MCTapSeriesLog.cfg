CONSTANTS
  TapKeys = {shiftR, ctrlR}
  ComboKey = combo
  OtherKey = letter
  Windows = {1}
  MayLengthen = FALSE
  MaxTime = 3
  Horizon = 2
  MaxLog = 6
  MaxOther = 1
SPECIFICATION LogSpec
INVARIANTS SeriesHasTimer CountsTheSeries
PROPERTIES SeriesEnds DecisionIsQuiet
CHECK_DEADLOCK FALSE
