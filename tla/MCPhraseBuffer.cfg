CONSTANTS
  Runes = {"f", "cyr_a", "cyr_be", ",", "?", "&", "1", " ", "eacute"}
  Latin = {"f", "eacute"}
  Cyrillic = {"cyr_a", "cyr_be"}
  Digits = {"1"}
  ENToRU <- EnTable
  RUToEN <- RuTable
  BackspaceCap = 3
  MaxText = 4
SPECIFICATION Spec
INVARIANTS BufferInv Toggle
PROPERTY WordAndItsStretch
CHECK_DEADLOCK FALSE
