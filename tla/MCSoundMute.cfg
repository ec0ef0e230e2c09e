CONSTANTS
  Themes = {"freedesktop", "yaru"}
  Events = {"bell", "done"}
  StartEvent = "bell"
  Playable <- ThemeSounds
  MaxTones = 2
  MaxChanges = 2
  MaxFaults = 1
SPECIFICATION Spec
CHECK_DEADLOCK FALSE
INVARIANTS MutedMeansClosed

