CONSTANTS
  Themes = {"freedesktop", "yaru"}
  Events = {"bell", "done"}
  StartEvent = "bell"
  Playable <- ThemeSounds
  MaxTones = 2
  MaxChanges = 2
  MaxFaults = 1
SPECIFICATION FairSpec
CHECK_DEADLOCK FALSE
INVARIANTS SystemMuteCloses SoundInv
PROPERTIES FallsSilent
