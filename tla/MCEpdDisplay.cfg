\* Every command, every kind of panel, two levels, two minutes of two seconds; and
\* what must still happen once the central is quiet.
SPECIFICATION FairSpec
CONSTANTS
  Levels = {0, 1}
  ForcedModels = {0, 1, 2, 5, 7}
  Hardware <- AllPanels
  BleCommands = {"upload", "push", "tiff", "force", "level", "speed"}
  SecondsPerMinute = 2
  MinutesPerHour = 2
  HoursPerDay = 1
  RefreshSeconds = 1
INVARIANTS
  TypeOK
  RefreshAccounted
PROPERTIES
  OnlyPushCutsShort
  UpdatesEnd
  LevelShown
