\* A detected panel and command 0xE0 with the number of another family.
SPECIFICATION Spec
CONSTANTS
  Levels = {0}
  ForcedModels = {1, 2}
  Hardware <- Detected
  BleCommands = {"force"}
  SecondsPerMinute = 2
  MinutesPerHour = 2
  HoursPerDay = 1
  RefreshSeconds = 1
PROPERTY
  SleepsWhenDone
