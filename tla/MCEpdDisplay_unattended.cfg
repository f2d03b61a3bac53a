\* No central: the clock alone redraws.  A day of two hours of two minutes of
\* five seconds, refreshes of at most two seconds.
SPECIFICATION FairSpec
CONSTANTS
  Levels = {0}
  ForcedModels = {}
  Hardware <- Detected
  BleCommands = {}
  SecondsPerMinute = 5
  MinutesPerHour = 2
  HoursPerDay = 2
  RefreshSeconds = 2
INVARIANTS
  RedrawNeverDropped
  HourOpensWithFullRefresh
