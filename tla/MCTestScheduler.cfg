\* Two runs of each schedule, or of one after another.
CONSTANTS
  Schedules <- TestSchedules
  MaxDuration = 2
  MaxFound = 1
  MaxStarts = 2
SPECIFICATION FairSpec
INVARIANTS
  OnlyActiveRun
  ResultsSound
PROPERTIES
  StopOnErrorStops
  Completes
CHECK_DEADLOCK FALSE
