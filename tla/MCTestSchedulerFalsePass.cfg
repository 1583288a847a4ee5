\* One run of a CPU step and a RAM step one after the other.
CONSTANTS
  Schedules <- PresetPairs
  MaxDuration = 2
  MaxFound = 1
  MaxStarts = 1
SPECIFICATION Spec
INVARIANT PassedMeansNoErrors
CHECK_DEADLOCK FALSE
