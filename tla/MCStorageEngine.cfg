\* Two tests in a row in every mode, one refusal per test; files of two I/Os.
SPECIFICATION FairSpec
CONSTANTS
  B = 2
  Q = 2
  MaxStarts = 2
  MaxFaults = 1
  Modes <- AllModes
INVARIANTS
  HealthyDiskIsClean
  PoolWorksOnOpenFile
  CompletedMeansDone
  NoFileLeft
PROPERTIES
  TestsEnd
CHECK_DEADLOCK FALSE
