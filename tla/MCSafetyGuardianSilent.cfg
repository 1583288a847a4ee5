\* No engine is started.
CONSTANTS
  Registered <- TwoEngines
  ClearsFirst <- CpuOnly
  JoinsOld <- StorageOnly
  Zones <- AcpiOnly
  MaxFailures = 2
  MaxLevel = 2
  cpu_temp_max = 2
  MaxStarts = 0
SPECIFICATION FairSpec
INVARIANT ZeroIfNotAvailable
CHECK_DEADLOCK FALSE
