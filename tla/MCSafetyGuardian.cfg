\* A helper given up at its second failure and an ACPI zone, two levels of heat, two starts.
CONSTANTS
  Registered <- TwoEngines
  ClearsFirst <- CpuOnly
  JoinsOld <- StorageOnly
  Zones <- AcpiOnly
  MaxFailures = 2
  MaxLevel = 2
  cpu_temp_max = 2
  MaxStarts = 2
SPECIFICATION FairSpec
INVARIANTS
  SweepStopsVictims
  ClosedLeavesNoThread
PROPERTIES
  HeatIsNoticed
  ClosingEnds
CHECK_DEADLOCK FALSE
