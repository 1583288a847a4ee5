\* As in MCSafetyGuardian, for one invariant.
CONSTANTS
  Registered <- TwoEngines
  ClearsFirst <- CpuOnly
  JoinsOld <- StorageOnly
  Zones <- AcpiOnly
  MaxFailures = 2
  MaxLevel = 2
  cpu_temp_max = 2
  MaxStarts = 2
SPECIFICATION Spec
INVARIANT EmergencyStopsAll
CHECK_DEADLOCK FALSE
