\* Two tests in a row, one refusal of the driver, every loop pattern.
SPECIFICATION FairSpec
CONSTANTS
  Modes = {"MATRIX_MUL_FP64", "TRIG_STRESS", "FMA_STRESS", "VRAM_TEST", "MIXED", "VULKAN_3D", "VULKAN_ADAPTIVE"}
  Hardware <- GpuFaults
  Machines <- TwoMachines
  VramWords = 5
  WordWidth = 2
  local_size = 2
  Seeds = 1
  CheckInterval = 2
  MaxDispatches = 4
  MaxErrors = 1
  MaxStarts = 2
  MaxFaults = 1
  Cores = 2
  Patterns = {"STEADY", "SPIKE", "RAMP"}
INVARIANTS
  HealthyGpuIsClean
  VramFindsItsFaults
  HandlesReleased
  LoadsEndWithTest
PROPERTIES
  TestsEnd
\* A program that was terminated stays so, and an engine that was destroyed.
CHECK_DEADLOCK FALSE
