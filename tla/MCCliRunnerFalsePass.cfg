\* A single test is enough.
SPECIFICATION Spec
CONSTANTS
  Entries = {e1}
  MaxMishaps = 0
  Menus <- ThreeMenus
  MaxSteps = 1
  MaxPrograms = 1
INVARIANT PassMeansPassed
CHECK_DEADLOCK FALSE
