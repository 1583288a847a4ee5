\* Up to three commands in a row, two mishaps of the store, three steps of a schedule.
SPECIFICATION FairSpec
CONSTANTS
  Entries = {e1, e2}
  MaxMishaps = 2
  Menus <- ThreeMenus
  MaxSteps = 3
  MaxPrograms = 3
INVARIANTS
  
  TouchesOnlyTheLiving
  StoreSurvives
PROPERTIES
  SessionEnds
\* The last command was given, and the program is over.
CHECK_DEADLOCK FALSE
