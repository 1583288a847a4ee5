\* Every pattern and every fault of one cell and of two, stops at every word; two tests of
\* up to two passes without a fault and with one cell stuck.
CONSTANTS
  N = 3
  Width = 2
  Faults <- EveryFault
  Noises <- TestNoises
  Patterns = {"MARCH_C_MINUS", "WALKING_ONES", "WALKING_ZEROS", "CHECKERBOARD",
              "RANDOM", "BANDWIDTH"}
  MaxPasses = 2
  MaxStarts = 2
SPECIFICATION FairSpec
INVARIANTS
  TypeOK
  NoFalseAlarm
  StopsAtFirstError
  FindsItsFaults
PROPERTY TestEnds
CONSTRAINT OnePassForMost
\* A program that has been terminated stays so, and start() is not called for ever.
CHECK_DEADLOCK FALSE
