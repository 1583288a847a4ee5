\* VERIFY_SEQ, VERIFY_RAND, FILL_VERIFY and BUTTERFLY on files of up to 4 blocks.
CONSTANTS
  Configs <- TestConfigs
  Sizes = {0, 1, 2, 3, 4}
  MaxFaults = 1
  LogCap = 2
  Word = 16
SPECIFICATION FairSpec
INVARIANTS
  TypeOK
  NoFalseAlarm
  CounterfeitReported
  ErrorAccounting
  StopsAtFirstError
  VerifiedOnlyWhenFull
PROPERTIES
  EventuallyCompletes
  ImplementsContract
