\* Two cores, two tests, at most one wrong lane in a batch.
CONSTANTS
  NumThreads = 2
  Lanes = 1
  MaxErrors = 1
  MaxStarts = 2
  Modes = {"lanes", "prime"}
SPECIFICATION FairSpec
INVARIANTS
  ShowsOnlyThisTest
  ErrorBooksAgree
PROPERTIES
  StopsOnError
  EndsAtDuration
  ErrorsSurface
CHECK_DEADLOCK FALSE
