SPECIFICATION FairSpec
CONSTANTS
  MaxXfers = 2
  MaxTries = 2
  Prompt = FALSE
  IoErrors = FALSE
INVARIANTS
  OwnConnection
\* The session ends when nothing is outstanding any more.
CHECK_DEADLOCK FALSE
