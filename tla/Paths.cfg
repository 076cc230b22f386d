SPECIFICATION Spec
CONSTANTS
  Letters = {"a", "b"}
  Upper <- MCUpper
  Delims <- MCDelims
  Dirs <- MCDirs
  MaxLen = 6
INVARIANTS
  SplitsAndJoins
  ReplacesAll
  CommandRecovered
  ParentAgrees
  ArgumentsAgree
\* The text has its full length.
CHECK_DEADLOCK FALSE
