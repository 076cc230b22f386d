SPECIFICATION Spec
CONSTANTS
  u1 = u1
  u2 = u2
  s1 = s1
  s2 = s2
  s3 = s3
  Users = {u1, u2}
  NoUser = NoUser
  Slots = {s1, s2}
  NoOp = NoOp
  MaxXfers = 4
  MaxReads = 2
  Pipelined = FALSE
  IoErrors = TRUE
  Unusual = {}
INVARIANTS
  QuiescentBetweenTransfers
  OwnConnection
  OneOperation
  LockStepInv
PROPERTIES
  ImplementsService
\* The session ends when nothing is outstanding any more.
CHECK_DEADLOCK FALSE
