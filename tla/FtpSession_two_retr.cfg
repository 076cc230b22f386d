SPECIFICATION Spec
CONSTANTS
  u1 = u1
  u2 = u2
  s1 = s1
  s2 = s2
  s3 = s3
  Users = {u1}
  NoUser = NoUser
  Slots = {s1, s2}
  NoOp = NoOp
  MaxXfers = 2
  MaxReads = 3
  Pipelined = TRUE
  IoErrors = FALSE
  Unusual = {}
INVARIANTS
  NoNullStream
SYMMETRY SessionSymmetry
\* The session ends when nothing is outstanding any more.
CHECK_DEADLOCK FALSE
