SPECIFICATION Spec
CONSTANTS
  u1 = u1
  u2 = u2
  s1 = s1
  s2 = s2
  a = a
  ab = ab
  i1 = i1
  i2 = i2
  i3 = i3
  Users = {u1}
  Sessions = {s1, s2}
  Accounts <- OneAccount
  Names = {a, ab}
  Empty = Empty
  LikePrefix <- Apart
  None = None
  Uploaders = {s1}
  AbsoluteMkd = FALSE
  Overwrite = TRUE
  DiskErrors = FALSE
  Ids = {i1, i2}
  MaxArg = 1
  MaxDepth = 1
  MaxLen = 1
INVARIANTS
  SizeAgrees
SYMMETRY IdSymmetry
\* With every id in use and no command read, the bound on ids stops an upload.
CHECK_DEADLOCK FALSE
