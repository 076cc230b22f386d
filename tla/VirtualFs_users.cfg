SPECIFICATION Spec
CONSTANTS
  u1 = u1
  u2 = u2
  s1 = s1
  s2 = s2
  a = a
  ab = ab
  i1 = i1
  i2 = i2
  i3 = i3
  Users = {u1, u2}
  Sessions = {s1, s2}
  Accounts <- TwoAccounts
  Names = {a}
  Empty = Empty
  LikePrefix <- Apart
  None = None
  Uploaders = {s1}
  AbsoluteMkd = FALSE
  Overwrite = FALSE
  DiskErrors = TRUE
  Ids = {i1, i2}
  MaxArg = 1
  MaxDepth = 2
  MaxLen = 1
INVARIANTS
  TypeOK
  DataFileForRow
PROPERTIES
  UserIsolation
SYMMETRY Symmetry
\* With every id in use and no command read, the bound on ids stops an upload.
CHECK_DEADLOCK FALSE
