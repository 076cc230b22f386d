SPECIFICATION ProgramSpec
CONSTANTS
  guest = guest
  other = other
  old = old
  new = new
  Names = {guest, other}
  Passwords = {old, new}
  Guest = guest
  DefaultPassword = old
  Configs <- MCConfigs
  None = None
  Absent = Absent
  Bad = Bad
  NoDir = NoDir
  NoFile = NoFile
  MaxEdits = 2
  MaxCrashes = 2
  MaxUploads = 1
  MaxFds = 8
  DbFds = 2
  FirstPort = 7000
  MaxWaiting = 1
  MaxLinger = 1
INVARIANTS
  ProgramTypeOK
  ServesConfiguredUsers
  NothingLost
PROPERTIES
  KeepsStorage
  ComesUp
  LoopComesBack
\* A port search without end stops the process for good.
CHECK_DEADLOCK FALSE
