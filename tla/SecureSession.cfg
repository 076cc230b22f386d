SPECIFICATION FairSpec
CONSTANTS
  MaxXfers = 4
  MaxTries = 2
  Prompt = TRUE
  IoErrors = TRUE
INVARIANTS
  TypeOK
  WelcomedOnce
  EncryptedTransfer
  OwnConnection
  QuiescentBetweenTransfers
PROPERTIES
  ImplementsService
  StartDecided
  ExplicitSecured
  TransferEnds
  SessionReleased
\* The session ends when nothing is outstanding any more.
CHECK_DEADLOCK FALSE
