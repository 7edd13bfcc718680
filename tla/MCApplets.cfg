SPECIFICATION AppletsSpec
CONSTANTS
  MaxProcs = 3
  MaxLetters = 2
  MainLetters <- MCMainLetters
  LogLetters <- MCLogLetters
  Handled <- MCHandled
  Blocks = 3
  W = 4
  Retries = 3
  r1 = r1
  r2 = r2
  Readers <- MCReaders
  Size = 6
  Lengths <- MCLengths
  MaxMessages = 4
  MaxKills = 1
  Durations <- MCDurations
INVARIANTS
  AppletsTypeOK
  OneChild
  StatusFresh
  NoOrphanOnExit
  FileFaithful
  LogReadFaithful
  WatcherAim
PROPERTIES
  FinishOnce
  ExitHonoured
  TransfersFile
  TransferIsOver
  LoggingGoesOn
  OverrunSignalled
