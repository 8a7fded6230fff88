SPECIFICATION Spec
CONSTANTS
  Files <- TwoFiles
  BlockMod = 8
  MaxBlocksize = 2
  BufLens = {5}
  Retries = 2
  HelpAfter = 1
  RrqEvery = 2
  ServerKinds = {"oack"}
  WrapTo = 0
  MaxSessions = 2
  MaxTries = 1
  Lifetime = 2
INVARIANTS
  SuccessIsWholeFile
CHECK_DEADLOCK FALSE
