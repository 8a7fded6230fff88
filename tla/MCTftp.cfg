SPECIFICATION Spec
CONSTANTS
  Files <- OneFile
  BlockMod = 8
  MaxBlocksize = 2
  BufLens = {1, 5}
  Retries = 2
  HelpAfter = 1
  RrqEvery = 2
  ServerKinds = {"oack", "badoack", "ack", "plain", "missing"}
  WrapTo = 0
  MaxSessions = 2
  MaxTries = 1
  Lifetime = 2
INVARIANTS
  StoredBeforeAcked
PROPERTIES
  DeliversFile
  Returns
CHECK_DEADLOCK FALSE
