SPECIFICATION DiskSpec
CONSTANTS
  QSize = 8
  IdxMod = 16
  Capacity = 2
  BlkSectors = 1
  SectorMod = 16
  Bufs = {1, 2}
  Slots = {3}
  Blocks = {0, 1}
  Cnts = {1}
  Protected = 0
  MaxPending = 2
  Disks = {"blk"}
  MaxRetries = 2
  ScsiPending = 1
  ScsiCommands <- MCCommands
  ScsiAnswers <- MCAnswers
INVARIANTS
  TransferCorrect
