SPECIFICATION DiskSpec
CONSTANTS
  QSize = 8
  IdxMod = 16
  Capacity = 4
  BlkSectors = 2
  SectorMod = 16
  Bufs = {1}
  Slots = {3}
  Blocks = {0, 1, 4}
  Cnts = {1, 2}
  Protected = 1
  MaxPending = 2
  Disks = {"blk", "scsi"}
  MaxRetries = 2
  ScsiPending = 1
  ScsiCommands <- MCCommands
  ScsiAnswers <- MCAnswers
INVARIANTS
  TransfersRight
  ScsiRight
  PartitionTableKept
PROPERTIES
  DisksReturn
