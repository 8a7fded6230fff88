SPECIFICATION MCSpec
CONSTANTS
  Start = 0
  Size = 20
  BlockSize = 4
  Sizes <- MCSizes
  Foreign <- MCForeign
  Buffers <- MCBuffers
  UnmapsFailures = FALSE
  RXPROD_RING_SIZE = 3
  RXRET_RING_SIZE = 3
  TX_RING_SIZE = 3
  MAX_RX_BUF = 2
  MAX_TX_BUF = 2
  Room = 1
  Packets = {p, q}
  NUM_RX_DESC = 3
  NUM_TX_DESC = 3
  ETags = {p, q}
  MaxMaps = 2
  RX_QUEUE_SIZE = 3
  VTags = {p, q}
  MaxBufs = 4
  RootPorts = 2
  HubPorts = 1
  UDevs = {d1, d2, d3}
  PoolSize = 3
  MaxPools = 2
  KeybufSize = 3
  Keys = {"a", "caps", "up"}
  OTds = 2
  ORing = 3
  OReports = {r1, r2}
  MaxDone = 2
  HPage = 3
  HBuffers = 2
  NUM_BULK_QTDS = 3
  HMaxTransfer = 15
  XPorts = 1
  XSlots = 2
  XEvents = 3
  XTrbs = 3
  None = None
INVARIANTS
  LiveDisjoint
  NoLeak
  RefusedOnlyIfNoRun
  TranslationExact
  NoStrayTranslation
  NullNeverMapped
  FramesIntact
  NicQuietWhenClosed
  DevicesApart
  
  
PROPERTIES
  PairsAllocatorCalls
CHECK_DEADLOCK FALSE
