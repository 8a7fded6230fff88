SPECIFICATION Spec
CONSTANTS
  QSize = 4
  IdxMod = 8
  RX_QUEUE_SIZE = 2
  Packets <- MCPackets
  MaxLens = {1}
  TxBufs = {1, 2}
  TxLag = 2
INVARIANTS
  RxFifo
  
PROPERTIES
  DeviceNeverStarved
