SPECIFICATION Spec
CONSTANTS
  QSize = 4
  IdxMod = 8
  RX_NUM_ELEMS = 2
  Chars = {"a", "b"}
  MaxOpens = 2
  MaxTx = 2

  
  
PROPERTIES
  WriteReturns
CHECK_DEADLOCK FALSE
