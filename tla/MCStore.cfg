SPECIFICATION Spec
CONSTANTS
    Stores = {"9p", "elf", "nvram", "claim", "forth heap", "c heap"}
    AnyFill = FALSE
    MaxOps = 8
    MaxResets = 1
INVARIANTS
    FileLoaded
    
    PartitionsSurvive
    
    MemorySound
CHECK_DEADLOCK FALSE
