SPECIFICATION Spec
CONSTANTS
    Stores = {"nvram"}
    AnyFill = TRUE
    MaxOps = 3
    MaxResets = 0
INVARIANTS
    PartitionsSurvive
CHECK_DEADLOCK FALSE
