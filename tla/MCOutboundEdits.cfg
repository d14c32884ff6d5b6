CONSTANTS
    NumTasks = 2
    Txn <- Edited
    Shape <- EditedShape
    MaxFaults = 0
SPECIFICATION Spec
INVARIANTS
    EditsReachSlack
CHECK_DEADLOCK FALSE
