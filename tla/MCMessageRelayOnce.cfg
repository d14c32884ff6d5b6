CONSTANTS
    f1 = f1
    NumMsgs = 2
    OwnMsgs <- NoneIsOwn
    Fills <- OneFill
    Faulty = FALSE
    MaxEvents = 3
    MaxQueue = 2
    MaxRedactions = 0
SPECIFICATION Spec
INVARIANT BridgedOnce
CHECK_DEADLOCK FALSE
