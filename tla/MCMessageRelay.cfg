CONSTANTS
    f1 = f1
    NumMsgs = 2
    OwnMsgs <- SecondIsOwn
    Fills <- OneFill
    Faulty = TRUE
    MaxEvents = 3
    MaxQueue = 1
    MaxRedactions = 1
SPECIFICATION Spec
INVARIANTS
    TypeOK
    RelationsStayInMessage
    DeletionsHaveCause
    QuietMeansInSync
PROPERTIES
    MappingsOutliveMessages
CHECK_DEADLOCK FALSE
