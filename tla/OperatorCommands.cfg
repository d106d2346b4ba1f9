SPECIFICATION Spec
CONSTANTS
    Requests = {1, 2}
    MaxRecords = 2
    MaxInterruptions = 1
    MaxRestarts = 1
CHECK_DEADLOCK FALSE
INVARIANTS
    TypeOK
    SucceededIsEffective
PROPERTIES
    CommandsEnd
