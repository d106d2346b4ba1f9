SPECIFICATION FairSpec
CONSTANTS
    Generations = 1
    MaxEvents = 1
    MaxAttempts = 2
    MaxOperated = 1
    Kinds = {"report", "projection", "notification"}
INVARIANTS
    ReportedOnce
PROPERTIES
    DeliveriesEnd
CHECK_DEADLOCK FALSE
