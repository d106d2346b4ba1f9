SPECIFICATION Spec
CONSTANTS
    Generations = 2
    MaxEvents = 3
    MaxAttempts = 2
    MaxOperated = 1
    Kinds = {"projection"}
INVARIANTS
    ProjectionsAreSerialized
    LabelIsCurrent
PROPERTIES
    NeverRevived
CHECK_DEADLOCK FALSE
