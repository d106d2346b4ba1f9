SPECIFICATION Spec
CONSTANTS
    Runs = {1, 2}
    MaxRunning = 1
    MaxChanges = 2
    MaxCommands = 1
    MaxCrashes = 1
INVARIANTS
    TypeOK
    OneRootPerSession
    WithdrawnIsQuiet
PROPERTIES
    CheckpointIsProven
    QueuedStarts
