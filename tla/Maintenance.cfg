SPECIFICATION Spec
CONSTANTS
    Runs = {1, 2}
    PreservesCommits = TRUE
    MaxObservations = 2
    MaxChanges = 2
    MaxRequests = 1
    MaxRestarts = 1
INVARIANTS
    TypeOK
    OutcomeIsTrue
PROPERTIES
    RemovalIsAuthorized
    MergedIsCleaned
    MaintenanceGivesWay
