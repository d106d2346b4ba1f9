SPECIFICATION Spec
CONSTANTS
    Runs = {1, 2}
    PreservesCommits = FALSE
    MaxObservations = 2
    MaxChanges = 2
    MaxRequests = 0
    MaxRestarts = 1
PROPERTIES
    MergedIsCleaned
