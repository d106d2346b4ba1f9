SPECIFICATION Spec
CONSTANTS
    Adapters = {"jira"}
    IssueCount = 1
    MaxGeneration = 1
    MaxBriefs = 1
    MaxEdits = 2
    MaxQueued = 1
    MaxReceipts = 1
    Requests = {"r1"}
    Timed = "timed"
PROPERTIES
    NewlyBlockedNeverStarts
CHECK_DEADLOCK FALSE
