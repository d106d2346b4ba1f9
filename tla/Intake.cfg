SPECIFICATION FairSpec
CONSTANTS
    Adapters = {"jira", "github-issues"}
    IssueCount = 1
    MaxGeneration = 2
    MaxBriefs = 2
    MaxEdits = 3
    MaxQueued = 1
    MaxReceipts = 1
    Requests = {"r1"}
    Timed = "timed"
INVARIANTS
    TypeOK
    UniqueRuns
    BriefsWereApproved
    AcknowledgedIsAdmitted
PROPERTIES
    EligibleIsAdmitted
CHECK_DEADLOCK FALSE
