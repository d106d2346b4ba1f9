SPECIFICATION Spec
CONSTANTS
    Configurations = {1, 2}
    MaxChanges = 2
    MaxAttempts = 2
    MaxOthers = 1
    MaxRestarts = 1
INVARIANTS
    TypeOK
    OnePullRequest
    CompletedIsHandedOver
    HeldGenerationIsKept
PROPERTIES
    PublicationEnds
    ProviderFollowsSettings
CHECK_DEADLOCK FALSE
