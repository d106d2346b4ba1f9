SPECIFICATION Spec
CONSTANTS
    Runs <- MCRuns
    Priority <- MCPriority
    MaxQueued = 2
    MaxRunning = 1
    DeploymentCap = 4
    RunCap = 3
    Allowance = 2
    Reports = {1, 3}
    MaxExternalAttempts = 1
    PauseKinds = {"disable", "withdrawal"}
    NoRun = NoRun
INVARIANTS
    StateIntegrity
    WithinCaps
    ReservationsAreOwed
PROPERTIES ImplementsTokenLedger ImplementsRunLifecycle
    HoldIsOperators
    RecoveryIsNotResumption
    NoStartWhileGated
    NoOvertaking
