SPECIFICATION FairSpec
CONSTANTS
    h1 = h1
    h2 = h2
    h3 = h3
    Procs <- TwoHosts
    Dirs = {1, 2, 3, 4, 5}
    NoDir = NoDir
    Services = {"dispatch", "operations"}
INVARIANTS
    OwnersAreFenced
PROPERTIES
    AttemptsEnd
CHECK_DEADLOCK FALSE
