SPECIFICATION Spec
CONSTANTS
    h1 = h1
    h2 = h2
    h3 = h3
    Procs <- ThreeHosts
    Dirs = {1, 2, 3, 4, 5, 6, 7}
    NoDir = NoDir
    Services = {"dispatch"}
SYMMETRY HostSymmetry
INVARIANTS
    SecondHostRefuses
CHECK_DEADLOCK FALSE
