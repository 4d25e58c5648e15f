SPECIFICATION Spec
CONSTANTS
    Process = {p1}
    Ticket = {k1, k2}
    MaxSecrets = 4
    MaxFaults = 1
SYMMETRY Symmetry
INVARIANTS ReuseNeedsOldSecret
PROPERTIES CrashLosesNothing
CHECK_DEADLOCK FALSE
