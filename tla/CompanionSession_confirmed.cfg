SPECIFICATION Spec
CONSTANTS
    Process = {p1}
    Account = {a1}
    MaxIssued = 3
    MaxFaults = 0
INVARIANTS ConfirmedMeansEnded
CHECK_DEADLOCK FALSE
