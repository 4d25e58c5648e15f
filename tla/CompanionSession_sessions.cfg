SPECIFICATION Spec
CONSTANTS
    Process = {p1, p2}
    Account = {a1}
    MaxIssued = 3
    MaxFaults = 1
SYMMETRY Symmetry
INVARIANTS CompanionTypeOK
PROPERTIES NoSessionIsDropped TokensNeverGoBack
CHECK_DEADLOCK FALSE
