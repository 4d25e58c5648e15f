SPECIFICATION Spec
CONSTANTS
    Task = {t1, t2}
    Account = {r1, r2}
    MaxVersion = 2
    MaxMoves = 2
    MaxEvents = 3
SYMMETRY Symmetry
INVARIANTS SyncTypeOK NothingNewIsSkipped
PROPERTIES AdoptedByChoice OldIdentitySendsNothing
