SPECIFICATION ProjectionSpec
CONSTANTS
    Exports <- MCExports
    MaxRows = 30
    AllowedTypes <- Types
    AllowedKinds <- Kinds
    MinForRate = 2
    LowBelow = 3
    HighAt = 4
    MinCell = 2
    RejectedPercent = 25
    AnomalyPercent = 6
    Grid = 2
    MaxPosition = 4
    MaxMap = 5
    MaxItem = 9
    MaxPageId = 9
    MaxPageMap = 5
INVARIANTS PublishesWhatRowsSay FitsPublicSchema ZonesAgree PlacedLinksOpen
