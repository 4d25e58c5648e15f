SPECIFICATION Spec
CONSTANTS
    Datasets <- MCDatasets
    MaxRank = 2
INVARIANTS BuildsAreReachable RefusalsAreRight
PROPERTY LinksKeepTheirBuild
