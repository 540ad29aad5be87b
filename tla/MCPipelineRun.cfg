SPECIFICATION Spec
CONSTANTS
    own = own
    new1 = new1
    new2 = new2
    new3 = new3
    NoPath = NoPath
    Paths <- MCPaths
    RepoFiles <- MCRepoFiles
    NumItems = 4
SYMMETRY MCSymmetry
CHECK_DEADLOCK FALSE
INVARIANTS
    TypeOK
    RepoFilesSurvive
    ShippedTreeIsGreen
    SurvivorExists
    StableOutcomesStand
