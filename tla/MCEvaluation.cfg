SPECIFICATION HistorySpec
CONSTANTS
    Artifacts = {a1, x}
    Extended = {x}
    MaxFixIterations = 3
    MaxFix <- MCMaxFix
    RepeatThreshold = 2
    OptionSpace <- MCOptions
INVARIANTS
    TypeOK
    StableMeansGreen
    DiscardIsEvidenced
    StreakIsHistory
PROPERTIES
    NoFruitlessCompile
    ImplementsContract
    Terminates
CHECK_DEADLOCK FALSE
