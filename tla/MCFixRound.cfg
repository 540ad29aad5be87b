SPECIFICATION Spec
CONSTANTS
    g1 = g1
    g2 = g2
    b = b
    o = o
    stray = stray
    Generated = {g1, g2}
    Baseline = {b}
    Others = {}
    Strays = {stray}
    Alias <- MCAlias
    MaxTests = 2
    AllowReduction = FALSE
    SignatureOnly = FALSE
    MaxAttempts = 3
    MaxRounds = 4
    ReplyFiles = 2
INVARIANTS
    TypeOK
    
    
PROPERTIES
    
    WideningIsOneRound
CHECK_DEADLOCK FALSE
