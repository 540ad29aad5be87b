SPECIFICATION Spec
CONSTANTS
    f1 = f1
    f2 = f2
    old = old
    new = new
    stub = stub
    None = None
    Files <- MCFiles
    Versions <- MCVersions
    Stubs <- MCStubs
    Calls <- MCCalls
    MaxRuns = 2
    MaxEdits = 2
SYMMETRY MCSymmetry
CHECK_DEADLOCK FALSE
INVARIANTS
    TypeOK
    
    
    ChunksAreCurrent
