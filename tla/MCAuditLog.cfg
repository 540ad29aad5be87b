SPECIFICATION Spec
CONSTANTS
    pipeline = pipeline
    overview = overview
    run = run
    again = again
    Loggers <- MCLoggers
    Closers <- MCClosers
    PerLogger = 3
    QueueSize = 2
CHECK_DEADLOCK FALSE
INVARIANTS
    TypeOK
    TailAccounted
PROPERTY
    CloseReturns
