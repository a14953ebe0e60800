SPECIFICATION FairSpec
CONSTANTS
    v1 = v1
    r1 = r1
    Virtual <- MCVirtual
    Real <- MCReal
    Timeouts <- MCTimeouts
    MaxElapsed = 1
INVARIANTS AnswerIsTrue
PROPERTIES TimeoutIsTrue MuxReturns
