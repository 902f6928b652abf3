SPECIFICATION FairSpec
CONSTANTS
    maxRetries = 2
    MaxCalls = 2
    MaxWorkers = 2
    NoCall = NoCall
INVARIANTS
    TypeOK
    OwnProof
    NoProofTwice
PROPERTY
    CallAnswered
CHECK_DEADLOCK FALSE
