SPECIFICATION FairSpec
CONSTANTS
    Registered <- MCRegistered
    Batch <- MCBatch
INVARIANTS EarlierBatchesRun NothingLeftRunning CommandsSeeServices
PROPERTIES ProcessEnds
CHECK_DEADLOCK FALSE
