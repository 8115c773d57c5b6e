SPECIFICATION FairSpec
CONSTANTS
    MaxPolls = 2
    Scripts <- Logs
    ChunkSize = 2
    MaxFaults = 2
INVARIANTS TypeOK NothingSkipped  VotesCountedOnce
PROPERTY CatchesUp
