SPECIFICATION FairSpec
CONSTANTS
    Prompts <- TwoPrompts
    None = None
    TP = 2
    Layers = 2
    MaxBatch = 1
    MaxAhead = 2
    Faults = {"crash", "ghost", "slow"}
    Cleaned = {0}
    Blind = FALSE
    MaxRounds = 4
    MaxStarts = 3
\* Every bound used up, nobody asks for anything any more.
CHECK_DEADLOCK FALSE
INVARIANTS TypeOK BlobIsOnePrefill PeersWillPublish
PROPERTIES Served ImplementsPrefillStore
