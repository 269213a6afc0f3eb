SPECIFICATION Spec
CONSTANTS
    Prompts <- TwoPrompts
    None = None
    TP = 1
    Layers = 2
    MaxBatch = 2
    MaxAhead = 1
    Faults = {}
    Cleaned = {}
    Blind = TRUE
    MaxRounds = 2
    MaxStarts = 1
\* Every bound used up, nobody asks for anything any more.
CHECK_DEADLOCK FALSE
INVARIANTS BlobIsOnePrefill
