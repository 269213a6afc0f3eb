SPECIFICATION Spec
CONSTANTS
    Prompts <- TwoPrompts
    None = None
    TP = 1
    Layers = 2
    MaxBatch = 1
    MaxAhead = 1
    Faults = {"crash"}
    Cleaned = {}
    Blind = TRUE
    MaxRounds = 2
    MaxStarts = 2
\* Every bound used up, nobody asks for anything any more.
CHECK_DEADLOCK FALSE
INVARIANTS SkippedIsServed
