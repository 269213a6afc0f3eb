SPECIFICATION Spec
CONSTANTS
    Requests = {r1, r2}
    Prompts = {p1, p2}
    p1 = p1
    p2 = p2
    Length <- EvenLengths
    None = None
    Stacks <- OnePair
    BlockSize = 2
    Blocks = 3
    Slots = 2
    Budget = 3
    Chunked = TRUE
    MaxSteps = 3
    MaxDecode = 1
\* Every bound used up, nobody asks for anything any more.
CHECK_DEADLOCK FALSE
INVARIANTS RowsAreThePrompt
