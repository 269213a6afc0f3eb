SPECIFICATION FairSpec
CONSTANTS
    Requests = {r1, r2}
    Prompts = {p1, p2}
    p1 = p1
    p2 = p2
    Length <- TwoLengths
    None = None
    Stacks <- SmallStacks
    BlockSize = 2
    Blocks = 3
    Slots = 2
    Budget = 4
    Chunked = FALSE
    MaxSteps = 3
    MaxDecode = 1
\* Every bound used up, nobody asks for anything any more.
CHECK_DEADLOCK FALSE
INVARIANTS TypeOK KeyIsTheWholePrompt RowsAreThePrompt StatesAreAtTheEnd
PROPERTIES PulledOnceComputed
