SPECIFICATION FairSpec
CONSTANTS
    k1 = k1
    k2 = k2
    None = None
    Torn = Torn
    Keys = {k1, k2}
    Blobs <- StableBlobs
    Chunk = 2
    CallModes = {"fresh", "resume"}
    Faults = {"eof"}
    MaxDrops = 2
    MaxCalls = 2
    MaxRetries = 2
    Window = 2
\* Every bound used up, the environment and the callers stop.
CHECK_DEADLOCK FALSE
INVARIANTS DropsAreSurvived PullGoesOn
PROPERTIES Completes
