SPECIFICATION Spec
CONSTANTS
    k1 = k1
    k2 = k2
    None = None
    Torn = Torn
    Keys = {k1, k2}
    Blobs <- RepublishedBlobs
    Chunk = 2
    CallModes = {"fresh", "resume", "repull"}
    Faults = {"eof", "reset", "crash", "timeout", "disk", "kill"}
    MaxDrops = 2
    MaxCalls = 2
    MaxRetries = 1
    Window = 2
\* Every bound used up, the environment and the callers stop.
CHECK_DEADLOCK FALSE
INVARIANTS TypeOK PulledBlobIntact NeverMismatch
PROPERTIES SidecarWritten ImplementsDelivery
