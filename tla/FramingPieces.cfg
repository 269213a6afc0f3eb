SPECIFICATION FairSpec
CONSTANTS
    HeaderSize = 2
    MaxFrame = 3
    Lengths <- AllLengths
    MayCut = TRUE
    MaxSent = 3
\* After the last frame and the end of the stream nothing is left to do.
CHECK_DEADLOCK FALSE
INVARIANTS TypeOK FramesInOrder PartialIsHonest CleanHidesOneHeader
PROPERTIES AllDelivered
