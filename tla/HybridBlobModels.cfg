SPECIFICATION Spec
CONSTANTS
    AttnModels <- AllAttn
    GdnModels <- AllGdn
    SeqId = 0
\* A run ends when the reader is through or the model is refused.
CHECK_DEADLOCK FALSE
INVARIANTS ReaderFindsAttention TailFollows NothingStops MergeIsSolo ReaderFindsConv ReaderFindsSsm
PROPERTIES ReadOrRefused
