\* local_size 3 and 5 over 2..4 channels: windows clipped at both ends,
\* wider than the channels, and sliding through the middle; one sample,
\* memory freshly allocated with zeros or with another value.
\* The layer may stop being called, so a final state is not a deadlock.
SPECIFICATION Spec
CONSTANTS
    Sizes = {3, 5}
    ChannelCounts = {2, 3, 4}
    Nums = {1}
    MaxThreads = {1}
    K = 1
    AlphaOverSize = 1
    Values = {0, 1, 2}
    Fresh = {0, 5}
    MaxPasses = 1
INVARIANT ScaleIsWindowSum
INVARIANT AccumIsWindowSum
CHECK_DEADLOCK FALSE
