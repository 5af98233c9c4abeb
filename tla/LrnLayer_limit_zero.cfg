\* local_size 1, or a single channel: limit = min(pre_pad_, channels_-1)
\* is 0, the freshly allocated scale_ (zero-filled) is used.
SPECIFICATION Spec
CONSTANTS
    Sizes = {1, 3}
    ChannelCounts = {1, 2}
    K = 1
    AlphaOverSize = 1
    Values = {0, 1, 2}
    Nums = {1}
    MaxThreads = {1}
    Fresh = {0}
    MaxPasses = 1
INVARIANT ScaleIsWindowSum
CHECK_DEADLOCK FALSE
