\* Four passes of Reshape, Forward and Backward with local_size 3 or 5,
\* 2 to 4 channels and batches of one or two samples on one or two OpenMP
\* threads: a thread takes two samples in a row, and Reshape keeps or
\* reallocates the memory of scale_, padded_ratio_ and accum_ratio_.
\* Inputs are uniform: the window arithmetic itself is the subject of
\* LrnLayer.cfg, here what matters is which memory each pass reads.
SPECIFICATION Spec
CONSTANTS
    Sizes = {3, 5}
    ChannelCounts = {2, 3, 4}
    Nums = {1, 2}
    MaxThreads = {1, 2}
    K = 1
    AlphaOverSize = 1
    Values = {1}
    Fresh = {0}
    MaxPasses = 4
INVARIANT AccumIsWindowSum
CHECK_DEADLOCK FALSE
