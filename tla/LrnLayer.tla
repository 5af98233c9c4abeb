------------------------------ MODULE LrnLayer ------------------------------
(***************************************************************************)
(* The ACROSS_CHANNELS path of LRNLayer (src/src/caffe/layers/            *)
(* lrn_layer.cpp): Reshape, the sliding-window sum of squares of the      *)
(* forward pass into the persistent scale_ blob, and the sliding          *)
(* accumulation of the padded ratios in the backward pass, over a batch   *)
(* of samples shared out to OpenMP threads.                               *)
(*                                                                         *)
(* The blobs scale_, padded_ratio_ and accum_ratio_ are flat memories    *)
(* (functions over 0 .. capacity-1) at one pixel (height = width = 1:     *)
(* pixels go through the same code independently).  padded_ratio_ and    *)
(* accum_ratio_ have one row per thread, reused for every sample the      *)
(* thread takes.  Blob::Reshape (not in this repository) keeps the memory *)
(* when the new count fits its capacity and otherwise allocates memory    *)
(* holding a value from Fresh.  Values are integers and alpha_/size_ and  *)
(* k_ integer constants, so the window sums are exact; the final powx and *)
(* mul of each pass, elementwise functions of scale_, are not modelled.   *)
(***************************************************************************)
EXTENDS Integers, FiniteSets, Functions

CONSTANTS
    Sizes,          \* local_size values the layer may be configured with
    ChannelCounts,  \* channels_ of the bottom blob
    Nums,           \* num_ (batch size) of the bottom blob
    MaxThreads,     \* values omp_get_max_threads() may return
    K,              \* k_
    AlphaOverSize,  \* alpha_ / size_
    Values,         \* values of a bottom element, and of a backward ratio
    Fresh,          \* content of freshly allocated blob memory
    MaxPasses       \* bound on Reshape (hence Forward) calls

ASSUME /\ Sizes \subseteq Nat /\ ChannelCounts \subseteq Nat \ {0}
       /\ Nums \subseteq Nat \ {0} /\ MaxThreads \subseteq Int
       /\ K \in Int /\ AlphaOverSize \in Int /\ Values \subseteq Int
       /\ Fresh \subseteq Int /\ MaxPasses \in Nat

VARIABLES
    size,       \* size_
    pc,         \* the Net's next call: "reshape" | "fwd" | "bwd" | "done"
    passes,     \* Reshape calls so far
    num,        \* num_
    channels,   \* channels_
    nThreads,   \* num_of_threads_
    scaleMem,   \* memory of scale_: sample n, channel c at n * channels_ + c
    padMem,     \* memory of padded_ratio_: thread t's row at t * (channels_ + size_ - 1)
    accMem,     \* memory of accum_ratio_: one element per thread
    lastX,      \* bottom of the last forward pass, per sample
    ratio,      \* top_diff * top_data / scale of the last backward pass
    used        \* accum_ratio as used for bottom_diff, per sample and channel

vars == << size, pc, passes, num, channels, nThreads, scaleMem, padMem,
           accMem, lastX, ratio, used >>

(* LayerSetUp: pre_pad_ = (size_ - 1) / 2.                                 *)
PrePad == (size - 1) \div 2

Chans   == 0 .. channels - 1
Samples == 0 .. num - 1

(* Blob::Reshape to count elements: memory kept if it fits the capacity.   *)
Realloc(mem, count, v) ==
    IF count > Cardinality(DOMAIN mem) THEN [i \in 0 .. count - 1 |-> v] ELSE mem

----------------------------------------------------------------------------
(* CrossChannelForward_cpu.                                                *)

(* limit = min(pre_pad_, channels_ - 1).                                    *)
Limit == IF PrePad < channels - 1 THEN PrePad ELSE channels - 1

(* caffe_sqr of the bottom into top_data.                                  *)
Sq(x) == [c \in Chans |-> x[c] * x[c]]

(* The first channel: caffe_set of limit channels starting at channel 0 to *)
(* k_, then alpha_over_size times the squares of channels 0..limit added. *)
(* With limit = 0 the set writes nothing and channel 0 keeps its value.   *)
Scale0(old, sq) ==
    (IF Limit > 0 THEN K ELSE old[0])
      + AlphaOverSize * SumFunctionOnSet(sq, 0 .. Limit)

(* Faulty variant of ScaleAt, kept to confirm that ScaleIsWindowSum        *)
(* detects it: the tail of the window is never subtracted.                *)
RECURSIVE ScaleAtNoTail(_, _, _)
ScaleAtNoTail(old, sq, c) ==
    IF c = 0 THEN Scale0(old, sq)
    ELSE ScaleAtNoTail(old, sq, c - 1)
         + (IF c < channels - PrePad THEN AlphaOverSize * sq[c + PrePad] ELSE 0)

(* Channel c: copy of channel c-1, plus the square entering the window,   *)
(* minus the square leaving it.                                           *)
RECURSIVE ScaleAt(_, _, _)
ScaleAt(old, sq, c) ==
    IF c = 0 THEN Scale0(old, sq)
    ELSE ScaleAt(old, sq, c - 1)
         + (IF c < channels - PrePad THEN AlphaOverSize * sq[c + PrePad] ELSE 0)
         - (IF c > PrePad THEN AlphaOverSize * sq[c - PrePad - 1] ELSE 0)

(* scale_ of sample n, at offsets scale_.offset(n, c).                     *)
ScaleView(mem, n) == [c \in Chans |-> mem[n * channels + c]]

CrossChannelForward(old, x) == [c \in Chans |-> ScaleAt(old, Sq(x), c)]

----------------------------------------------------------------------------
(* CrossChannelBackward_cpu.                                               *)

(* inverse_pre_pad = size_ - (size_ + 1) / 2.                               *)
InversePrePad == size - (size + 1) \div 2

(* Faulty variant of PadZeroed, kept to confirm that AccumIsWindowSum     *)
(* detects it: padded_ratio_ not cleared at the start of the pass.        *)
PadKept(mem) == mem

(* caffe_set(padded_ratio_.count(), 0): the rows of all threads cleared.   *)
PadZeroed(mem) ==
    [i \in DOMAIN mem |->
        IF i < nThreads * (channels + size - 1) THEN 0 ELSE mem[i]]

(* The thread running sample n of the omp parallel for with             *)
(* num_threads(num_of_threads_): static schedule, contiguous chunks.       *)
Tid(n) == n \div ((num + nThreads - 1) \div nThreads)

(* Faulty variant of AccumReset, kept to confirm that AccumIsWindowSum    *)
(* detects it: the thread's accum_ratio not cleared for a new sample.     *)
AccumResetSkipped(a) == a

(* caffe_set(height_*width_, 0, accum_ratio_ row of the thread).           *)
AccumReset(a) == 0

(* Faulty variant of AccumStart, kept to confirm that AccumIsWindowSum     *)
(* detects it: the first loop running to c < size_.                       *)
AccumStartOffByOne(p) == SumFunctionOnSet(p, 0 .. size - 1)

(* The padded ratios 0 .. size_-2 of the row added to accum_ratio.         *)
AccumStart(p) == SumFunctionOnSet(p, 0 .. size - 2)

(* accum_ratio when bottom_diff of channel c is computed, from a0 after   *)
(* the reset: the entering ratio c + size_ - 1 added, the one of channel  *)
(* c - 1 subtracted after the previous channel.                            *)
RECURSIVE AccumAt(_, _, _)
AccumAt(p, a0, c) ==
    IF c = 0 THEN a0 + AccumStart(p) + p[size - 1]
    ELSE AccumAt(p, a0, c - 1) - p[c - 1] + p[c + size - 1]

(* One iteration n of the sample loop, on thread t's rows: the ratios of  *)
(* the sample written from inverse_pre_pad on (caffe_mul, caffe_div), the *)
(* accumulation reset, primed and slid over the channels; the thread's    *)
(* accum_ratio_ keeps the value after the last subtraction.               *)
SampleBackward(st, rn, t, n) ==
    LET base  == t * (channels + size - 1)
        pad   == [i \in DOMAIN st.pad |->
                    IF base + InversePrePad <= i
                       /\ i < base + InversePrePad + channels
                    THEN rn[i - base - InversePrePad] ELSE st.pad[i]]
        row   == [i \in 0 .. channels + size - 2 |-> pad[base + i]]
        accum == [c \in Chans |-> AccumAt(row, AccumReset(st.acc[t]), c)]
    IN  [pad  |-> pad,
         acc  |-> [st.acc EXCEPT ![t] = accum[channels - 1] - row[channels - 1]],
         used |-> [st.used EXCEPT ![n] = accum]]

(* The samples n .. num_-1, in order: the threads' rows are disjoint, so   *)
(* any interleaving of the threads gives the same memory as this order.  *)
RECURSIVE BackwardFrom(_, _, _)
BackwardFrom(st, r, n) ==
    IF n = num THEN st
    ELSE BackwardFrom(SampleBackward(st, r[n], Tid(n), n), r, n + 1)

----------------------------------------------------------------------------
(* After LayerSetUp (local_size odd, else CHECK_EQ aborts): blobs empty.   *)
Init ==
    /\ size \in {s \in Sizes : s % 2 = 1}
    /\ pc = "reshape"
    /\ passes = 0
    /\ num = 0 /\ channels = 0 /\ nThreads = 0
    /\ scaleMem = << >> /\ padMem = << >> /\ accMem = << >>
    /\ lastX = << >> /\ ratio = << >> /\ used = << >>

(* Reshape with a bottom of nm samples and ch channels, while             *)
(* omp_get_max_threads() returns mt: num_of_threads_ = min(mt, num_),      *)
(* at least 1; scale_, padded_ratio_ and accum_ratio_ reshaped.            *)
Reshape(nm, ch, mt, v) ==
    LET nt  == IF mt < nm THEN mt ELSE nm
        nT  == IF nt < 1 THEN 1 ELSE nt
    IN  /\ pc \in {"reshape", "bwd", "done"}
        /\ passes < MaxPasses
        /\ num' = nm /\ channels' = ch /\ nThreads' = nT
        /\ scaleMem' = Realloc(scaleMem, nm * ch, v)
        /\ padMem' = Realloc(padMem, nT * (ch + size - 1), v)
        /\ accMem' = Realloc(accMem, nT, v)
        /\ passes' = passes + 1
        /\ pc' = "fwd"
        /\ UNCHANGED << size, lastX, ratio, used >>

(* Forward_cpu with ACROSS_CHANNELS, on a bottom x (per sample).           *)
Forward(x) ==
    LET new == [n \in Samples |-> CrossChannelForward(ScaleView(scaleMem, n), x[n])]
    IN  /\ pc = "fwd"
        /\ scaleMem' = [i \in DOMAIN scaleMem |->
                          IF i < num * channels
                          THEN new[i \div channels][i % channels]
                          ELSE scaleMem[i]]
        /\ lastX' = x
        /\ pc' = "bwd"
        /\ UNCHANGED << size, passes, num, channels, nThreads, padMem, accMem,
                        ratio, used >>

(* Backward_cpu with ACROSS_CHANNELS, on ratios r (per sample).            *)
Backward(r) ==
    LET st == BackwardFrom([pad  |-> PadZeroed(padMem), acc |-> accMem,
                            used |-> [n \in Samples |-> [c \in Chans |-> 0]]],
                           r, 0)
    IN  /\ pc = "bwd"
        /\ padMem' = st.pad
        /\ accMem' = st.acc
        /\ used' = st.used
        /\ ratio' = r
        /\ pc' = "done"
        /\ UNCHANGED << size, passes, num, channels, nThreads, scaleMem, lastX >>

Next ==
    \/ \E nm \in Nums, ch \in ChannelCounts, mt \in MaxThreads, v \in Fresh :
          Reshape(nm, ch, mt, v)
    \/ \E x \in [Samples -> [Chans -> Values]] : Forward(x)
    \/ \E r \in [Samples -> [Chans -> Values]] : Backward(r)

Spec == Init /\ [][Next]_vars

----------------------------------------------------------------------------
(* Channels whose values enter the window of channel c.                    *)
Window(c) == {j \in Chans : c - PrePad <= j /\ j <= c + PrePad}

(* After a forward pass, every channel of every sample's scale_ is k_     *)
(* plus alpha/size times the sum of squares of that sample's bottom over  *)
(* the window of local_size channels centred on it, whatever the memory   *)
(* of scale_ held before: fresh, or kept by Reshape from another shape.   *)
ScaleIsWindowSum ==
    pc \in {"bwd", "done"} =>
        \A n \in Samples, c \in Chans :
            scaleMem[n * channels + c]
                = K + AlphaOverSize * SumFunctionOnSet(Sq(lastX[n]), Window(c))

(* After a backward pass, the accumulated ratio used for bottom_diff of   *)
(* channel c of every sample is the sum of that sample's ratios over the  *)
(* window centred on c, although the samples of one thread share its      *)
(* padded_ratio_ and accum_ratio_ rows and Reshape keeps stale memory.    *)
AccumIsWindowSum ==
    pc = "done" =>
        \A n \in Samples, c \in Chans :
            used[n][c] = SumFunctionOnSet(ratio[n], Window(c))

=============================================================================
