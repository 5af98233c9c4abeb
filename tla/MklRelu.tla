------------------------------- MODULE MklRelu -------------------------------
(***************************************************************************)
(* MKLReLULayer (src/src/caffe/layers/mkl_relu_layer.cpp): the lazily      *)
(* created MKL primitives reluFwd_ and reluBwd_, the four memory          *)
(* descriptors of the layer, and what each dnnExecute is handed.          *)
(*                                                                         *)
(* A layout is abstracted to what tells two layouts apart: an MKL         *)
(* internal layout name, or "usr" for Caffe's plain layout, and the blob  *)
(* shape it was made for.  MKLData (mkl_memory, not in this repository)   *)
(* is taken by its contract: conversion_needed() holds once an internal   *)
(* layout other than the user one was created, and a buffer obtained      *)
(* through a descriptor that needs conversion is in its internal layout;  *)
(* otherwise the buffer is the blob's cpu data, in the user layout of the *)
(* blob's current shape.  The Net calls LayerSetUp once, then in every     *)
(* iteration Reshape (NeuronLayer's: the top takes the bottom's shape),    *)
(* Forward and, when training, Backward.                                   *)
(***************************************************************************)
EXTENDS Naturals

CONSTANTS
    Shapes,      \* shapes the bottom blob may have
    IntLayouts,  \* MKL internal layouts a producing MKL layer may emit
    Varying,     \* what of the bottom may change between iterations:
                 \* a subset of {"prv", "lay", "shape"}
    MaxIters     \* bound on iterations of the Net

ASSUME /\ "usr" \notin IntLayouts /\ Varying \subseteq {"prv", "lay", "shape"}
       /\ MaxIters \in Nat

Layout(kind, shape) == [kind |-> kind, shape |-> shape]
NoLayout == Layout("none", "none")

(* The bottom blob of an iteration: prv data with an MKL descriptor of an  *)
(* internal layout (prv), or cpu data only.                               *)
Bottoms == [prv : BOOLEAN, lay : IntLayouts, shape : Shapes]

VARIABLES
    pc,          \* "setup" | "fwd" | "bwd" | "next": the Net's next call
    in,          \* the bottom blob of the current iteration
    usrLay,      \* layout_usr of fwd_bottom_data_
    fwdPrim,     \* layout reluFwd_ was created for, NoLayout while NULL
    bwdPrim,     \* layout reluBwd_ was created for, NoLayout while NULL
    topInt,      \* internal layout of fwd_top_data_, NoLayout if none
    topDiffInt,  \* internal layout of bwd_top_diff_
    botDiffInt,  \* internal layout of bwd_bottom_diff_
    iters,       \* iterations begun
    execs        \* history: every dnnExecute, with its resources' layouts

vars == << pc, in, usrLay, fwdPrim, bwdPrim, topInt, topDiffInt, botDiffInt,
           iters, execs >>

(* The layout of the bottom's data: its MKL layout when prv_data() is not *)
(* NULL, else the user layout of its cpu data.                            *)
BottomLayout(b) == IF b.prv THEN Layout(b.lay, b.shape) ELSE Layout("usr", b.shape)

(* A buffer obtained through a descriptor with internal layout d: in d if  *)
(* conversion is needed, else the blob's cpu data.                        *)
Through(d, shape) == IF d # NoLayout THEN d ELSE Layout("usr", shape)

(* The bottoms the producer may hand over next: only what Varying names   *)
(* differs from the current one.                                          *)
NextBottoms ==
    {b \in Bottoms : \A f \in {"prv", "lay", "shape"} \ Varying : b[f] = in[f]}

----------------------------------------------------------------------------
(* The bottom of the first call, after the Net's first Reshape.            *)
Init ==
    /\ pc = "setup"
    /\ in \in Bottoms
    /\ usrLay = NoLayout
    /\ fwdPrim = NoLayout /\ bwdPrim = NoLayout
    /\ topInt = NoLayout /\ topDiffInt = NoLayout /\ botDiffInt = NoLayout
    /\ iters = 1
    /\ execs = {}

(* LayerSetUp: user layouts of the four descriptors from the bottom's      *)
(* shape; both primitives NULL, created lazily.                            *)
LayerSetUp ==
    /\ pc = "setup"
    /\ usrLay' = Layout("usr", in.shape)
    /\ fwdPrim' = NoLayout /\ bwdPrim' = NoLayout
    /\ topInt' = NoLayout /\ topDiffInt' = NoLayout /\ botDiffInt' = NoLayout
    /\ pc' = "fwd"
    /\ UNCHANGED << in, iters, execs >>

(* Faulty variant of ForwardCpu, kept to confirm that ExecutionsConsistent *)
(* detects it: no internal layout created for fwd_top_data_.               *)
ForwardCpuNoTopLayout ==
    LET first == fwdPrim = NoLayout
        p     == IF ~first THEN fwdPrim
                 ELSE IF in.prv THEN Layout(in.lay, in.shape) ELSE usrLay
    IN  /\ pc = "fwd"
        /\ fwdPrim' = p
        /\ bwdPrim' = IF first THEN p ELSE bwdPrim
        /\ usrLay' = IF first /\ in.prv THEN Layout("usr", in.shape) ELSE usrLay
        /\ topDiffInt' = IF first /\ in.prv THEN p ELSE topDiffInt
        /\ botDiffInt' = IF first /\ in.prv THEN p ELSE botDiffInt
        /\ UNCHANGED topInt
        /\ execs' = execs \cup {[op |-> "fwd", prim |-> p,
                                 res |-> {BottomLayout(in),
                                          Through(topInt, in.shape)}]}
        /\ pc' = "bwd"
        /\ UNCHANGED << in, iters >>

(* Forward_cpu.  First pass with prv data: both primitives from the       *)
(* bottom descriptor's internal layout (after the CHECK on its type),     *)
(* fwd_bottom_data_ replaced by that descriptor, internal layouts of the  *)
(* top data, top diff and bottom diff made from reluFwd_.  First pass     *)
(* with cpu data: both primitives from fwd_bottom_data_'s user layout.    *)
(* Later passes reuse the primitives.  Then dnnExecute(reluFwd_) from the  *)
(* bottom data into top's prv data if fwd_top_data_ needs conversion,     *)
(* else into its cpu data.                                                 *)
ForwardCpu ==
    LET first == fwdPrim = NoLayout
        p     == IF ~first THEN fwdPrim
                 ELSE IF in.prv THEN Layout(in.lay, in.shape) ELSE usrLay
        newTop == IF first /\ in.prv THEN p ELSE topInt
    IN  /\ pc = "fwd"
        /\ fwdPrim' = p
        /\ bwdPrim' = IF first THEN p ELSE bwdPrim
        /\ usrLay' = IF first /\ in.prv THEN Layout("usr", in.shape) ELSE usrLay
        /\ topInt' = newTop
        /\ topDiffInt' = IF first /\ in.prv THEN p ELSE topDiffInt
        /\ botDiffInt' = IF first /\ in.prv THEN p ELSE botDiffInt
        /\ execs' = execs \cup {[op |-> "fwd", prim |-> p,
                                 res |-> {BottomLayout(in),
                                          Through(newTop, in.shape)}]}
        /\ pc' = "bwd"
        /\ UNCHANGED << in, iters >>

(* Backward_cpu with propagate_down[0]: dnnExecute(reluBwd_) on the       *)
(* bottom data (prv if any, else cpu), the top diff converted through     *)
(* bwd_top_diff_, and the bottom diff through bwd_bottom_diff_.  Without  *)
(* propagate_down[0] nothing happens.                                      *)
BackwardCpu(propagateDown) ==
    /\ pc = "bwd"
    /\ execs' = IF propagateDown
                THEN execs \cup {[op |-> "bwd", prim |-> bwdPrim,
                                  res |-> {BottomLayout(in),
                                           Through(topDiffInt, in.shape),
                                           Through(botDiffInt, in.shape)}]}
                ELSE execs
    /\ pc' = "next"
    /\ UNCHANGED << in, usrLay, fwdPrim, bwdPrim, topInt, topDiffInt,
                    botDiffInt, iters >>

(* The next iteration, after a Backward or, in a testing Net, without    *)
(* one: Reshape with the bottom the producer hands over this time.        *)
NextIteration ==
    /\ pc \in {"bwd", "next"}
    /\ iters < MaxIters
    /\ iters' = iters + 1
    /\ in' \in NextBottoms
    /\ pc' = "fwd"
    /\ UNCHANGED << usrLay, fwdPrim, bwdPrim, topInt, topDiffInt, botDiffInt,
                    execs >>

Next ==
    \/ LayerSetUp
    \/ ForwardCpu
    \/ \E d \in BOOLEAN : BackwardCpu(d)
    \/ NextIteration

Spec == Init /\ [][Next]_vars

----------------------------------------------------------------------------
(* Every dnnExecute of reluFwd_ and reluBwd_ runs a primitive that was     *)
(* created (not NULL) on buffers all in the layout, and for the shape,    *)
(* the primitive was created for: the lazy creation on the first Forward  *)
(* and the descriptors made from it agree with every later call.          *)
ExecutionsConsistent ==
    \A e \in execs : e.prim # NoLayout /\ e.res = {e.prim}

=============================================================================
