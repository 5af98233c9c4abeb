# TLA+ models of the internode tree client of IntelCaffe

This directory holds TLA+ specifications of the tree-shaped MPI client that
IntelCaffe uses to exchange gradients and weights between processes
(`src/src/caffe/internode/tree_cluster.cpp`). It also holds the TLC
configurations that check them. An abstract specification, `TreeChannel`,
states what the client promises its users about receiving and about the
completion of their sends, and the client model is checked to implement it. They also model the cross-channel window
sums of the LRN layer (`lrn_layer.cpp`) and the lazily created primitives of
the MKL ReLU layer (`mkl_relu_layer.cpp`).

## 1. The system

`MpiTreeClient` (one instance per MPI process, the *rank*) has these parts:

| part | code | state | operations |
|---|---|---|---|
| Topology | `id`, `total_nodes`, `parent`, `children` (183-214) | none, pure functions of the rank and the world size | queries |
| Request ledger | `requests`, `requests_to_process` (48-49), `MpiRequest` (33-39) | two lists of pending MPI requests, each with its callback | `set_recv`, `async_send_to_parent`, `async_send_to_children` push to `requests` under `mtx` |
| Completion poller | `poll_one`, `post`, `is_ready` (92-110, 216-247) | the position of the poll thread in a tick | merge `requests` into `requests_to_process` under `mtx`; `stable_partition` by `is_ready` (`MPI_Test`, then `MPI_Get_count`); run the callbacks of the ready prefix without the lock; erase it; warn above 100; repost itself on the io_service |
| Receive path | `set_buffer_size`, `set_recv`, `received`, `register_receive_handler` (54-90, 122-126, 178-181) | the receive buffer, the handler list | one wildcard `MPI_Irecv` into the buffer at a time; `received` copies the handler list under `mtx`, calls each handler with the buffer (`received_from_parent` if the sender is `parent()`, else `received_from_child`), then re-arms |
| Fan-out aggregator | `BroadcastCallback` (`broadcast_callback.hpp`, not in this repository) | a shared counter and an AND of results | one completion per child send; the caller's callback fires once, at zero |
| Transport | MPI | messages in flight, request completion | `MPI_Isend`, `MPI_Irecv`, `MPI_Test`, `MPI_Get_count` |

How they interact: application threads call the send operations and
registration at any time. The single poll thread runs `poll_one` over and
over, because each tick reposts itself. Callbacks run on the poll thread
without `mtx`, and may submit new requests themselves (the lock is
recursive). MPI progresses on its own: an `Isend` completes when it is
buffered or delivered. An `Irecv` matches the oldest message of some sender,
and the messages of one sender to one receiver are never reordered.

What makes this hard to test:
- the merge in the poller races with submissions from other threads;
- the handler loop reads `handlers.size()` outside the lock;
- there is one receive buffer, which is re-armed after the handlers have read
  it;
- a failed request must still re-arm the receive and still report its
  failure;
- the fan-out completion is counted across several independent request
  completions.

## 2. Modules

| module | models | how |
|---|---|---|
| `TreeTopology` | `parent`, `children`, `total_nodes` | operators over the rank, `CONSTANT N` the world size; `CDiv` is C++ truncating division |
| `MC_TreeTopology` | check of the topology for every size up to `MaxNodes` | `T(n) == INSTANCE TreeTopology WITH N <- n`; the state is the pair (size, rank) |
| `TreeChannel` | what the client promises above it | abstract: `sent`, `consumed`, per-rank `slot`, `delivered`; see below |
| `TreeCluster` | the whole client on every rank, with MPI as its environment | see below |
| `MC_TreeCluster` | definitions of model values for the configurations | the outcome sets of MPI, the three-rank world |
| `LrnLayer` | the ACROSS_CHANNELS path of `LRNLayer` (`lrn_layer.cpp`) | see below |
| `MklRelu` | `MKLReLULayer` (`mkl_relu_layer.cpp`) | see below |

### TreeCluster: state

Per rank `r`:
- `staging[r]` is `requests` and `working[r]` is `requests_to_process`.
- `ready[r]` is the prefix `[begin, middle)` whose callbacks are running.
- `pc[r]` is the poll thread's position: `"merge"` at a tick, `"call"` with
  callbacks left, `"dispatch"` inside the handler loop of `received`.
- `cur`, `toCall` and `hIdx` are the request, the size of the `to_call` copy
  and the loop index of the running `received`.
- `handlers[r]` is `handlers.size()`, `sized[r]` says whether
  `set_buffer_size` has run, and `buffer[r]` is the buffer content.

MPI:
- `chan[<<s, d>>]` is a FIFO per ordered pair.
- `sendSt[i]` and `recvSt[r][k]` say whether a request is done, and what
  `MPI_Test` (t) and `MPI_Get_count` (c) return for it.
- `posted[r]` lists the unmatched `Irecv`s.

Histories, for the properties: `sent`, `calls` (every callback `poll_one`
ran), `onSent` (a bag of the callers' callbacks that fired) and `dispatched`
(every handler call, with what the handler read).

A request is a record `Entry(kind, id, bc)`: a send with the message id, or a
receive with its per-rank number. `bc` is the `BroadcastCallback` a child
send belongs to. Payloads are unique message records
`[id, src, dst, via]`; sizes, tags and logging are left out.

### TreeCluster: actions

| action | code |
|---|---|
| `SetBufferSize(r)` | `set_buffer_size` with `set_recv` (122-126, 54-66) |
| `AsyncSendToParent(r)` | `async_send_to_parent` (128-147) |
| `AsyncSendToChildren(r)` | `async_send_to_children`, with `NewBroadcast` (149-176) |
| `RegisterReceiveHandler(r)` | `register_receive_handler` (178-181) |
| `PollTick(r)` | lines 217-232 and the erase at 236: merge and clear under `mtx`, then `stable_partition` by `is_ready` |
| `CallSend(r)` | one send callback at 234: the caller's, or `BroadcastInvoke` |
| `CallRecv(r)` | `received` up to the handler loop (68-75), or the failure branch and `set_recv` (86-89) |
| `Dispatch(r)` | one iteration of the handler loop (76-85) |
| `DispatchEnd(r)` | the end of the loop and `set_recv` (86-89) |
| `MpiSendComplete(i)` | an `Isend` completing, with an outcome from `SendOutcomes` |
| `MpiMatch(r, s)` | the oldest posted `Irecv` of `r` matching the head of `chan[<<s, r>>]`, and the message landing in the buffer |

Each application action is one step, because each runs entirely under
`mtx`. The poll tick is split where the code releases the lock: the merge and
the partition form one step. (Submissions that land between them wait for the
next tick either way, and no other thread touches `requests_to_process`.)
After that, each callback is a step, and each handler call is a step, since
they run unlocked and registration may interleave with them.

`is_ready` is modelled by what it does: `ok` is the result of
`MPI_Get_count`, which overwrites that of `MPI_Test` (`IsReadyOk`).

`BroadcastCallback` is not in the repository. `NewBroadcast` and
`BroadcastInvoke` follow spec.md 4.4 and are marked `spec_modelled` in
`PROJECT.json`.

### TreeChannel and the refinement

`TreeChannel` says what a user of the client may rely on when receiving
and sending, without ledgers, poll threads or MPI requests:
- `Send` submits one send operation (a record in `ops` with the ids of its
  messages) and adds its messages, with fresh ids, to `sent`. A broadcast
  from a leaf has no messages and is reported at once, successful.
- `Complete(i, ok)` is the transport finishing the send of message `i`.
- `Callback(o)` reports operation `o` to its caller (a copy in the bag
  `reported`). It fires once, only after every send of `o` completed, with
  the AND of their outcomes.
- `Receive(m, ok)` consumes a sent message at its destination. It requires
  every earlier message of the same sender to that destination to be
  consumed, and the destination's receive slot to be free. A successful
  receive puts the message into the slot.
- `Deliver(r)` is a handler reading the slot. `Release(r)` frees it.

`TreeCluster` defines `Channel == INSTANCE TreeChannel WITH ...` with this
mapping:
- `consumed` is the messages for which `received` was called;
- `slot[r]` is the matched message while `r`'s poll thread is in the handler
  loop;
- `delivered` is what the handlers read from the buffer;
- `ops` is every `async_send_to_parent` message and every
  `async_send_to_children` call with the ids of its sends (kept in the
  BroadcastCallback accumulator);
- `completed` is the Isends MPI has completed, successful when both
  `MPI_Test` and `MPI_Get_count` succeeded;
- `reported` is the bag `onSent` of the callers' callbacks.

`sent`, `Ranks` and `NoMsg` map to the same names. The property
`ChannelRefined` is `Channel!Spec`, written with the stuttering step first
so that TLC tries the cheap case before `Channel!Next`. It is checked in the
safety and failure runs.
It holds when:
- `received` is called once per message, for each sender in send order and
  one at a time per rank;
- a failed receive consumes its message without delivering it;
- every handler reads exactly the message in the slot;
- every caller's callback runs once, after all its Isends completed, with
  their combined result. A BroadcastCallback that fires early, or drops a
  child's result, breaks this.

### LrnLayer

The state of `LrnLayer`:
- `size` is `local_size` (odd, or the `CHECK_EQ` aborts). `num`,
  `channels` and `nThreads` (`num_of_threads_`) are set by `Reshape`.
- `scaleMem`, `padMem` and `accMem` are the memories of `scale_`,
  `padded_ratio_` and `accum_ratio_` at one pixel, as functions over
  `0 .. capacity-1`. Pixels go through the same code independently.
  - `scale_` holds sample `n`, channel `c` at `n*channels_ + c`.
  - `padded_ratio_` holds one row of `channels_ + size_ - 1` entries per
    thread, and `accum_ratio_` one entry per thread.
- `lastX`, `ratio` and `used` hold the inputs of the last passes and the
  accumulated ratio each sample and channel used.
- `pc` is the Net's next call: `Reshape` before every `Forward`, then an
  optional `Backward`.

The actions:
- `Reshape(nm, ch, mt, v)` is lines 72-96. `num_of_threads_` is
  `min(omp_get_max_threads(), num_)`, at least 1. The three blobs are
  reshaped by `Realloc`, which models `Blob::Reshape` (not in this
  repository): the memory is kept when the new count fits the capacity,
  and otherwise new memory holding a value `v` from `Fresh` is allocated.
- `Forward(x)` applies `CrossChannelForward` to every sample's view of
  `scale_`.
  - `Scale0` is lines 136-143: the `caffe_set` of `limit` channels to
    `k_`, then the squares of channels `0..limit`.
  - `ScaleAt` is the slide at 144-160: copy the previous channel, add the
    square entering the window, subtract the one leaving it.
- `Backward(r)` clears the whole count of `padded_ratio_` (`PadZeroed`,
  line 205). `BackwardFrom` then folds `SampleBackward` over the samples.
  - `Tid` assigns the samples to threads in contiguous chunks. This is the
    static schedule, GCC's default for a loop without a `schedule` clause.
  - Each sample writes its ratios into its thread's row at offset
    `inverse_pre_pad`.
  - `AccumReset` clears the thread's `accum_ratio_` (232-234). `AccumStart`
    primes it with `size_-1` padded entries (235-240). `AccumAt` is the
    slide at 241-259.
  - The threads' rows are disjoint, so folding in sample order gives the
    memory of every interleaving of the threads.

Values are integers, and `alpha_/size_` and `k_` are integer constants, so the
sums are exact. The final `powx`/`mul` of each pass are elementwise functions
of `scale_` and are not modelled. The ratios `top_diff*top_data/scale` are
inputs. Caffe's `SyncedMemory` zero-fills new memory. The run `lrn_windows`
also lets new memory hold 5, to show the result does not depend on that.

### MklRelu

`MKLReLULayer` creates its MKL primitives lazily, because the neighbours'
layout is unknown at set-up (comment at lines 36-37). A layout is abstracted
to `[kind, shape]`: an MKL internal layout name or `"usr"`, and the blob
shape it was made for.

The state:
- `in` is the bottom of the current iteration: prv data with an internal
  layout, or cpu data, of some shape.
- `usrLay` is `fwd_bottom_data_->layout_usr`.
- `fwdPrim` and `bwdPrim` are the layouts `reluFwd_` and `reluBwd_` were
  created for (`NoLayout` while NULL).
- `topInt`, `topDiffInt` and `botDiffInt` are the internal layouts of
  `fwd_top_data_`, `bwd_top_diff_` and `bwd_bottom_diff_`.
- `execs` records every `dnnExecute`, with the layouts of the buffers it was
  given.

The actions:
- `LayerSetUp` is lines 14-40.
- `ForwardCpu` is lines 42-110. It is the whole `Forward_cpu`: on the first
  pass it creates the primitives and, on the prv path, the internal layouts,
  then it executes.
- `BackwardCpu(propagateDown)` is lines 112-140.
- `NextIteration` is the Net calling again with a bottom that differs from
  the last one only in what the constant `Varying` names.

`MKLData` (`mkl_memory`) is not in the repository and is taken by its
contract. A descriptor that needs conversion hands out a buffer in its
internal layout; otherwise the buffer is the blob's cpu data (`Through`).
The layer is taken to inherit `NeuronLayer::Reshape`, because
`mkl_layers.hpp` is not in the repository.

### Constants and bounds

- `N` is the number of ranks.
- `MaxMsgs` bounds the messages of all ranks together, and `MaxBcasts` the
  calls to `async_send_to_children`.
- `MaxHandlers` bounds the registrations per rank.
- `SendOutcomes` and `RecvOutcomes` are the sets of `(MPI_Test,
  MPI_Get_count)` results a completed `Isend` and a completed `Irecv` may
  have. `cluster_safety` lets sends fail and keeps receives reliable, which
  keeps the run at about two minutes.
- `LateRegistration` allows registration once traffic has started.
- `SetUpDone` starts after set-up: handlers registered and the buffer sized.
- No caller on rank 0 calls `async_send_to_parent`: spec.md 8 makes
  suppressing the root self-loop the caller's duty, so `AsyncSendToParent(r)`
  is guarded by `r # Parent(r)`.
- `Senders` is the set of ranks whose callers call the two sends. It is
  every rank except in `cluster_safety`, where it is the root and rank 3.
- For `MklRelu`: `Shapes` and `IntLayouts` (two of each, or one internal
  layout when only the shape varies), `Varying`, and `MaxIters` iterations.
  Three iterations cover a first pass followed by passes with and without
  backward.

The bounds are enough for these reasons:
- Three ranks are a root with two children: a two-child fan-out and two
  children sending to the root (`cluster_liveness`).
- Three messages are a broadcast (two sends) and a send up the tree, or two
  sends up to the root and one more. Every property involves at most two
  messages racing for one receive slot or one rank.
- Two ranks cover one sender and one receiver for `cluster_failures`. That
  run starts from construction, so set-up and failing requests are checked
  together; more ranks or messages push its liveness check past minutes.
- Three ranks have no rank with both a parent and a child. Four ranks do:
  rank 1 has parent 0 and child 3. In `cluster_safety` only the root and
  rank 3 send. Rank 1 then takes a message from its parent and one from its
  child on the same wildcard receive, in either order. With every rank a
  sender, or with four messages, the run grows past a million states.
- For LRN, `local_size` 3 and 5 over 2 to 4 channels are enough. They give
  windows clipped at one end and at both ends, windows wider than all the
  channels (`pre_pad_ >= channels_`), and a window sliding through the
  middle where the add and the subtract both happen. Inputs 0..2 make the
  squares distinct.
- `lrn_reuse` runs four passes with batches of one or two samples on one or
  two threads. That covers:
  - a thread taking two samples in a row (`num_ = 2` with one thread);
  - a shape shrinking inside the kept capacity (fewer channels or threads
    after more);
  - a shape growing past it.

  Its inputs are uniform (all 1). Stale memory then shows as a nonzero
  entry where zero padding belongs, and the window arithmetic is checked
  by `lrn_windows`.

## 3. Runs

| run | cfg | bounds | checks | result |
|---|---|---|---|---|
| topology | `MC_TreeTopology.cfg` | sizes 1..14 | `ChildrenAgreeWithParent`, `ParentFormsTree` | pass, 105 states |
| cluster_safety | `MC_TreeCluster_safety.cfg` | 4 ranks, 3 msgs, 1 broadcast, senders 0 and 3, Isends may fail, after set-up | `TypeOK`, `ReceiveSlot`, `ChannelRefined`, `DispatchDirection`, `LedgerConservation`, `FanOutCompletion` | pass, 605,114 states, about 2 min |
| cluster_liveness | `MC_TreeCluster_liveness.cfg` | 3 ranks, 2 msgs | `MessagesHandled`, `CallbacksFire` | pass, 20,496 states |
| cluster_failures | `MC_TreeCluster_failures.cfg` | 2 ranks, 2 msgs, from construction, MPI may fail | `ReceiveSlot`, `MessagesHandled`, `ChannelRefined` | pass, 311,360 states, about 2.5 min |
| lrn_windows | `LrnLayer.cfg` | local_size 3, 5; 2..4 channels; one sample; inputs 0..2; fresh memory 0 or 5 | `ScaleIsWindowSum`, `AccumIsWindowSum` | pass, 15,224 states |
| lrn_reuse | `LrnLayer_reuse.cfg` | 4 passes; local_size 3, 5; 2..4 channels; 1..2 samples; 1..2 threads; fresh memory 0 | `AccumIsWindowSum` | pass, 23,837 states |
| lrn_limit_zero | `LrnLayer_limit_zero.cfg` | local_size 1, 3; 1, 2 channels | `ScaleIsWindowSum` | **violation** |
| handler_race | `MC_TreeCluster_handler_race.cfg` | 2 ranks, 1 msg, 2 handlers, late registration | `HandlerCallInBounds` | **violation** |
| masked_error | `MC_TreeCluster_masked_error.cfg` | 2 ranks, 1 msg, `MPI_Test` fails and `MPI_Get_count` succeeds | `FailedCompletionReported` | **violation** |
| mklrelu_layouts | `MklRelu.cfg` | fixed bottom, prv (2 layouts) or cpu, 2 shapes, 3 iterations | `ExecutionsConsistent` | pass, 136 states |
| mklrelu_reshape | `MklRelu_reshape.cfg` | bottom reshaped between iterations | `ExecutionsConsistent` | **violation** |

The properties:
- `ReceiveSlot`: at most one `Irecv` is outstanding. Between ticks of a sized
  rank, exactly one receive request is in the ledger: the receive is
  re-armed after success and after failure.
- `ChannelRefined`: the client implements `TreeChannel`. Messages are
  taken in per-sender order, once and one at a time per rank, and every
  handler reads the message its receive matched. The buffer is re-armed
  only after the handlers return. Each send operation is reported to its
  caller once, after MPI completed all its sends, with their combined result.
- `DispatchDirection`: a message reaches its destination's handlers, as a
  parent message exactly when it was sent down the tree.
- `LedgerConservation`: each sent message's request is in exactly one of
  `requests`, `requests_to_process` or the ready prefix until its callback
  runs, and is gone afterwards. None is lost by the merge, the partition or
  the erase, and none runs twice.
- `FanOutCompletion`: the callback of each `async_send_to_children` fires
  exactly once. It fires after all child sends, with the AND of their
  results, and at once for a rank without children. In `cluster_safety` the
  root has two children and either send may fail, so an accumulator that
  kept only the last child's result, or dropped one, is caught.
- `MessagesHandled` (liveness): every message sent is eventually handled at
  its destination.
- `CallbacksFire` (liveness): every caller's callback eventually fires.
- `ExecutionsConsistent` (`MklRelu`): every `dnnExecute` runs a created
  primitive on buffers in the layout and shape that primitive was created
  for.

Findings:
- **handler_race**. `received` copies `handlers` under the lock but bounds its
  loops by `handlers.size()`, read without it (lines 77 and 81). Take the
  trace: a message arrives, `received` copies zero handlers, another thread
  registers one, and the loop then calls `to_call[0]`, past the end of the
  copy. spec.md 5 says the handler list is protected by the ledger's lock.
- **masked_error**. `is_ready` overwrites the `MPI_Test` result with that of
  `MPI_Get_count` (line 104). A request whose test failed is reported to its
  callback as successful. spec.md 4.2 and 7 say a failure reaches the
  callback as `ok = false`.

- **lrn_limit_zero**. `CrossChannelForward_cpu` initialises channel 0 of
  `scale_` with `caffe_set(limit*h*w, k_, ...)`, where
  `limit = min(pre_pad_, channels_-1)` (lines 129 and 137). With
  `local_size 1`, or a single channel, `limit` is 0 and nothing is written.
  Every channel then lacks `k_` and carries what `scale_` held, although
  LRN's scale is `k + alpha/n` times the window sum. The check
  `ScaleIsWindowSum` compares each channel with that definition. It holds
  whenever `limit > 0`, whatever `scale_` held before.

- **mklrelu_reshape**. `Forward_cpu` creates `reluFwd_`/`reluBwd_`, and on
  the prv path the internal layouts of its descriptors, only while
  `reluFwd_` is NULL (lines 49, 80). Nothing resets them.
  After a reshape of the bottom, the primitives made for the old shape run
  on data of the new one:
  1. set-up;
  2. a Forward on shape `s1` creates the primitives;
  3. the bottom becomes `s2`;
  4. the next Forward executes the `s1` primitive.

  The same holds for a change of the bottom's layout or of prv/cpu data.
  This assumes the layer inherits `NeuronLayer::Reshape`. The comment at
  line 39 also says `reluBwd_` is allocated in the first backward pass, but
  it is created in `Forward_cpu`.

The LRN runs also check `AccumIsWindowSum` (`lrn_reuse` checks only that: its
uniform inputs make the scale trivially right). For every sample and channel,
the backward accumulated ratio is the sum over that sample's window. This
holds even though a thread reuses its `padded_ratio_` and `accum_ratio_`
rows for all its samples, and `Reshape` keeps memory from other shapes.
Without the clear at line 205, ratios left by a larger shape sit in the
padding. Without the reset at line 232, a thread's second sample starts
with the last `pre_pad_` ratios of its first.

Every property of a passing run has a mutant in `PROJECT.json`. A mutant is a
faulty variant of a mapped definition, kept next to it in the module (the
operators named `...NoRearm`, `...OffByOne` and so on). TLC finds the
property violated when the variant replaces the definition.

## 4. Fairness

`Fairness` is weak fairness of each rank's poll steps, of every `Isend`
completion, and of every possible `Irecv` match. The code justifies each:
- `poll_one` ends with `post`, so the poll thread always has its next tick
  queued. Every step of a callback is on that one thread and never blocks
  (spec.md 5).
- MPI guarantees progress of a posted send that has a matching receive, and
  of a receive that has a message waiting.

Application actions get no fairness: the application may stop calling.

## 5. Not modelled, and the plan

Not modelled, and why:
- `get_instance` and the build without MPI: a static singleton and a throw,
  with no state interplay.
- `mkldnn_layers.hpp`: class declarations, inline accessors and the
  `CpuEngine` singleton. The layers' implementations are not in the
  repository.
- The WITHIN_CHANNEL path of LRN: a chain of Split, Power, Pooling and
  Eltwise layers, which are not in this repository.
- `unnamed/part_000`: documentation.
- The warning above 100 pending requests is a log line and is left out.
  That branch changes nothing else, so `LedgerConservation` and
  `CallbacksFire` at `MaxMsgs` entries cover what spec.md 8 asks of it: no
  entry is dropped and all resolve.
- A second `set_buffer_size` with a receive armed: spec.md 4.5 forbids it,
  and `SetBufferSize` is guarded to one call.
- Buffer lifetime of a relayed receive buffer: it depends on handler code that
  is not in the repository.

Nothing further of the repository's code is planned. What is left out above
is either outside the repository, pure I/O, or a caller obligation.
