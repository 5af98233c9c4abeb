---------------------------- MODULE TreeCluster ----------------------------
(***************************************************************************)
(* MpiTreeClient (src/src/caffe/internode/tree_cluster.cpp) on every rank  *)
(* of the tree, over an MPI point-to-point transport.                      *)
(*                                                                         *)
(* Per rank: the submission list `requests` (staging), the poller's       *)
(* `requests_to_process` (working), the prefix of it that stable_partition *)
(* found ready and whose callbacks are being run (ready), the poll thread  *)
(* position (pc), the registered handler count and the receive buffer.     *)
(* Transport: one FIFO per ordered pair of ranks (MPI's non-overtaking     *)
(* rule for one sender, one receiver, one communicator), the posted        *)
(* MPI_Irecv requests of each rank, and the completion state of every      *)
(* request as MPI_Test would report it.                                    *)
(*                                                                         *)
(* Payloads are abstracted to unique message records; sizes, tags and      *)
(* logging are left out.  BroadcastCallback (broadcast_callback.hpp, not   *)
(* in this repository) is modelled from spec.md section 4.4.               *)
(***************************************************************************)
EXTENDS TreeTopology, Integers, Sequences, FiniteSets, Bags

CONSTANTS
    MaxMsgs,          \* bound on messages sent by all ranks together
    MaxBcasts,        \* bound on async_send_to_children calls
    MaxHandlers,      \* bound on register_receive_handler calls per rank
    SendOutcomes,     \* what MPI_Test (t) and then MPI_Get_count (c) may
                      \* return for a completed Isend: TRUE = MPI_SUCCESS
    RecvOutcomes,     \* the same for a completed Irecv
    LateRegistration, \* handlers may be registered while traffic flows
    SetUpDone,        \* start after every rank's setup: MaxHandlers handlers
                      \* registered and set_buffer_size called
    Senders           \* ranks whose application calls the send operations

ASSUME /\ MaxMsgs \in Nat /\ MaxBcasts \in Nat /\ MaxHandlers \in Nat
       /\ SendOutcomes \cup RecvOutcomes \subseteq [t : BOOLEAN, c : BOOLEAN]
       /\ [t |-> TRUE, c |-> TRUE] \in SendOutcomes \cap RecvOutcomes
       /\ LateRegistration \in BOOLEAN
       /\ SetUpDone \in BOOLEAN
       /\ Senders \subseteq Ranks

VARIABLES
    staging,     \* requests: submitted, not yet seen by the poller
    working,     \* requests_to_process: not found ready yet
    ready,       \* [begin, middle) of requests_to_process, callbacks pending
    pc,          \* poll thread: "merge" | "call" | "dispatch"
    cur,         \* the receive request whose received() callback is running
    toCall,      \* size of the to_call copy of handlers taken in received()
    hIdx,        \* loop index i of received()
    handlers,    \* handlers.size()
    sized,       \* set_buffer_size has been called
    buffer,      \* content of the receive buffer
    chan,        \* MPI messages in flight, per <<source, destination>>
    sendSt,      \* MPI state of each Isend request, by message id
    recvSt,      \* MPI state of each Irecv request, per rank, by number
    posted,      \* Irecv requests of a rank not yet matched, in post order
    nMsgs,       \* messages sent so far
    bcast,       \* BroadcastCallback accumulators, one per send_to_children
    sent,        \* history: every message handed to MPI_Isend
    calls,       \* history: every callback invocation of poll_one
    onSent,      \* history: bag of the invocations of callers' SentCallbacks
    dispatched   \* history: every handler invocation of received()

ledgerVars == << staging, working, ready >>
pollVars   == << pc, cur, toCall, hIdx >>
mpiVars    == << chan, sendSt, recvSt, posted, buffer >>
histVars   == << sent, calls, onSent, dispatched >>
vars == << ledgerVars, pollVars, handlers, sized, mpiVars, nMsgs, bcast,
           histVars >>

NoMsg == [id |-> 0, src |-> 0, dst |-> 0, via |-> "none"]
Msg   == [id : 1 .. MaxMsgs, src : Ranks, dst : Ranks,
          via : {"to_parent", "to_children"}]

(* MpiRequest{req, callback, false, 0, 0}: callback identified by the      *)
(* request kind and, for broadcasts, the accumulator number bc (0: the     *)
(* caller's own SentCallback).                                             *)
Entry(kind, id, bc) ==
    [kind |-> kind, id |-> id, bc |-> bc, ok |-> FALSE, sender |-> 0]
NoEntry == Entry("recv", 0, 0)
EntryT == [kind : {"send", "recv"}, id : Nat, bc : Nat, ok : BOOLEAN,
           sender : Ranks]

Pending     == [done |-> FALSE, t |-> TRUE, c |-> TRUE]
RecvPending == [done |-> FALSE, t |-> TRUE, c |-> TRUE, msg |-> NoMsg]

----------------------------------------------------------------------------
(* BroadcastCallback, modelled from spec.md 4.4: one accumulator per       *)
(* send_to_children call, counting child completions and AND-ing their    *)
(* results; the caller's callback fires once, when the count reaches 0,   *)
(* and at once with success when there are no children.  The fields from   *)
(* (the broadcasting rank) and ids (its sends) are kept for the           *)
(* properties only.                                                        *)
NewBroadcast(r, ids) ==
    /\ bcast' = Append(bcast, [pending |-> Cardinality(ids), ok |-> TRUE,
                               from |-> r, ids |-> ids])
    /\ onSent' = IF ids = {}
                 THEN onSent (+) SetToBag({[via |-> "to_children",
                                            id |-> Len(bcast) + 1, ok |-> TRUE]})
                 ELSE onSent

(* Faulty variants of BroadcastInvoke, kept to confirm that              *)
(* FanOutCompletion detects them: firing one completion early, dropping a *)
(* child's result, and keeping only the last child's result.              *)
BroadcastInvokeEarly(b, ok) ==
    LET acc == [bcast[b] EXCEPT !.pending = @ - 1, !.ok = @ /\ ok]
    IN  /\ bcast' = [bcast EXCEPT ![b] = acc]
        /\ onSent' = IF acc.pending <= 1
                     THEN onSent (+) SetToBag({[via |-> "to_children",
                                                id |-> b, ok |-> acc.ok]})
                     ELSE onSent
BroadcastInvokeDropsResult(b, ok) ==
    LET acc == [bcast[b] EXCEPT !.pending = @ - 1]
    IN  /\ bcast' = [bcast EXCEPT ![b] = acc]
        /\ onSent' = IF acc.pending = 0
                     THEN onSent (+) SetToBag({[via |-> "to_children",
                                                id |-> b, ok |-> acc.ok]})
                     ELSE onSent
BroadcastInvokeLastWins(b, ok) ==
    LET acc == [bcast[b] EXCEPT !.pending = @ - 1, !.ok = ok]
    IN  /\ bcast' = [bcast EXCEPT ![b] = acc]
        /\ onSent' = IF acc.pending = 0
                     THEN onSent (+) SetToBag({[via |-> "to_children",
                                                id |-> b, ok |-> acc.ok]})
                     ELSE onSent

BroadcastInvoke(b, ok) ==
    LET acc == [bcast[b] EXCEPT !.pending = @ - 1, !.ok = @ /\ ok]
    IN  /\ bcast' = [bcast EXCEPT ![b] = acc]
        /\ onSent' = IF acc.pending = 0
                     THEN onSent (+) SetToBag({[via |-> "to_children",
                                                id |-> b, ok |-> acc.ok]})
                     ELSE onSent

----------------------------------------------------------------------------
(* Faulty variant of SetRecv, kept to confirm that MessagesHandled        *)
(* detects it: the Irecv is posted but its request is never queued.       *)
SetRecvNotQueued(r) ==
    LET k == Len(recvSt[r]) + 1
    IN  /\ recvSt' = [recvSt EXCEPT ![r] = Append(@, RecvPending)]
        /\ posted' = [posted EXCEPT ![r] = Append(@, k)]
        /\ UNCHANGED staging

(* set_recv(): arm an MPI_Irecv from any source into the buffer and queue  *)
(* its request, with received() as callback.                              *)
SetRecv(r) ==
    LET k == Len(recvSt[r]) + 1
    IN  /\ recvSt' = [recvSt EXCEPT ![r] =
                        Append(@, RecvPending)]
        /\ posted' = [posted EXCEPT ![r] = Append(@, k)]
        /\ staging' = [staging EXCEPT ![r] = Append(@, Entry("recv", k, 0))]

(* is_ready(): request.ok is assigned from MPI_Test and then overwritten   *)
(* by the result of MPI_Get_count.                                         *)
IsReadyOk(res) == res.c

Result(r, e) == IF e.kind = "send" THEN sendSt[e.id] ELSE recvSt[r][e.id]

IsReady(r, e) == Result(r, e).done

(* The request after is_ready() returned true: ok and sender filled in.    *)
Tested(r, e) ==
    [e EXCEPT !.ok = IsReadyOk(Result(r, e)),
              !.sender = IF e.kind = "recv" THEN Result(r, e).msg.src ELSE @]

----------------------------------------------------------------------------
Init ==
    /\ staging  = [r \in Ranks |-> IF SetUpDone THEN << Entry("recv", 1, 0) >>
                                                ELSE << >>]
    /\ working  = [r \in Ranks |-> << >>]
    /\ ready    = [r \in Ranks |-> << >>]
    /\ pc       = [r \in Ranks |-> "merge"]      \* constructor: post(daemon)
    /\ cur      = [r \in Ranks |-> NoEntry]
    /\ toCall   = [r \in Ranks |-> 0]
    /\ hIdx     = [r \in Ranks |-> 0]
    /\ handlers = [r \in Ranks |-> IF SetUpDone THEN MaxHandlers ELSE 0]
    /\ sized    = [r \in Ranks |-> SetUpDone]
    /\ buffer   = [r \in Ranks |-> NoMsg]
    /\ chan     = [p \in Ranks \X Ranks |-> << >>]
    /\ sendSt   = [i \in 1 .. MaxMsgs |-> Pending]
    /\ recvSt   = [r \in Ranks |-> IF SetUpDone THEN << RecvPending >> ELSE << >>]
    /\ posted   = [r \in Ranks |-> IF SetUpDone THEN << 1 >> ELSE << >>]
    /\ nMsgs    = 0
    /\ bcast    = << >>
    /\ sent     = {}
    /\ calls    = {}
    /\ onSent   = EmptyBag
    /\ dispatched = {}

----------------------------------------------------------------------------
(* Operations called by the application, on any thread, under mtx.        *)

(* Faulty variant of SetBufferSize, kept to confirm that ReceiveSlot and  *)
(* MessagesHandled detect it: the buffer is sized but no receive armed.   *)
SetBufferSizeNoArm(r) ==
    /\ ~sized[r]
    /\ sized' = [sized EXCEPT ![r] = TRUE]
    /\ UNCHANGED << staging, recvSt, posted, working, ready, pollVars,
                    handlers, chan, sendSt, buffer, nMsgs, bcast, histVars >>

(* set_buffer_size(): resize the buffer and arm the first receive.  Called *)
(* once, before traffic (calling it again with a receive armed is          *)
(* undefined, spec.md 4.5).                                                *)
SetBufferSize(r) ==
    /\ ~sized[r]
    /\ sized' = [sized EXCEPT ![r] = TRUE]
    /\ SetRecv(r)
    /\ UNCHANGED << working, ready, pollVars, handlers, chan, sendSt,
                    buffer, nMsgs, bcast, histVars >>

(* async_send_to_parent(): one MPI_Isend to parent(), callback bound to   *)
(* the caller's.  The root is its own parent and the call does not check *)
(* for it; callers on rank 0 do not call it (spec.md 8: the root          *)
(* self-loop is suppressed by callers).                                   *)
AsyncSendToParent(r) ==
    LET m == [id |-> nMsgs + 1, src |-> r, dst |-> Parent(r),
              via |-> "to_parent"]
    IN  /\ r # Parent(r)
        /\ nMsgs < MaxMsgs
        /\ chan' = [chan EXCEPT ![<< r, Parent(r) >>] = Append(@, m)]
        /\ sendSt' = [sendSt EXCEPT ![m.id] = Pending]
        /\ staging' = [staging EXCEPT ![r] = Append(@, Entry("send", m.id, 0))]
        /\ sent' = sent \cup {m}
        /\ nMsgs' = nMsgs + 1
        /\ UNCHANGED << working, ready, pollVars, handlers, sized, recvSt,
                        posted, buffer, bcast, calls, onSent, dispatched >>

(* async_send_to_children(): one MPI_Isend per child, in children() order, *)
(* all sharing one BroadcastCallback.                                      *)
AsyncSendToChildren(r) ==
    LET kids == Children(r)
        b    == Len(bcast) + 1
        ms   == [i \in 1 .. Len(kids) |->
                   [id |-> nMsgs + i, src |-> r, dst |-> kids[i],
                    via |-> "to_children"]]
        ids  == { ms[i].id : i \in DOMAIN ms }
    IN  /\ Len(bcast) < MaxBcasts
        /\ nMsgs + Len(kids) <= MaxMsgs
        /\ chan' = [p \in DOMAIN chan |->
                      IF p[1] = r
                      THEN chan[p] \o SelectSeq(ms, LAMBDA m : m.dst = p[2])
                      ELSE chan[p]]
        /\ sendSt' = [i \in DOMAIN sendSt |->
                        IF i \in ids THEN Pending ELSE sendSt[i]]
        /\ staging' = [staging EXCEPT ![r] =
                         @ \o [i \in DOMAIN ms |-> Entry("send", ms[i].id, b)]]
        /\ NewBroadcast(r, ids)
        /\ sent' = sent \cup { ms[i] : i \in DOMAIN ms }
        /\ nMsgs' = nMsgs + Len(kids)
        /\ UNCHANGED << working, ready, pollVars, handlers, sized, recvSt,
                        posted, buffer, calls, dispatched >>

(* register_receive_handler(): append to handlers.  Without              *)
(* LateRegistration, only before any traffic, as spec.md 4.5 asks.        *)
RegisterReceiveHandler(r) ==
    /\ handlers[r] < MaxHandlers
    /\ LateRegistration \/ nMsgs = 0
    /\ handlers' = [handlers EXCEPT ![r] = @ + 1]
    /\ UNCHANGED << ledgerVars, pollVars, sized, mpiVars, nMsgs, bcast,
                    histVars >>

----------------------------------------------------------------------------
(* poll_one(), one step per critical section or callback.                 *)

(* Faulty variants of PollTick, kept to confirm that LedgerConservation   *)
(* and CallbacksFire detect them: requests_to_process assigned from        *)
(* requests instead of appended to, and cleared instead of erasing the    *)
(* ready prefix.                                                           *)
PollTickOverwrite(r) ==
    LET all == staging[r]
        R   == SelectSeq(all, LAMBDA e : IsReady(r, e))
    IN  /\ pc[r] = "merge"
        /\ staging' = [staging EXCEPT ![r] = << >>]
        /\ working' = [working EXCEPT ![r] =
                         SelectSeq(all, LAMBDA e : ~IsReady(r, e))]
        /\ ready' = [ready EXCEPT ![r] = [i \in DOMAIN R |-> Tested(r, R[i])]]
        /\ pc' = [pc EXCEPT ![r] = IF R = << >> THEN "merge" ELSE "call"]
        /\ UNCHANGED << cur, toCall, hIdx, handlers, sized, mpiVars, nMsgs,
                        bcast, histVars >>
PollTickClearAll(r) ==
    LET all == working[r] \o staging[r]
        R   == SelectSeq(all, LAMBDA e : IsReady(r, e))
    IN  /\ pc[r] = "merge"
        /\ staging' = [staging EXCEPT ![r] = << >>]
        /\ working' = [working EXCEPT ![r] = << >>]
        /\ ready' = [ready EXCEPT ![r] = [i \in DOMAIN R |-> Tested(r, R[i])]]
        /\ pc' = [pc EXCEPT ![r] = IF R = << >> THEN "merge" ELSE "call"]
        /\ UNCHANGED << cur, toCall, hIdx, handlers, sized, mpiVars, nMsgs,
                        bcast, histVars >>

(* One tick up to the callbacks.  Under mtx: append requests to           *)
(* requests_to_process and clear requests.  Then stable_partition with    *)
(* is_ready: the ready requests, in their order, with ok and sender       *)
(* filled in.  erase() of that prefix is folded in, as no other thread    *)
(* touches requests_to_process.  Submissions made between the two parts  *)
(* wait for the next tick either way, so they are taken as one step.      *)
PollTick(r) ==
    LET all == working[r] \o staging[r]
        R   == SelectSeq(all, LAMBDA e : IsReady(r, e))
    IN  /\ pc[r] = "merge"
        /\ staging' = [staging EXCEPT ![r] = << >>]
        /\ working' = [working EXCEPT ![r] =
                         SelectSeq(all, LAMBDA e : ~IsReady(r, e))]
        /\ ready' = [ready EXCEPT ![r] = [i \in DOMAIN R |-> Tested(r, R[i])]]
        /\ pc' = [pc EXCEPT ![r] = IF R = << >> THEN "merge" ELSE "call"]
        /\ UNCHANGED << cur, toCall, hIdx, handlers, sized, mpiVars, nMsgs,
                        bcast, histVars >>

(* Where the poll thread goes after a callback: the next ready callback,  *)
(* or, after the last one, erase, the warning above 100 entries and        *)
(* post(daemon), i.e. the next tick.                                       *)
NextCallback(rest) == IF rest = << >> THEN "merge" ELSE "call"

(* it->callback(ok, size, sender) for a send: the caller's SentCallback,  *)
(* or the BroadcastCallback shared by the children's sends.               *)
CallSend(r) ==
    LET e == Head(ready[r])
    IN  /\ pc[r] = "call"
        /\ e.kind = "send"
        /\ ready' = [ready EXCEPT ![r] = Tail(@)]
        /\ pc' = [pc EXCEPT ![r] = NextCallback(Tail(ready[r]))]
        /\ calls' = calls \cup
              {[rank |-> r, kind |-> "send", id |-> e.id, bc |-> e.bc,
                msg |-> CHOOSE m \in sent : m.id = e.id, ok |-> e.ok,
                failed |-> ~(sendSt[e.id].t /\ sendSt[e.id].c)]}
        /\ IF e.bc = 0
           THEN /\ onSent' = onSent (+) SetToBag({[via |-> "to_parent",
                                                  id |-> e.id, ok |-> e.ok]})
                /\ UNCHANGED bcast
           ELSE BroadcastInvoke(e.bc, e.ok)
        /\ UNCHANGED << staging, working, cur, toCall, hIdx, handlers, sized,
                        mpiVars, nMsgs, sent, dispatched >>

(* Faulty variants of CallRecv, kept to confirm that ChannelRefined,     *)
(* ReceiveSlot and MessagesHandled detect them: re-arming before the      *)
(* handlers run, and re-arming only after a successful receive.           *)
CallRecvRearmFirst(r) ==
    LET e == Head(ready[r])
    IN  /\ pc[r] = "call"
        /\ e.kind = "recv"
        /\ ready' = [ready EXCEPT ![r] = Tail(@)]
        /\ calls' = calls \cup
              {[rank |-> r, kind |-> "recv", id |-> e.id, bc |-> 0,
                msg |-> recvSt[r][e.id].msg, ok |-> e.ok,
                failed |-> ~(recvSt[r][e.id].t /\ recvSt[r][e.id].c)]}
        /\ SetRecv(r)
        /\ IF e.ok
           THEN /\ cur' = [cur EXCEPT ![r] = e]
                /\ toCall' = [toCall EXCEPT ![r] = handlers[r]]
                /\ hIdx' = [hIdx EXCEPT ![r] = 0]
                /\ pc' = [pc EXCEPT ![r] = "dispatch"]
           ELSE /\ pc' = [pc EXCEPT ![r] = NextCallback(Tail(ready[r]))]
                /\ UNCHANGED << cur, toCall, hIdx >>
        /\ UNCHANGED << working, handlers, sized, chan, sendSt, buffer, nMsgs,
                        bcast, sent, onSent, dispatched >>
CallRecvNoRearmOnError(r) ==
    LET e == Head(ready[r])
    IN  /\ pc[r] = "call"
        /\ e.kind = "recv"
        /\ ready' = [ready EXCEPT ![r] = Tail(@)]
        /\ calls' = calls \cup
              {[rank |-> r, kind |-> "recv", id |-> e.id, bc |-> 0,
                msg |-> recvSt[r][e.id].msg, ok |-> e.ok,
                failed |-> ~(recvSt[r][e.id].t /\ recvSt[r][e.id].c)]}
        /\ IF e.ok
           THEN /\ cur' = [cur EXCEPT ![r] = e]
                /\ toCall' = [toCall EXCEPT ![r] = handlers[r]]
                /\ hIdx' = [hIdx EXCEPT ![r] = 0]
                /\ pc' = [pc EXCEPT ![r] = "dispatch"]
           ELSE /\ pc' = [pc EXCEPT ![r] = NextCallback(Tail(ready[r]))]
                /\ UNCHANGED << cur, toCall, hIdx >>
        /\ UNCHANGED << staging, recvSt, posted, working, handlers, sized,
                        chan, sendSt, buffer, nMsgs, bcast, sent, onSent,
                        dispatched >>

(* it->callback for the receive: received(ok, size, sender).  On success   *)
(* it copies handlers under mtx into to_call and enters the handler loop; *)
(* on failure it logs and goes straight to set_recv().                    *)
CallRecv(r) ==
    LET e == Head(ready[r])
    IN  /\ pc[r] = "call"
        /\ e.kind = "recv"
        /\ ready' = [ready EXCEPT ![r] = Tail(@)]
        /\ calls' = calls \cup
              {[rank |-> r, kind |-> "recv", id |-> e.id, bc |-> 0,
                msg |-> recvSt[r][e.id].msg, ok |-> e.ok,
                failed |-> ~(recvSt[r][e.id].t /\ recvSt[r][e.id].c)]}
        /\ IF e.ok
           THEN /\ cur' = [cur EXCEPT ![r] = e]
                /\ toCall' = [toCall EXCEPT ![r] = handlers[r]]
                /\ hIdx' = [hIdx EXCEPT ![r] = 0]
                /\ pc' = [pc EXCEPT ![r] = "dispatch"]
                /\ UNCHANGED << staging, recvSt, posted >>
           ELSE /\ SetRecv(r)
                /\ pc' = [pc EXCEPT ![r] = NextCallback(Tail(ready[r]))]
                /\ UNCHANGED << cur, toCall, hIdx >>
        /\ UNCHANGED << working, handlers, sized, chan, sendSt, buffer, nMsgs,
                        bcast, sent, onSent, dispatched >>

(* Faulty variants of Dispatch, kept to confirm that TypeOK and           *)
(* DispatchDirection detect them: the loop running to i <= size, and the  *)
(* sender compared with the own rank instead of parent().                 *)
DispatchOffByOne(r) ==
    /\ pc[r] = "dispatch"
    /\ hIdx[r] <= handlers[r]
    /\ dispatched' = dispatched \cup
          {[rank |-> r, h |-> hIdx[r], msg |-> recvSt[r][cur[r].id].msg,
            read |-> buffer[r],
            dir |-> IF cur[r].sender = Parent(r) THEN "parent" ELSE "child",
            inBounds |-> hIdx[r] < toCall[r]]}
    /\ hIdx' = [hIdx EXCEPT ![r] = @ + 1]
    /\ UNCHANGED << ledgerVars, pc, cur, toCall, handlers, sized, mpiVars,
                    nMsgs, bcast, sent, calls, onSent >>
DispatchBySelf(r) ==
    /\ pc[r] = "dispatch"
    /\ hIdx[r] < handlers[r]
    /\ dispatched' = dispatched \cup
          {[rank |-> r, h |-> hIdx[r], msg |-> recvSt[r][cur[r].id].msg,
            read |-> buffer[r],
            dir |-> IF cur[r].sender = r THEN "parent" ELSE "child",
            inBounds |-> hIdx[r] < toCall[r]]}
    /\ hIdx' = [hIdx EXCEPT ![r] = @ + 1]
    /\ UNCHANGED << ledgerVars, pc, cur, toCall, handlers, sized, mpiVars,
                    nMsgs, bcast, sent, calls, onSent >>

(* One iteration of the handler loop of received(): the bound is          *)
(* handlers.size(), read without mtx; the handler called is to_call[i],   *)
(* given the buffer.  received_from_parent if sender == parent(), else    *)
(* received_from_child.                                                    *)
Dispatch(r) ==
    /\ pc[r] = "dispatch"
    /\ hIdx[r] < handlers[r]
    /\ dispatched' = dispatched \cup
          {[rank |-> r, h |-> hIdx[r], msg |-> recvSt[r][cur[r].id].msg,
            read |-> buffer[r],
            dir |-> IF cur[r].sender = Parent(r) THEN "parent" ELSE "child",
            inBounds |-> hIdx[r] < toCall[r]]}
    /\ hIdx' = [hIdx EXCEPT ![r] = @ + 1]
    /\ UNCHANGED << ledgerVars, pc, cur, toCall, handlers, sized, mpiVars,
                    nMsgs, bcast, sent, calls, onSent >>

(* Faulty variant of DispatchEnd, kept to confirm that ReceiveSlot        *)
(* detects it: received() returning without set_recv() after success.     *)
DispatchEndNoRearm(r) ==
    /\ pc[r] = "dispatch"
    /\ hIdx[r] >= handlers[r]
    /\ pc' = [pc EXCEPT ![r] = NextCallback(ready[r])]
    /\ cur' = [cur EXCEPT ![r] = NoEntry]
    /\ toCall' = [toCall EXCEPT ![r] = 0]
    /\ hIdx' = [hIdx EXCEPT ![r] = 0]
    /\ UNCHANGED << staging, recvSt, posted, working, ready, handlers, sized,
                    chan, sendSt, buffer, nMsgs, bcast, histVars >>

(* The handler loop ends (i >= handlers.size()); the last statement of     *)
(* received() is set_recv().  to_call and i go out of scope.               *)
DispatchEnd(r) ==
    /\ pc[r] = "dispatch"
    /\ hIdx[r] >= handlers[r]
    /\ SetRecv(r)
    /\ pc' = [pc EXCEPT ![r] = NextCallback(ready[r])]
    /\ cur' = [cur EXCEPT ![r] = NoEntry]
    /\ toCall' = [toCall EXCEPT ![r] = 0]
    /\ hIdx' = [hIdx EXCEPT ![r] = 0]
    /\ UNCHANGED << working, ready, handlers, sized, chan, sendSt, buffer,
                    nMsgs, bcast, histVars >>

----------------------------------------------------------------------------
(* MPI progress.                                                           *)

(* An Isend completes (eagerly buffered or delivered), possibly in error.  *)
MpiSendComplete(i) ==
    /\ i \in 1 .. nMsgs
    /\ ~sendSt[i].done
    /\ \E o \in SendOutcomes :
           sendSt' = [sendSt EXCEPT ![i] = [done |-> TRUE, t |-> o.t, c |-> o.c]]
    /\ UNCHANGED << ledgerVars, pollVars, handlers, sized, chan, recvSt,
                    posted, buffer, nMsgs, bcast, histVars >>

(* The oldest posted Irecv of r matches the oldest message from s: the    *)
(* payload lands in the buffer and the receive completes.                 *)
MpiMatch(r, s) ==
    /\ posted[r] # << >>
    /\ chan[<< s, r >>] # << >>
    /\ LET m == Head(chan[<< s, r >>])
           k == Head(posted[r])
       IN  /\ \E o \in RecvOutcomes :
                 recvSt' = [recvSt EXCEPT ![r][k] =
                              [done |-> TRUE, t |-> o.t, c |-> o.c, msg |-> m]]
           /\ buffer' = [buffer EXCEPT ![r] = m]
    /\ posted' = [posted EXCEPT ![r] = Tail(@)]
    /\ chan' = [chan EXCEPT ![<< s, r >>] = Tail(@)]
    /\ UNCHANGED << ledgerVars, pollVars, handlers, sized, sendSt, nMsgs,
                    bcast, histVars >>

----------------------------------------------------------------------------
Client(r) ==
    \/ SetBufferSize(r)
    \/ r \in Senders /\ (AsyncSendToParent(r) \/ AsyncSendToChildren(r))
    \/ RegisterReceiveHandler(r)

Poll(r) ==
    \/ PollTick(r) \/ CallSend(r) \/ CallRecv(r)
    \/ Dispatch(r) \/ DispatchEnd(r)

Mpi ==
    \/ \E i \in 1 .. MaxMsgs : MpiSendComplete(i)
    \/ \E r, s \in Ranks : MpiMatch(r, s)

Next == (\E r \in Ranks : Client(r) \/ Poll(r)) \/ Mpi

(* poll_one reposts itself on the daemon's io_service after every tick, so *)
(* each rank's poll thread keeps running; MPI makes progress on every      *)
(* request and every matchable message.  Application calls are not fair.   *)
Fairness ==
    /\ \A r \in Ranks : WF_vars(Poll(r))
    /\ \A i \in 1 .. MaxMsgs : WF_vars(MpiSendComplete(i))
    /\ \A r, s \in Ranks : WF_vars(MpiMatch(r, s))

Spec == Init /\ [][Next]_vars /\ Fairness

----------------------------------------------------------------------------
TypeOK ==
    /\ staging \in [Ranks -> Seq(EntryT)]
    /\ working \in [Ranks -> Seq(EntryT)]
    /\ ready \in [Ranks -> Seq(EntryT)]
    /\ pc \in [Ranks -> {"merge", "call", "dispatch"}]
    /\ cur \in [Ranks -> EntryT]
    /\ toCall \in [Ranks -> 0 .. MaxHandlers]
    /\ hIdx \in [Ranks -> 0 .. MaxHandlers]
    /\ handlers \in [Ranks -> 0 .. MaxHandlers]
    /\ sized \in [Ranks -> BOOLEAN]
    /\ buffer \in [Ranks -> Msg \cup {NoMsg}]
    /\ chan \in [Ranks \X Ranks -> Seq(Msg)]
    /\ nMsgs \in 0 .. MaxMsgs
    /\ sent \subseteq Msg
    /\ Len(bcast) <= MaxBcasts

(* The receive window (received() and set_recv(), spec.md 5): MPI never   *)
(* holds two receives into the one buffer, and between two poll ticks of  *)
(* a rank whose buffer is sized exactly one receive request is queued, so *)
(* no completed receive, failed or not, leaves the rank deaf.             *)
ReceiveSlot ==
    \A r \in Ranks :
        /\ Len(posted[r]) <= 1
        /\ (sized[r] /\ pc[r] = "merge") =>
              Len(SelectSeq(staging[r] \o working[r],
                            LAMBDA e : e.kind = "recv")) = 1

(* The client implements the channel of TreeChannel: a message is taken  *)
(* off the wire when received() is called for it, the receive slot is     *)
(* busy from there until received() re-arms, and handlers read the       *)
(* buffer.  This says that received() is called once per message, for     *)
(* each sender in send order, one at a time per rank, and that every      *)
(* handler call of received() reads from the shared buffer the very       *)
(* message its receive matched (the buffer is not re-armed, hence not     *)
(* overwritten by MPI, while the handlers run).  On the sending side, a   *)
(* caller's SentCallback (for a broadcast, through BroadcastCallback)     *)
(* runs once, only after MPI completed each Isend of the call, with the   *)
(* AND of their results as MPI_Test reported them.                        *)
Channel == INSTANCE TreeChannel WITH
    consumed  <- { c.msg : c \in { x \in calls : x.kind = "recv" } },
    slot      <- [r \in Ranks |-> IF pc[r] = "dispatch"
                                  THEN recvSt[r][cur[r].id].msg ELSE NoMsg],
    delivered <- { d.read : d \in dispatched },
    ops       <- { [via |-> "to_parent", id |-> m.id, ms |-> {m.id}] :
                     m \in { x \in sent : x.via = "to_parent" } }
                 \cup { [via |-> "to_children", id |-> b, ms |-> bcast[b].ids] :
                         b \in DOMAIN bcast },
    completed <- { [id |-> i, ok |-> sendSt[i].t /\ sendSt[i].c] :
                     i \in { j \in 1 .. nMsgs : sendSt[j].done } },
    reported  <- onSent

(* Channel!Spec, with the abstract stuttering step tested before         *)
(* Channel!Next: most client steps (poll bookkeeping) change nothing the  *)
(* channel sees.                                                          *)
ChannelRefined ==
    Channel!Init /\ [][UNCHANGED Channel!vars \/ Channel!Next]_(Channel!vars)

(* Dispatch by sender (received(): sender == parent()): a message reaches *)
(* received_from_parent exactly when its sender sent it with              *)
(* async_send_to_children, and only at the rank it was addressed to.      *)
DispatchDirection ==
    \A d \in dispatched :
        /\ d.msg.dst = d.rank
        /\ (d.dir = "parent") <=> (d.msg.via = "to_children")

(* The request ledger across the requests / requests_to_process hand-off *)
(* of poll_one and concurrent submissions: every Isend whose callback has *)
(* not run is held exactly once by its rank, and none once it has run.    *)
LedgerConservation ==
    \A m \in sent :
        LET led    == staging[m.src] \o working[m.src] \o ready[m.src]
            held   == { i \in DOMAIN led : led[i].kind = "send"
                                           /\ led[i].id = m.id }
            called == \E c \in calls : c.kind = "send" /\ c.id = m.id
        IN  Cardinality(held) = IF called THEN 0 ELSE 1

(* async_send_to_children (BroadcastCallback): the caller's callback fires *)
(* at most once per call, only after the poller has reported every child  *)
(* send, and with the AND of their results.                               *)
FanOutCompletion ==
    \A f \in BagToSet(onSent) :
        f.via = "to_children" =>
            LET kids == { c \in calls : c.kind = "send" /\ c.bc = f.id }
            IN  /\ CopiesIn(f, onSent) = 1
                /\ \A g \in BagToSet(onSent) :
                      (g.via = f.via /\ g.id = f.id) => g = f
                /\ Cardinality(kids) = Len(Children(bcast[f.id].from))
                /\ f.ok = \A c \in kids : c.ok

(* Every message sent to a rank that has armed its receive is eventually *)
(* taken off the wire by that rank's poller (received() runs for it).     *)
MessagesHandled ==
    \A i \in 1 .. MaxMsgs :
        (\E m \in sent : m.id = i /\ sized[m.dst])
            ~> (\E c \in calls : c.kind = "recv" /\ c.msg.id = i)

(* Every Isend's callback eventually runs, and every async_send_to_children *)
(* call eventually reports completion to its caller.                      *)
CallbacksFire ==
    /\ \A i \in 1 .. MaxMsgs :
          (\E m \in sent : m.id = i)
              ~> (\E c \in calls : c.kind = "send" /\ c.id = i)
    /\ \A b \in 1 .. MaxBcasts :
          (b <= Len(bcast))
              ~> (\E f \in BagToSet(onSent) : f.via = "to_children"
                                             /\ f.id = b)

(* received(): the loop bound is handlers.size() read without mtx, the    *)
(* handler called is to_call[i]; every call must stay inside the copy.    *)
HandlerCallInBounds == \A d \in dispatched : d.inBounds

(* is_ready() / received(): a completion that MPI reports as an error     *)
(* reaches its callback with ok = false (spec.md 4.2 and 7).              *)
FailedCompletionReported == \A c \in calls : c.failed => ~c.ok
=============================================================================
