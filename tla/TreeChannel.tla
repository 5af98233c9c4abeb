----------------------------- MODULE TreeChannel -----------------------------
(***************************************************************************)
(* What the tree client promises the code above it (spec.md 4.3, 4.5, 5): *)
(* messages handed to a send are taken off the network by their           *)
(* destination one at a time, each at most once, those of one sender in   *)
(* the order they were sent; a message taken successfully is held in the  *)
(* destination's receive slot while its handlers read it, and handlers    *)
(* read nothing else.  On the sending side, a send operation (one message *)
(* to the parent, or one per child for a broadcast) is reported to its    *)
(* caller once, after the transport has completed every one of its sends, *)
(* with success exactly when all of them succeeded; a broadcast with no   *)
(* children is reported, successful, as it is submitted.  Messages are    *)
(* records with an id, a source and a destination rank.                   *)
(***************************************************************************)
EXTENDS Integers, Bags

CONSTANTS Ranks, NoMsg

VARIABLES
    sent,       \* messages handed to MPI by a send operation
    consumed,   \* messages taken by a completed receive, ok or not
    slot,       \* per rank: the message its handlers are being given
    delivered,  \* messages a handler has read
    ops,        \* send operations: [via, id, ms], ms the ids of their sends
    completed,  \* sends the transport has completed: [id, ok]
    reported    \* bag of the callers' callbacks: [via, id, ok]

vars == << sent, consumed, slot, delivered, ops, completed, reported >>

Init ==
    /\ sent = {}
    /\ consumed = {}
    /\ slot = [r \in Ranks |-> NoMsg]
    /\ delivered = {}
    /\ ops = {}
    /\ completed = {}
    /\ reported = EmptyBag

Report(o, ok) == [via |-> o.via, id |-> o.id, ok |-> ok]

(* No callback of operation o has been reported yet. *)
Unreported(o) == \A ok \in BOOLEAN : CopiesIn(Report(o, ok), reported) = 0

(* One send operation hands its new messages, with fresh ids, to the       *)
(* network; one without messages is reported at once, successful.         *)
Send ==
    /\ sent \subseteq sent'
    /\ \A m \in sent' \ sent : \A e \in sent : m.id # e.id
    /\ \E o \in ops' \ ops :
          /\ ops' = ops \cup {o}
          /\ \A p \in ops : p.via # o.via \/ p.id # o.id
          /\ o.ms = { m.id : m \in sent' \ sent }
          /\ reported' = IF o.ms = {} THEN reported (+) SetToBag({Report(o, TRUE)})
                                      ELSE reported
    /\ UNCHANGED << consumed, slot, delivered, completed >>

(* The transport completes the send of message i, successfully or not.   *)
Complete(i, ok) ==
    /\ i \in { m.id : m \in sent }
    /\ \A c \in completed : c.id # i
    /\ completed' = completed \cup {[id |-> i, ok |-> ok]}
    /\ UNCHANGED << sent, consumed, slot, delivered, ops, reported >>

(* The caller of o is told, once, after all of o's sends completed, with  *)
(* the AND of their outcomes.                                             *)
Callback(o) ==
    /\ o \in ops
    /\ o.ms # {}
    /\ Unreported(o)
    /\ \A i \in o.ms : \E c \in completed : c.id = i
    /\ reported' = reported (+)
          SetToBag({Report(o, \A c \in completed : c.id \in o.ms => c.ok)})
    /\ UNCHANGED << sent, consumed, slot, delivered, ops, completed >>

(* The destination of m takes it, once every earlier message of the same  *)
(* sender to it is taken; on success it fills the empty receive slot.     *)
Receive(m, ok) ==
    /\ m \in sent \ consumed
    /\ \A e \in sent : (e.src = m.src /\ e.dst = m.dst /\ e.id < m.id)
                          => e \in consumed
    /\ slot[m.dst] = NoMsg
    /\ consumed' = consumed \cup {m}
    /\ slot' = IF ok THEN [slot EXCEPT ![m.dst] = m] ELSE slot
    /\ UNCHANGED << sent, delivered, ops, completed, reported >>

(* A handler of rank r reads the message in r's slot.                     *)
Deliver(r) ==
    /\ slot[r] # NoMsg
    /\ delivered' = delivered \cup {slot[r]}
    /\ UNCHANGED << sent, consumed, slot, ops, completed, reported >>

(* The handlers of r are done with the message; the slot is free.         *)
Release(r) ==
    /\ slot[r] # NoMsg
    /\ slot' = [slot EXCEPT ![r] = NoMsg]
    /\ UNCHANGED << sent, consumed, delivered, ops, completed, reported >>

Next ==
    \/ Send
    \/ \E m \in sent, ok \in BOOLEAN : Complete(m.id, ok)
    \/ \E o \in ops : Callback(o)
    \/ \E m \in sent, ok \in BOOLEAN : Receive(m, ok)
    \/ \E r \in Ranks : Deliver(r) \/ Release(r)

Spec == Init /\ [][Next]_vars

=============================================================================
