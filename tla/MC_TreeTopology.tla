-------------------------- MODULE MC_TreeTopology --------------------------
(***************************************************************************)
(* Checks the topology operators of TreeTopology against a reference      *)
(* definition of a tree, for every communicator size 1 .. MaxNodes and    *)
(* every rank of it.  The state is the pair (size, rank) under test.      *)
(***************************************************************************)
EXTENDS Integers, Sequences

CONSTANT MaxNodes

VARIABLES size, rank
vars == << size, rank >>

T(n) == INSTANCE TreeTopology WITH N <- n

Init == /\ size \in 1 .. MaxNodes
        /\ rank \in 0 .. size - 1

Next == UNCHANGED vars

Spec == Init /\ [][Next]_vars

TypeOK == /\ size \in 1 .. MaxNodes
          /\ rank \in 0 .. size - 1

(* k-fold application of parent() to r. *)
RECURSIVE Ancestor(_, _, _)
Ancestor(n, r, k) == IF k = 0 THEN r ELSE Ancestor(n, T(n)!Parent(r), k - 1)

(* Reference tree: r's children are exactly the non-root ranks whose      *)
(* parent() is r, listed in increasing order; every rank reaches the root *)
(* by following parent() at most size times; the root is its own parent, *)
(* so a caller that sends to parent() from rank 0 sends to itself.        *)
ChildrenAgreeWithParent ==
    LET kids == T(size)!Children(rank)
        ref  == { c \in 1 .. size - 1 : T(size)!Parent(c) = rank }
    IN  /\ { kids[i] : i \in DOMAIN kids } = ref
        /\ \A i, j \in DOMAIN kids : i < j => kids[i] < kids[j]
        /\ Len(kids) <= 2

(* parent() never leaves the communicator and every rank reaches the root *)
(* rank 0 without revisiting a rank (no cycles, one tree).                *)
ParentFormsTree ==
    /\ T(size)!Parent(rank) \in 0 .. size - 1
    /\ (rank # 0) => T(size)!Parent(rank) < rank
    /\ \E k \in 0 .. size : Ancestor(size, rank, k) = 0
=============================================================================
