--------------------------- MODULE TreeTopology ---------------------------
(***************************************************************************)
(* The implicit binary tree of MpiTreeClient (tree_cluster.cpp): rank 0  *)
(* is the root, parent() and children() are computed from the process's  *)
(* own rank and the communicator size.                                    *)
(***************************************************************************)
EXTENDS Integers, Sequences

CONSTANT N          \* mpi_get_comm_size(): total number of processes

ASSUME N \in Nat \ {0}

Ranks == 0 .. N - 1

(* C++ integer division of ints: truncates toward zero.                   *)
CDiv(a, b) == IF a >= 0 THEN a \div b ELSE -((-a) \div b)

(* Faulty variants of Parent and Children (a slipped sign, an off-by-one   *)
(* bound), kept to confirm that the topology properties detect them.       *)
ParentPlusOne(current) == IF current = 0 THEN 0 ELSE CDiv(current + 1, 2)
ChildrenBoundOffByOne(parent) ==
    IF N < 2 THEN << >>
    ELSE    (IF parent * 2 + 1 <= N THEN << parent * 2 + 1 >> ELSE << >>)
         \o (IF parent * 2 + 2 <= N THEN << parent * 2 + 2 >> ELSE << >>)

(* MpiTreeClient::parent(): the root is its own parent, every other rank   *)
(* has floor((current-1)/2), computed with C++ int division.               *)
Parent(current) == IF current = 0 THEN 0 ELSE CDiv(current - 1, 2)

(* MpiTreeClient::children(): the ordered vector built by two push_backs,  *)
(* empty when the communicator has fewer than two processes.               *)
Children(parent) ==
    IF N < 2 THEN << >>
    ELSE    (IF parent * 2 + 1 < N THEN << parent * 2 + 1 >> ELSE << >>)
         \o (IF parent * 2 + 2 < N THEN << parent * 2 + 2 >> ELSE << >>)

ChildSet(r) == { Children(r)[i] : i \in DOMAIN Children(r) }
=============================================================================
