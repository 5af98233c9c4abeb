-------------------------- MODULE MC_TreeCluster --------------------------
(***************************************************************************)
(* TreeCluster instantiated for TLC.  The transport outcome sets say what  *)
(* MPI_Test and MPI_Get_count may return for a completed request.          *)
(***************************************************************************)
EXTENDS TreeCluster

MC_Root3 == 3                      \* a root and two leaves

MC_AllRanks == Ranks               \* every rank's application sends

MC_RootAndRank3 == {0, 3}          \* the root and the child of rank 1

Success == [t |-> TRUE, c |-> TRUE]

(* MPI reports no error. *)
MC_Reliable == { Success }

(* A request may fail, and then both calls report the error. *)
MC_Failing == { Success, [t |-> FALSE, c |-> FALSE] }

(* A request may fail with MPI_Test reporting the error and MPI_Get_count *)
(* succeeding on the returned status (e.g. MPI_ERR_TRUNCATE on a receive  *)
(* into a too small buffer).                                              *)
MC_TestFails == { Success, [t |-> FALSE, c |-> TRUE] }
=============================================================================
