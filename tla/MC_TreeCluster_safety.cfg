\* Four ranks after setup: rank 1 has parent 0 and child 3.  Only the root
\* and rank 3 call the sends, so a broadcast from the root and sends up from
\* rank 3 meet at rank 1's single wildcard receive, while the root fans out
\* to two children.  An Isend may fail (both MPI calls report the error),
\* so one child send of the broadcast can fail and the other succeed;
\* receives succeed.
SPECIFICATION Spec
CONSTANTS
    N = 4
    MaxMsgs = 3
    MaxBcasts = 1
    MaxHandlers = 1
    SendOutcomes <- MC_Failing
    RecvOutcomes <- MC_Reliable
    LateRegistration = FALSE
    SetUpDone = TRUE
    Senders <- MC_RootAndRank3
INVARIANT TypeOK
INVARIANT ReceiveSlot
INVARIANT DispatchDirection
INVARIANT LedgerConservation
INVARIANT FanOutCompletion
PROPERTY ChannelRefined
