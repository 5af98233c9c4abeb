\* Root and one leaf after setup; a request may fail with MPI_Test
\* returning the error while MPI_Get_count succeeds.
SPECIFICATION Spec
CONSTANTS
    N = 2
    MaxMsgs = 1
    MaxBcasts = 0
    MaxHandlers = 1
    SendOutcomes <- MC_TestFails
    RecvOutcomes <- MC_TestFails
    LateRegistration = FALSE
    SetUpDone = TRUE
    Senders <- MC_AllRanks
INVARIANT FailedCompletionReported
