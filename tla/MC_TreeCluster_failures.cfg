\* Root and one leaf from construction: set_buffer_size and handler
\* registration interleave with the first traffic, and MPI may report
\* failed requests, both MPI_Test and MPI_Get_count returning the error.
SPECIFICATION Spec
CONSTANTS
    N = 2
    MaxMsgs = 2
    MaxBcasts = 1
    MaxHandlers = 1
    SendOutcomes <- MC_Failing
    RecvOutcomes <- MC_Failing
    LateRegistration = FALSE
    SetUpDone = FALSE
    Senders <- MC_AllRanks
INVARIANT ReceiveSlot
PROPERTY MessagesHandled
PROPERTY ChannelRefined
