\* Root and two leaves after setup, reliable MPI, up to two messages,
\* with the fairness of the reposted poll loop and of MPI progress.
SPECIFICATION Spec
CONSTANTS
    N <- MC_Root3
    MaxMsgs = 2
    MaxBcasts = 1
    MaxHandlers = 1
    SendOutcomes <- MC_Reliable
    RecvOutcomes <- MC_Reliable
    LateRegistration = FALSE
    SetUpDone = TRUE
    Senders <- MC_AllRanks
PROPERTY MessagesHandled
PROPERTY CallbacksFire
