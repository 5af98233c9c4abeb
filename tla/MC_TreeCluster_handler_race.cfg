\* Root and one leaf from construction; a second handler is registered
\* on another thread while received() runs its handler loop.
SPECIFICATION Spec
CONSTANTS
    N = 2
    MaxMsgs = 1
    MaxBcasts = 0
    MaxHandlers = 2
    SendOutcomes <- MC_Reliable
    RecvOutcomes <- MC_Reliable
    LateRegistration = TRUE
    SetUpDone = FALSE
    Senders <- MC_AllRanks
INVARIANT HandlerCallInBounds
