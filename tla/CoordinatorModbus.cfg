\* Modbus profile: a second exchange for the extended registers, acknowledged
\* writes; created before the profile was probed, so with iSaver's minimum.
CONSTANTS
    Callers = {c1}
    Modbus = TRUE
    MinSpeed = 2
    MaxSpeed = 2
    UnprobedSpeed = 9
    PumpStates = {0, 2}
    NormalInterval = 2
    OfflineInterval = 3
    IdleChoices = {1, 3}
    DefaultIdle = 3
    Settle = 1
    FailureThreshold = 3
    Override = 2
    Horizon = 3
    Refresh = Refresh
    None = None
SPECIFICATION FairSpec
INVARIANTS
    IInv
    OptimisticStateIsTrue
PROPERTIES
    Converges
