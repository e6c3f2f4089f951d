\* iSaver profile: one status exchange per refresh, unacknowledged writes, two
\* concurrent commands; speed 1 is a ramp below the commandable minimum.
CONSTANTS
    Callers = {c1, c2}
    Modbus = FALSE
    MinSpeed = 2
    MaxSpeed = 2
    UnprobedSpeed = 2
    PumpStates = {0, 1}
    NormalInterval = 1
    OfflineInterval = 2
    IdleChoices = {1, 3}
    DefaultIdle = 3
    Settle = 1
    FailureThreshold = 2
    Override = 2
    Horizon = 3
    Refresh = Refresh
    None = None
SPECIFICATION Spec
INVARIANTS
    IInv
    AvailabilityDebounced
    TrackerFollowsData
    PollIsScheduled
    OptimisticStateIsTrue
    ExternalMeansExternal
    HandoverStands
    OnlyOvertakenReadsEscape
