\* Every kind of pump, its entry stored with and without a protocol.
CONSTANTS
    Retry = 2
    MaxReloads = 2
    None = None
SPECIFICATION FairSpec
INVARIANTS
    IInv
    BitsRemembered
    RegistryIsCurrent
PROPERTIES
    OwnFaultsKept
    MapSettles
