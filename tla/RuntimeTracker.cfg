\* A counter that starts at 1 hour and is set to 0 or 3.
CONSTANTS
    Initial = 1
    SetValues = {0, 3}
    SaveInterval = 3
    Gap = 2
    MaxHours = 9
    None = None
SPECIFICATION Spec
INVARIANTS
    IInv
    CountsConfirmedTime
    LossBounded
