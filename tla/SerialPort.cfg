\* Two clients on one adapter, late replies, cancellation at any await.
CONSTANTS
    Transports = {t1, t2}
    Guard = 1
    InputBound = 1
    AirBound = 2
    Nobody = Nobody
SPECIFICATION Spec
INVARIANTS
    IInv
    OpenOnlyOnWire
    AcceptsTheAnswer
PROPERTIES
    SilenceBeforeFrames
