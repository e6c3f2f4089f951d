\* The comment in SerialTransport.exchange against a cancelled transaction.
CONSTANTS
    Transports = {t1, t2}
    Guard = 1
    InputBound = 1
    AirBound = 2
    Nobody = Nobody
SPECIFICATION Spec
INVARIANTS
    NoCompetingDescriptors
