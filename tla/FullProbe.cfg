\* The tool as it is, with and without --read-only.
CONSTANTS
    Speeds <- MCSpeeds
    Registers = 4
SPECIFICATION Spec
INVARIANTS
    IInv
PROPERTIES
    WritesAreEarned
