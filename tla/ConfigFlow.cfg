\* Two flows over two entries, with a TCP gateway and a serial port.
CONSTANTS
    EntryIds = {e1, e2}
    Flows = {f1, f2}
    TcpEndpoints = {tcp}
    SerialPorts = {usb}
    Units = {AA, A0}
    None = None
SYMMETRY Symmetry
CONSTRAINT OneSetup
SPECIFICATION Spec
INVARIANTS
    IInv
    OneEntryPerPump
    UniqueIdIsIdentity
    OneProtocolPerBus
    NeverReplaced
