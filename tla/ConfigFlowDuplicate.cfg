\* Two entries on one serial port, one of them reconfigured while the other flow probes.
CONSTANTS
    EntryIds = {e1, e2}
    Flows = {f1, f2}
    TcpEndpoints = {}
    SerialPorts = {usb}
    Units = {AA, A0}
    None = None
SPECIFICATION Spec
INVARIANTS
    NoAccidentalDuplicate
