CONSTANTS
    User = {alice, bob}
    Device = {d1}
    Report = {p1, p2}
    Request = {r1, r2}
    Nobody = Nobody
    NoDevice = NoDevice
    NoReport = NoReport
    MaxDdnsRows = 2
SYMMETRY Symmetry
SPECIFICATION Spec
INVARIANTS
    AckedComplete
    EntriesNeedRow
    DeletedLeavesNothing
    Attached
    
    ServedIsLast
PROPERTIES
    RegistrySpec
