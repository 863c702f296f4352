SPECIFICATION Spec
CONSTANTS
    Request = {r1, r2}
    NumberedSections = {"firewall_rules"}
    KeyedSections = {"vlans"}
    ReplacedSections = {"nat_rules"}
    MaxId = 2
    MaxCalls = 4
SYMMETRY Symmetry
CONSTRAINT Bounded
INVARIANTS
    IdsDense
    DeviceFollows
    RemovedStaysOut
PROPERTIES
    AskedOnly
CHECK_DEADLOCK FALSE
