SPECIFICATION Spec
CONSTANTS
    firewall = firewall
    vpn = vpn
    r1 = r1
    r2 = r2
    r3 = r3
    Sections = {firewall, vpn}
    ObjectSections = {firewall}
    NoOverride = NoOverride
    Requests = {r1, r2, r3}
    Commands <- MCCommands
    Offered <- MCOffered
    NoConfig = NoConfig
    NoCommand = NoCommand
    Missing = Missing
    Corrupt = Corrupt
    Idle = Idle
PROPERTY
    RefusedUpdateKeepsMode
