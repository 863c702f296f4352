CONSTANTS
    Device = {d1, d2}
    Save = {s1}
    Pages <- MCPages
    NoDevice = NoDevice
    Nothing = Nothing
    Later = Later
    MaxVersion = 1
    MaxFlights = 2
    Router = {wifi6, wifi7}
    Config = {c1, c2}
    None = None
    MaxCalls = 2
SPECIFICATION TabSpec
INVARIANTS
    PollsOnlyOnScreen
    LoadingTold
    OrderedAsReviewed
    OneDevicePerOrder
PROPERTIES
    SaveIsShown
    DraftKept
    SelectionReached
