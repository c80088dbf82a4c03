SPECIFICATION BootSpec
CONSTANTS
    Apps = {a1}
    NoApp = NoApp
    Revs = {"v1"}
    NoRev = "none"
    Pids = {p1, p2, p3}
    NoPid = NoPid
    Tasks = {tick, h1}
    NoTask = NoTask
    NoRow = NoRow
    RestartCap = 1
    SpawnMayFail = FALSE
    Tickers = {tick}
    Handlers = {h1}
    Ops = {"deploy"}
    Policies = {"always"}
    BootRows <- RunningOrNew
    MayShutDown = TRUE
    MaxLives = 3
    MaxStrangers = 1
SYMMETRY Symmetry
CHECK_DEADLOCK FALSE
INVARIANTS
    BootTypeOK
    OneWriterUnlessLost
    BlankSlateUnlessLost
PROPERTIES
    LostOnlyInWindows
    StrangersSpared
