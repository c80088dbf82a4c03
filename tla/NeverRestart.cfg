SPECIFICATION FairSpec
CONSTANTS
    Apps = {a1}
    NoApp = NoApp
    Revs = {"v1"}
    NoRev = "none"
    Pids = {p1, p2}
    NoPid = NoPid
    Tasks = {tick, h1}
    NoTask = NoTask
    NoRow = NoRow
    RestartCap = 1
    SpawnMayFail = FALSE
    Tickers = {tick}
    Handlers = {h1}
    Ops = {"restart"}
    Policies = {"never"}
    BootRows <- RunningNever
    MayShutDown = FALSE
PROPERTIES
    RestartStarts
