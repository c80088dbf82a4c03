SPECIFICATION Spec
CONSTANTS
    Apps = {a1}
    NoApp = NoApp
    Revs = {"v1", "v2"}
    NoRev = "none"
    Pids = {p1, p2}
    NoPid = NoPid
    Tasks = {tick, h1}
    NoTask = NoTask
    NoRow = NoRow
    RestartCap = 2
    SpawnMayFail = FALSE
    Tickers = {tick}
    Handlers = {h1}
    Ops = {"deploy"}
    Policies = {"always"}
    BootRows <- Running
    MayShutDown = FALSE
SYMMETRY Symmetry
INVARIANTS
    RevisionApplied
