SPECIFICATION Spec
CONSTANTS
    Apps = {a1, a2}
    NoApp = NoApp
    Revs = {"v1"}
    NoRev = "none"
    Pids = {p1, p2}
    NoPid = NoPid
    Tasks = {tick, h1}
    NoTask = NoTask
    NoRow = NoRow
    RestartCap = 1
    SpawnMayFail = FALSE
    Tickers = {tick}
    Handlers = {h1}
    Ops = {"deploy"}
    Policies = {"always"}
    BootRows <- NothingDeployed
    MayShutDown = FALSE
SYMMETRY Symmetry
INVARIANTS
    TypeInv
    OneWriter
    SignalsStayHome
