SPECIFICATION Spec
CONSTANTS
    Apps = {a1}
    NoApp = NoApp
    Revs = {"v1", "v2"}
    NoRev = "none"
    Pids = {p1, p2}
    NoPid = NoPid
    Tasks = {tick, h1}
    NoTask = NoTask
    NoRow = NoRow
    RestartCap = 2
    SpawnMayFail = TRUE
    Tickers = {tick}
    Handlers = {h1}
    Ops = {"deploy", "restart", "reload", "rollback", "stop", "start", "fleet"}
    Policies = {"always", "on-failure", "never"}
    BootRows <- AnyRow
    MayShutDown = FALSE
SYMMETRY Symmetry
INVARIANTS
    OneProcess
    SignalsStayHome
    Recoverable
    StatusTruth
PROPERTIES
    NoPenaltyForAskedExit
    ImplementsLifecycle
