SPECIFICATION Spec
CONSTANTS
    Apps = {a1}
    NoApp = NoApp
    Artifacts = {"kernel", "embedded"}
    WithKernel = {"kernel"}
    NoArtifact = NoArtifact
    Builders = {"own"}
    NoBuilder = "nobody"
    OwnKeys = {"own"}
    Handlers = {h1, h2}
    Attached <- NoneOrSigned
    MaxDeploys = 2
    MaxHistory = 3
    MaxCrashes = 1
SYMMETRY Symmetry
INVARIANTS
    TypeOK
    NothingMissing
    DeployedIsRunnable
    HistoryComplete
PROPERTIES
    VerifiedOnEvidence
