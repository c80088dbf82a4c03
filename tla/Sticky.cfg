SPECIFICATION Spec
CONSTANTS
    Apps = {a1}
    NoApp = NoApp
    Artifacts = {"kernel", "embedded"}
    WithKernel = {"kernel"}
    NoArtifact = NoArtifact
    Builders = {"own"}
    NoBuilder = "nobody"
    OwnKeys = {"own"}
    Handlers = {h1}
    Attached <- AllAttestations
    MaxDeploys = 2
    MaxHistory = 3
    MaxCrashes = 0
INVARIANTS
    VerifiedSticky
