SPECIFICATION FairSpec
CONSTANTS
    Apps = {a1, a2}
    NoApp = NoApp
    Neighbours = {a2}
    LogClients = {c1}
    EventClients = {c1}
    Window = 1
    Batch = 2
    MaxPieces = 4
    MaxTruncations = 1
    MaxEvents = 5
INVARIANTS
    TypeOK
    NothingSkipped
    EventsInOrder
PROPERTIES
    HealthPageSettles
    StopSettles
    ReadingsPageSettles
    PiecesArrive
    EventsArrive
