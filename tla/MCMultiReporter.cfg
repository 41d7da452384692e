SPECIFICATION Spec
CONSTANTS
    console = console
    infralog = infralog
    a = a
    Streams = {console, infralog}
    Artifacts = {a}
    MaxChunks <- MCMaxChunks
    Console = console
    DontPushLogChunks = FALSE
    DiscardErrors = FALSE
    MaxPublish = 1
    Orders <- MCOrders
INVARIANTS
    TypeOK
    AcksAreTrue
    ClosedIsComplete
    PublishIsTruthful
PROPERTIES
    CallsReturn
