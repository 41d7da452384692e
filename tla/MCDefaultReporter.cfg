SPECIFICATION Spec
CONSTANTS
    main_ = main_
    worker = worker
    Goroutines = {main_, worker}
    Main = main_
    MaxPending = 1
    PublishRetries = {0, 2}
    MaxReports = 2
INVARIANTS
    ResultIsJustified
    ShutdownDrains
PROPERTIES
    ShutdownReturns
    ShutdownNears
    ImplementsReportQueue
