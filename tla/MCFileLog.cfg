SPECIFICATION Spec
CONSTANTS
    main = main
    other = other
    NoCaller = NoCaller
    Callers = {main, other}
    ChunkSize = 2
    MaxBytes = 5
INVARIANTS
    TypeOK
    PushedIsPrefix
    ShutdownDelivers
PROPERTIES
    ShutdownEnds
    WrittenIsReported
