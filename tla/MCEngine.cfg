SPECIFICATION Spec
CONSTANTS
    Configs <- MCConfigs
    MaxCmds = 2
    MaxPending = 1
    MaxLines = 1
INVARIANTS
    TypeOK
    CommandProtocol
    PassedIsDeserved
    JobstepFrames
    AdapterProtocol
    ExitCodeTellsResult
    ExitIsDrained
    PanicOnlyWhenAbandoned
PROPERTIES
    CancellationEndsRun
    OnlyCommandsHang
