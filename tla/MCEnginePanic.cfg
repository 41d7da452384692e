SPECIFICATION Spec
CONSTANTS
    Configs <- MCConfigs
    MaxCmds = 2
    MaxPending = 1
    MaxLines = 1
INVARIANT NoSendAfterShutdown
