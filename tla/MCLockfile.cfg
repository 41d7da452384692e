SPECIFICATION Spec
CONSTANTS
    p1 = p1
    p2 = p2
    p3 = p3
    NoOwner = NoOwner
    Procs = {p1, p2, p3}
    DeadSignals = {"ESRCH", "finished"}
INVARIANTS
    NoForgottenLock
    ExclusionLostOnlyByTheft
PROPERTIES
    LockIsObtained
    ImplementsHostLock
