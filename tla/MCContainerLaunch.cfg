SPECIFICATION Spec
CONSTANTS
    e1 = e1
    e2 = e2
    None = None
    Executors = {e1, e2}
    Runs <- MCRuns
PROPERTY DestroyedOnExit
