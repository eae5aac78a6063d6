SPECIFICATION Spec
CONSTANTS
    Finalizers = {f1}
    NoOne = NoOne
    Lanes = {"pinned"}
    MaxReports = 2
    MaxAttempts = 2
    MaxTries = 1
    MaxControls = 0
    MaxUnparks = 0
    Dispositions = {"failed"}
INVARIANT DeferredTeardownServed
CHECK_DEADLOCK FALSE
