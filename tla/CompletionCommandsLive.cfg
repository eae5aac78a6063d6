SPECIFICATION FairSpec
CONSTANTS
    Finalizers = {f1, f2}
    NoOne = NoOne
    Lanes = {"pinned"}
    MaxReports = 1
    MaxAttempts = 2
    MaxTries = 2
    MaxControls = 1
    MaxUnparks = 0
    Dispositions = {"completed", "pending_review", "paused", "none"}
PROPERTIES CommandSettles
CHECK_DEADLOCK FALSE
