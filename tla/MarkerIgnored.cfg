SPECIFICATION Spec
CONSTANTS
    Finalizers = {f1}
    NoOne = NoOne
    Lanes = {"pinned"}
    MaxReports = 1
    MaxAttempts = 1
    MaxTries = 1
    MaxControls = 1
    MaxUnparks = 0
    Dispositions = {"completed"}
INVARIANT DeliveryExcludesForeignWrites
CHECK_DEADLOCK FALSE
