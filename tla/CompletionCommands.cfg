SPECIFICATION Spec
CONSTANTS
    Finalizers = {f1}
    NoOne = NoOne
    Lanes = {"pinned", "stateless"}
    MaxReports = 2
    MaxAttempts = 2
    MaxTries = 1
    MaxControls = 2
    MaxUnparks = 1
    Dispositions = {"completed", "paused"}
INVARIANTS TypeOK TeardownHoldsJob DispositionsInOrder DeliveryExcludesPeople DeliveredBeforePublished DeferredTeardownServed
PROPERTIES StatusIsTheOneAdmitted
CHECK_DEADLOCK FALSE
