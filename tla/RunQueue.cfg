SPECIFICATION Spec
CONSTANTS
    Pods = {p1, p2}
    NoPod = NoPod
    AttachSignatures = {sigA}
    MaxAttempts = 2
    SignatureThreshold = 2
    Sessions = {s1}
    Workers = {w1}
    NoUnit = NoUnit
    WarmReuse = {s1}
    Reapers = {r1, r2}
    Priorities = {0}
    History = 1
    MaxToken = 3
    MaxSeq = 3
    MaxControl = 2
SYMMETRY PodSymmetry
INVARIANTS TypeOK FenceExcludesSteal OneHolder FailureBudget NoStrandedWork InterruptWindowOwned ConsumedBehindInput HistoryNeverReplayed
PROPERTIES NeverGoesBack LiveLeaseEndsByHolder ImplementsFencedLease
CONSTRAINT LeaseOrDebt
CHECK_DEADLOCK FALSE
