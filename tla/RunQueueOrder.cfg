SPECIFICATION OrderSpec
CONSTANTS
    Pods = {p1, p2}
    NoPod = NoPod
    AttachSignatures = {}
    MaxAttempts = 2
    SignatureThreshold = 2
    Sessions = {s1, s2}
    Workers = {w1}
    NoUnit = NoUnit
    WarmReuse = {}
    Reapers = {r1}
    Priorities = {0}
    History = 0
    MaxToken = 5
    MaxSeq = 2
    MaxControl = 0
SYMMETRY OrderSymmetry
INVARIANTS RecoveryExcludesExecution FailureBudget
PROPERTIES RoundRobin
CONSTRAINT WorkerOrOrder
CHECK_DEADLOCK FALSE
