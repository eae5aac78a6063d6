SPECIFICATION Spec
CONSTANTS
    Pods = {p1, p2}
    NoPod = NoPod
    AttachSignatures = {}
    MaxAttempts = 2
    SignatureThreshold = 2
    Requests = {r1}
    NoRequest = NoRequest
    EventSeqs = {}
    MaxSeq = 1
    MaxToken = 3
    Faults = {"shutdown"}
    MaxFaults = 1
INVARIANT ServedBeforeConsumed
CHECK_DEADLOCK FALSE
