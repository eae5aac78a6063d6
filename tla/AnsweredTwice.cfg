SPECIFICATION Spec
CONSTANTS
    Pods = {p1, p2}
    NoPod = NoPod
    AttachSignatures = {}
    MaxAttempts = 2
    SignatureThreshold = 2
    Requests = {r1}
    NoRequest = NoRequest
    EventSeqs = {2}
    MaxSeq = 2
    MaxToken = 4
    Faults = {"crash"}
    MaxFaults = 1
PROPERTY AnsweredOnce
CHECK_DEADLOCK FALSE
