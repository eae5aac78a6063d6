SPECIFICATION FairSpec
CONSTANTS
    Pods = {p1, p2}
    NoPod = NoPod
    AttachSignatures = {}
    MaxAttempts = 2
    SignatureThreshold = 2
    Requests = {r1}
    NoRequest = NoRequest
    EventSeqs = {1}
    MaxSeq = 1
    MaxToken = 6
    Faults = {"crash"}
    MaxFaults = 1
PROPERTY LeaseIsGivenUp
CHECK_DEADLOCK FALSE
