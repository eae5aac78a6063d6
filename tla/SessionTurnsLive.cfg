SPECIFICATION FairSpec
CONSTANTS
    Pods = {p1, p2}
    NoPod = NoPod
    AttachSignatures = {}
    MaxAttempts = 2
    SignatureThreshold = 2
    Requests = {r1}
    NoRequest = NoRequest
    EventSeqs = {}
    MaxSeq = 2
    MaxToken = 7
    Faults = {"crash", "stall", "refuse", "loop", "journal"}
    MaxFaults = 2
INVARIANTS ServedBeforeConsumed
PROPERTIES AnsweredOnce LeaseIsGivenUp StopIsSettled
CHECK_DEADLOCK FALSE
