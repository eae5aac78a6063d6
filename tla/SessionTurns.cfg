SPECIFICATION Spec
CONSTANTS
    Pods = {p1, p2}
    NoPod = NoPod
    AttachSignatures = {}
    MaxAttempts = 1
    SignatureThreshold = 2
    Requests = {r1, r2}
    NoRequest = NoRequest
    EventSeqs = {2}
    MaxSeq = 3
    MaxToken = 4
    Faults = {"crash", "stall", "refuse", "loop", "journal", "shutdown"}
    MaxFaults = 2
SYMMETRY TurnSymmetry
INVARIANTS TypeOK OneAttached OneStopGeneration NothingSkipped EventsServed HoldIsShown
PROPERTIES StopNotReplayed
CHECK_DEADLOCK FALSE
