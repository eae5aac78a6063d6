SPECIFICATION Spec
CONSTANTS
    owner = owner
    child = child
    w1 = w1
    w2 = w2
    Jobs = {owner, child}
    Owner = owner
    Services = {w1, w2}
    NoService = NoService
    MaxToken = 3
    MaxOps = 2
SYMMETRY RecoverySymmetry
INVARIANTS
    TypeOK
    HoldIsExact
    WorkspaceQuiet
    UnknownOutcomeNotReplayed
    AttestedUnderPin
    NoPinGap
PROPERTIES
    DiskKept
CONSTRAINT Focus
CHECK_DEADLOCK FALSE
