CONSTANTS
    body = body
    other = other
    third = third
    r1 = r1
    r2 = r2
    ann = ann
    bob = bob
    None = None
    Contents = {body, other, third}
    Requests = {r1, r2}
    Approvers = {ann, bob}
    RequestOf <- TwoRequests
    Modes <- ThreeModes
    AuthorizationTTL = 1
    ApprovalTTL = 1
    MaxCalls = 2
    MaxFaults = 2
    MaxTime = 1
SPECIFICATION Spec
SYMMETRY Symmetry
INVARIANTS
    LifecycleTypeOK
    FenceRefusesOnly
    ClosedLifecycleIsRigid
    EffectNeverUnderstated
    ApprovedOnce
CHECK_DEADLOCK FALSE
