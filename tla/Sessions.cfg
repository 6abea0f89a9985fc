\* Three requests of any kind, on one account with a session and a newcomer.
CONSTANTS
    Request = {b1, r1, r2, r3}
    User = {u1, u2}
    Password = {p1, p2}
    Calls <- AllCalls
    Before <- OneMember
    RateLimitMax = 1
    None = none
    u1 = u1
    u2 = u2
    p1 = p1
    p2 = p2
    b1 = b1
    r1 = r1
    r2 = r2
    r3 = r3
    none = none
SYMMETRY RequestSymmetry
SPECIFICATION Spec
INVARIANTS
    RotationSpendsParent
    Consistent
    RevocationIsComplete
    AuditIsTruthful
    SomeRequestCanStep
CHECK_DEADLOCK FALSE
