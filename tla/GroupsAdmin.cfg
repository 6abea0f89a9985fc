\* Two requests: a departure and a change to the members.
CONSTANTS
    Request = {r1, r2}
    User = {u1, u2, u3, u4}
    Activity = {a1}
    Group = {g1, g2}
    Friends <- FriendPairs
    Calls <- MemberCalls
    Founded <- FoundedG1
    None = none
    u1 = u1
    u2 = u2
    u3 = u3
    u4 = u4
    g1 = g1
    g2 = g2
    a1 = a1
    none = none
SPECIFICATION Spec
INVARIANT GroupKeepsAdmin
CHECK_DEADLOCK FALSE
