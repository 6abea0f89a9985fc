\* Three requests about one group and the foundation of another.
CONSTANTS
    Request = {r1, r2, r3}
    User = {u1, u2, u3, u4}
    Activity = {a1}
    Group = {g1, g2}
    Friends <- FriendPairs
    Calls <- ProposalCalls
    Founded <- FoundedG1
    None = none
    u1 = u1
    u2 = u2
    u3 = u3
    u4 = u4
    g1 = g1
    g2 = g2
    a1 = a1
    none = none
SYMMETRY RequestSymmetry
SPECIFICATION Spec
INVARIANTS
    Consistent
    SomeRequestCanStep
PROPERTIES
    ProposalsAuthorized
    NoMemberMissesProposal
CHECK_DEADLOCK FALSE
