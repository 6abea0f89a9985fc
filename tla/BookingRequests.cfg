\* Two requests of any kind, over two activities, to their answers.
CONSTANTS
    Request = {r1, r2}
    User = {u1, u2, u3}
    Admin = {u3}
    Activity = {a1, a2}
    Slot = {s1}
    ActivityOf <- MCActivityOf
    Owner <- MCOwner
    Capacity = {1, 2}
    Calls <- AllCalls
    PoolSize = 2
    None = none
    NoSlot = noslot
    u1 = u1
    u2 = u2
    u3 = u3
    a1 = a1
    a2 = a2
    s1 = s1
    none = none
SPECIFICATION FairSpec
INVARIANTS
    EntriesReferToRows
PROPERTIES
    EntriesLeaveWithReason
    EveryRequestAnswered
CHECK_DEADLOCK FALSE
