\* Three requests of two users compete for one slot of one or two seats.
CONSTANTS
    Request = {r1, r2, r3}
    User = {u1, u2}
    Admin = {}
    Activity = {a1}
    Slot = {s1}
    ActivityOf <- MCActivityOf
    Owner <- MCOwner
    Capacity = {1, 2}
    Calls <- SeatCalls
    PoolSize = 2
    None = none
    NoSlot = noslot
    u1 = u1
    u2 = u2
    u3 = u3
    a1 = a1
    a2 = a2
    s1 = s1
    none = none
SYMMETRY RequestSymmetry
SPECIFICATION Spec
INVARIANTS
    CapacityReadIsCurrent
    OneSeatPerUser
PROPERTIES
    SeatsWithinCapacity
    ImplementsSeatLedger
CHECK_DEADLOCK FALSE
