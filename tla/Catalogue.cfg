\* Three requests of organizers, administrators, members and visitors.
CONSTANTS
    Request = {e1, r1, r2, r3}
    Organizer = {o1, o2}
    Member = {m1}
    Admin = {d1}
    Activity = {a1, a2}
    Owner <- Owners
    Rating = {1, 2}
    Calls <- CatalogueCalls
    Online <- Published
    ModerationEnabled = TRUE
    None = none
    o1 = o1
    o2 = o2
    m1 = m1
    m2 = m2
    d1 = d1
    a1 = a1
    a2 = a2
    e1 = e1
    r1 = r1
    r2 = r2
    r3 = r3
    none = none
SYMMETRY LaterSymmetry
SPECIFICATION Spec
INVARIANTS
    ShownWasApproved
    DecidedOnce
    Consistent
CHECK_DEADLOCK FALSE
