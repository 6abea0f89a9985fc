\* Two reviews of one activity.
CONSTANTS
    Request = {e1, r1, r2}
    Organizer = {o1, o2}
    Member = {m1, m2}
    Admin = {d1}
    Activity = {a1, a2}
    Owner <- Owners
    Rating = {1, 2}
    Calls <- TwoReviews
    Online <- Published
    ModerationEnabled = TRUE
    None = none
    o1 = o1
    o2 = o2
    m1 = m1
    m2 = m2
    d1 = d1
    a1 = a1
    a2 = a2
    e1 = e1
    r1 = r1
    r2 = r2
    r3 = r3
    none = none
SPECIFICATION Spec
INVARIANT CountMatchesReviews
CHECK_DEADLOCK FALSE
