\* u1 sends t1 from d1 and u2 writes: three rows, t1 twice included.
CONSTANTS
    User = {u1, u2}
    Device = {d1}
    Owner <- MCOwner
    Instance = {i1, i2}
    Event <- MCEvent
    None = none
    MaxRows = 3
    Text = {t1}
    Author <- MCAuthor
    Others = {u2}
    MaxWire = 2
    MaxMarks = 2
    u1 = u1
    u2 = u2
    d1 = d1
    i1 = i1
    i2 = i2
    t1 = t1
    none = none
SPECIFICATION Spec
INVARIANTS
    ShownUnlessHidden
    OpenConversationIsRead
    Consistent
SYMMETRY MCSymmetry
CHECK_DEADLOCK FALSE
