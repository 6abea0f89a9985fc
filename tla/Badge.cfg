\* u2 writes twice, u1 reads on d1 and elsewhere; two instances of the API.
CONSTANTS
    User = {u1, u2}
    Writers = {u2}
    Readers = {u1}
    Device = {d1}
    Owner <- MCOwner
    Instance = {i1, i2}
    Event <- BadgeEvent
    None = none
    MaxRows = 2
    MaxPending = 2
    MaxWire = 2
    MaxMarks = 2
    u1 = u1
    u2 = u2
    d1 = d1
    i1 = i1
    i2 = i2
    none = none
SPECIFICATION BadgeFairSpec
INVARIANTS
    BadgesConsistent
PROPERTIES
    NeverGoesBack
    Settles
CHECK_DEADLOCK FALSE
