\* Two requests at a time of a client that two people use one after the other.
CONSTANTS
    Account = {a, b}
    MaxCalls = 2
    NoOne = noone
    MaxLogins = 2
    MaxRestarts = 1
SPECIFICATION Spec
INVARIANTS
    Consistent
PROPERTIES
    
    LogoutEnds
CHECK_DEADLOCK FALSE
