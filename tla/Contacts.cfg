\* Three requests after a pending friend request.
CONSTANTS
    User = {u1, u2, u3, u4}
    Organizer = {u3}
    Active = {u1, u2, u3}
    None = none
    u1 = u1
    u2 = u2
    u3 = u3
    u4 = u4
    b1 = b1
    r1 = r1
    none = none
    Request = {b1, r1, r2, r3}
    Calls <- ContactCalls
    Rows <- PendingRow
SPECIFICATION Spec
INVARIANTS
    OneRelationPerPair
    FriendsConsent
    ConversationsConsented
    MessagesHaveConversation
PROPERTY SuccessMeansStored
CHECK_DEADLOCK FALSE
