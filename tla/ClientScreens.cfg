\* Each scene on its own small instance, safety only.
CONSTANTS
    None = None
    organizer = organizer
    stranger = stranger
    moderator = moderator
    MaxRequests = 3
    EstablishmentCalls <- CallsOfThree
    Admins = {moderator}
    FirstLabel <- LabelsAtFirst
    Place = {"p1", "p2"}
    Label = {"l1", "l2"}
    Device = {d1, d2}
    Offered = {a1, a2}
    MaxRows = 1
    Text = {"empty", "old", "new"}
    Slot = {s1, s2}
    Stars = {5}
    MaxPresses = 2
    MaxChanges = 2
    Entry = {e1, e2}
    MaxLoads = 2
    MaxPanelRequests = 2
    MaxVersion = 2
    Query = {"", "a", "b"}
    MaxSearches = 2
    Position = {p1, p2}
    MaxRuns = 2
    Conversation = {c1, c2}
    MaxCalls = 2
    Content = {x, y}
    MaxPosts = 2
SPECIFICATION Spec
SYMMETRY Symmetry
INVARIANTS
    EstablishmentsConsistent
    TypedIsKept
    ConfirmedIsShown
    ListsAnswerScreen
PROPERTIES
    AddressChangesByChoice
    SaysDoneWhenDone
    ShownMovesForward
CHECK_DEADLOCK FALSE
