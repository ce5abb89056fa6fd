\* One item, two requests at once, the two notifications of a new item and
\* one more, waits of two and three ticks, requests of at most one, five instants.
CONSTANTS
    Items = {i1}
    Notes = {n1, n2, n3}
    Calls = {c1, c2}
    Waits = {2, 3}
    NoNote = NoNote
    NoItem = NoItem
    Latency = 1
    MaxClock = 4
SPECIFICATION Spec
SYMMETRY Symmetry
CHECK_DEADLOCK FALSE
INVARIANTS
    OneRecordPerItem
    ReminderAtDeadline
    DecidedItemsAreQuiet
    EveryWaitIsAsked
PROPERTY
    DueStaysDue
