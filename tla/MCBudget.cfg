\* Two requests that may run again and again: enough for a deadlock at every
\* try of one of them.
CONSTANTS
    Requests = {r1, r2}
    Amounts = {0, 1, 2}
    Patches <- MCPatches
    NoPatch = NoPatch
    Deleted = Deleted
SPECIFICATION FairSpec
PROPERTIES
    UpdatesAreAtomic
    EveryRequestAnswered
CHECK_DEADLOCK FALSE
