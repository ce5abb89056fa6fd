\* Two requests at once: each may run again and again while the other is
\* between its read and its write, so both tries of one can be lost.
CONSTANTS
    Requests = {r1, r2}
    Patches <- MCPatches
    NoBody = NoBody
    NoUser = NoUser
SPECIFICATION Spec
INVARIANTS
    TypeOK
    ConflictMeansContention
PROPERTY
    UpdatesAreAtomic
