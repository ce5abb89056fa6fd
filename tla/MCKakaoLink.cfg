\* Two accounts, identities, sessions and requests: every pair that can race.
\* The counter of wrong passwords only matters to MCKakaoLinkLock.
SPECIFICATION Spec
CONSTANTS
    Accounts = {a1, a2}
    KakaoIds = {k1, k2}
    Links = {s1, s2}
    Calls = {c1, c2}
    NoKakao = NoKakao
    NoUser = NoUser
    NoLink = NoLink
    MaxAttempts = 1
    MaxCodes = 1
SYMMETRY Symmetry
CHECK_DEADLOCK FALSE
INVARIANTS
    LinkCompletesOnce
    UsedLinkIsLinked
    CodeProvesOnce
PROPERTY
    IdentityNeverReplaced
