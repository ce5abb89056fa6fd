SPECIFICATION Spec
CONSTANTS
    c1 = c1
    c2 = c2
    c3 = c3
    Calls = {c1, c2, c3}
    Kinds = {"EMAIL_VERIFY", "PASSWORD_RESET", "EMAIL_CHANGE", "KAKAO_LINK_EMAIL"}
    Max = 2
    Lock = 2
    Ttl = 4
    MaxClock = 4
SYMMETRY CallSymmetry
INVARIANTS
    AcceptedOnce
    ExhaustionIsLocked
PROPERTIES
    LockIsKept
    FailuresAreRemembered
