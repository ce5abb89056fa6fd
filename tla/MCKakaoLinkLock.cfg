SPECIFICATION Spec
CONSTANTS
    Accounts = {a1}
    KakaoIds = {k1}
    Links = {s1}
    Calls = {c1, c2}
    NoKakao = NoKakao
    NoUser = NoUser
    NoLink = NoLink
    MaxAttempts = 2
    MaxCodes = 1
SYMMETRY Symmetry
CHECK_DEADLOCK FALSE
PROPERTY
    PasswordLockHolds
