SPECIFICATION Spec
CONSTANTS
    Accounts = {a1}
    KakaoIds = {k1}
    Requests = {r1}
    Reconcilers = {c1}
    NoKakao = NoKakao
    NoRow = NoRow
    MaxPasswords = 2
    MaxStates = 1
    StallPossible = FALSE
PROPERTIES
    LinkedDeletionSevers
