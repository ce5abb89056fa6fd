\* Two requests and a recovery worker that may run beside them, as often as
\* the operator likes; fairness, and therefore no symmetry.
SPECIFICATION FairSpec
CONSTANTS
    Accounts = {a1}
    KakaoIds = {k1}
    Requests = {r1, r2}
    Reconcilers = {c1}
    NoKakao = NoKakao
    NoRow = NoRow
    MaxPasswords = 2
    MaxStates = 2
    StallPossible = TRUE
INVARIANTS
    RecoveryStateSurvives
    UnlinkedMeansSevered
    AuditMatchesDeletion
    ReauthenticationUsedOnce
PROPERTIES
    DeletionIsProven
    PendingWithdrawalCompletes
