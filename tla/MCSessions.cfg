SPECIFICATION Spec
CONSTANTS
    Users = {u1}
    Tokens = {t1, t2, t3, t4}
    LegacyTokens = {t1}
    Calls = {c1, c2}
    NoFamily = NoFamily
    NoUser = NoUser
    NoToken = NoToken
    MaxPasswords = 2
SYMMETRY Symmetry
CHECK_DEADLOCK FALSE
INVARIANTS
    OneLiveTokenPerFamily
    RevokedFamilyStaysDead
    NoSessionWithoutAccount
PROPERTIES
    OnlyLateLoginsOutliveReset
