\* Three requests, a cooldown of two ticks and a limit of two in five: the
\* third is refused by the limit, until the first row has left the window.
SPECIFICATION IssueSpec
CONSTANTS
    r1 = r1
    r2 = r2
    r3 = r3
    Requests = {r1, r2, r3}
    TokenTypes = {"EMAIL_VERIFY", "PASSWORD_RESET", "EMAIL_CHANGE"}
    Cooldown = 2
    Window = 5
    Limit = 2
    MaxTime = 5
SYMMETRY RequestSymmetry
CONSTRAINT ShortSignUps
INVARIANTS
    CooldownKept
    LimitKept
    OlderCodesAreDead
    OnlyRivalsRetire
CHECK_DEADLOCK FALSE
