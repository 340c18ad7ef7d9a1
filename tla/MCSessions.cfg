SPECIFICATION Spec
CONSTANTS
    l1 = l1
    t1 = t1
    r1 = r1
    r2 = r2
    NoToken = NoToken
    Logins = {l1}
    Tokens = {t1}
    Requests = {r1, r2}
    MaxMints = 2
    MaxResets = 1
SYMMETRY Interchangeable
INVARIANTS TypeOK OnlyLateLoginsOutlive GateHeals RefreshesOnceForEach
CHECK_DEADLOCK FALSE
