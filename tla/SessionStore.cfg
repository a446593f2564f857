SPECIFICATION Spec
CONSTANTS
    Users = {u1, u2}
    Sids = {s1, s2}
    Tokens = {t1, t2, t3}
    Calls = {c1, c2}
    NoKey = NoKey
    TTLs = {1, 2}
    Second = 1
    MaxDelay = 1
    Skew = 0
    MaxClock = 3
SYMMETRY Symmetry
INVARIANTS
    TypeOK
    RefreshSingleUse
    RefreshIndexExact
    SupersededPairDead
    OnlineOnlyIfSession
PROPERTIES
    NoResurrection
    AbsoluteExpiry
    ImplementsSessionSpec
