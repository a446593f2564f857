SPECIFICATION Spec
CONSTANTS
    Users = {u1}
    Sids = {s1, s2}
    Tokens = {t1, t2}
    Calls = {c1}
    NoKey = NoKey
    TTLs = {1, 7}
    Second = 2
    MaxDelay = 1
    Skew = 1
    MaxClock = 8
SYMMETRY Symmetry
INVARIANTS
    RevocableUntilNearlyExpired
