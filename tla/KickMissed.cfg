SPECIFICATION Spec
CONSTANTS
    Users = {u1}
    Sids = {s1, s2}
    Tokens = {t1, t2}
    Calls = {c1, c2}
    NoKey = NoKey
    TTLs = {2}
    Second = 1
    MaxDelay = 1
    Skew = 0
    MaxClock = 4
SYMMETRY Symmetry
PROPERTIES
    KickEndsEverySession
