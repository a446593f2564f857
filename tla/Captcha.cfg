SPECIFICATION Spec
CONSTANTS
    Ids = {i1, i2}
    Ips = {x1}
    Answers = {a1, a2}
    Calls = {c1, c2}
    None = None
    Limit = 2
    Window = 3
    TTL = 2
INVARIANTS
    TypeOK
    OneTime
    AtMostTwiceTheLimit
PROPERTIES
    LimitedIsReleased
