SPECIFICATION Spec
CONSTANTS
    Users = {u1}
    Sids = {s1, s2}
    Tokens = {t1, t2, t3, t4}
    None = None
    Tabs = {b1, b2}
SYMMETRY Symmetry
INVARIANTS
    TypeOK
    HeldUnlessLoose
    RefusedOnlyIfEnded
    LogoutFinal
