SPECIFICATION Spec
CONSTANTS
    Users = {u1, u2}
    Sids = {s1, s2}
    Tokens = {t1, t2}
    None = None
    Emails = {admin, e1}
    AdminEmail = admin
    Passwords = {p1}
    Requests = {r1, r2}
    Handlers = {"Update", "SetActive", "Delete", "Kick"}
SYMMETRY Symmetry
CONSTRAINT LoadBound
INVARIANTS
    TypeOK
    StaleOnlyByRace
PROPERTIES
    DisabledStaysDisabled
    DeletedStaysDeleted
