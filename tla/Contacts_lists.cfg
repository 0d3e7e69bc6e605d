SPECIFICATION Spec
CONSTANTS
    Accounts = {a1}
    Contacts = {c1, c2}
    Profiles = {p1, p2}
    Reqs = {r1, r2}
    PageSize = 1
    MaxClock = 3
    None = None
SYMMETRY Symmetric
INVARIANTS
    TypeOK
    LinkPredatesArchival
    ListIsComplete
    ListDescends
PROPERTIES
    ArchivedStays
CHECK_DEADLOCK FALSE
