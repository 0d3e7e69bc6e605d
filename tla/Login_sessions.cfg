SPECIFICATION Spec
CONSTANTS
    Reqs = {r1, r2, r3, r4}
    Tokens = {t1}
    Codes = {c1}
    None = None
INVARIANTS
    TypeOK
    OldSessionsEnd
    BackupOnce
    EnrolmentStands
    TokenOnce
SYMMETRY Symmetry
CHECK_DEADLOCK FALSE
