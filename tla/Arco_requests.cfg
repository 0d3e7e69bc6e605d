SPECIFICATION Spec
CONSTANTS
    Rows = {q1}
    Reqs = {r1, r2, r3, r4, r5}
    None = None
SYMMETRY Symmetric
INVARIANTS
    TypeOK
    TrailTellsStatus
    ReopenedByOverlap
CHECK_DEADLOCK FALSE
