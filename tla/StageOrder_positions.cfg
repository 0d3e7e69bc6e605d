SPECIFICATION Spec
CONSTANTS
    Stages = {s1, s2, s3}
    Seed = {s1}
    Reqs = {r1, r2}
    None = None
INVARIANTS
    TypeOK
    PositionsDistinct
PROPERTIES
    LastStageByOverlap
    ReordersEnd
CHECK_DEADLOCK FALSE
