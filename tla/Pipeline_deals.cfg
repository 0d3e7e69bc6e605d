INIT Init
NEXT Next
CONSTANTS
    Pipelines = {p1, p2}
    Stages = {s1, s2}
    Deals = {d1}
    SeedPipeline = p1
    SeedStages = {s1}
    Reqs = {r1, r2}
    MaxEvents = 2
    None = None
SYMMETRY Symmetric
INVARIANTS
    TypeOK
    DealStageInPipeline
    LastEventIsStage
PROPERTIES
    DefaultKept
CHECK_DEADLOCK FALSE
