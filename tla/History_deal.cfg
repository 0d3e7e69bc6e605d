INIT Init
NEXT Next
CONSTANTS
    Pipelines = {p1}
    Stages = {s1, s2}
    Deals = {d1}
    SeedPipeline = p1
    SeedStages = {s1, s2}
    Reqs = {r1, r2}
    MaxEvents = 3
    None = None
SYMMETRY AllSymmetric
INVARIANTS
    MovesChain
PROPERTIES
    HistoryKept
CHECK_DEADLOCK FALSE
