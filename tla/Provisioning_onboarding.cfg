SPECIFICATION Spec
CONSTANTS
    Tenants = {t1}
    Tokens = {k1, k2}
    Reqs = {r1, r2}
    Worker = worker
    None = None
INVARIANTS
    TypeOK
    ActiveHasSchema
    SchemaAfterVerify
PROPERTIES
    TakenBackByVerifyOnly
    VerifiedBecomesActive
    OnboardingKept
CHECK_DEADLOCK FALSE
