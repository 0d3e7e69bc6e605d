INIT Init
NEXT Next
CONSTANTS
    People = {ana, beto}
    Staff = {ana, beto}
    Invites = {i1}
    Reqs = {r1, r2}
    SeatCap = 2
    AskedRoles = {"administrador", "gerente", "vendedor"}
    None = None
SYMMETRY RequestSymmetry
INVARIANTS
    TypeOK
    AdminRemains
    MfaFollowsRole
CHECK_DEADLOCK FALSE
