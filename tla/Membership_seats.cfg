SPECIFICATION Spec
CONSTANTS
    People = {ana, beto, carla}
    Staff = {ana}
    Invites = {i1, i2}
    Reqs = {r1, r2}
    SeatCap = 2
    AskedRoles = {"administrador"}
    None = None
INVARIANTS
    SeatsUpToSlips
    OneEmailOneTenant
PROPERTIES
    SeatsKept
    RequestsEnd
CHECK_DEADLOCK FALSE
