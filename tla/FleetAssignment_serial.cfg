\* One slot serves the assignments while a second one deletes and creates.
SPECIFICATION Spec
CONSTANTS
    UserIds = {u1, u2}
    RouteIds = {r1, r2}
    VehicleIds = {v1, v2}
    Workers = {w1, w2}
    Assigners = {w1}
    None = None
SYMMETRY IdSymmetry
CHECK_DEADLOCK FALSE
INVARIANTS TypeOK Exclusive
PROPERTY ImplementsDirectory
