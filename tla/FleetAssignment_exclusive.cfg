\* Two assignment requests at once.
SPECIFICATION Spec
CONSTANTS
    UserIds = {u1, u2}
    RouteIds = {r1, r2}
    VehicleIds = {v1, v2}
    Workers = {w1, w2}
    Assigners = {w1, w2}
    None = None
SYMMETRY IdAndWorkerSymmetry
CHECK_DEADLOCK FALSE
INVARIANT Exclusive
