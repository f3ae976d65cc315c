\* Two slots serve every kind of request, a third user makes the bound bite.
SPECIFICATION Spec
CONSTANTS
    UserIds = {u1, u2, u3}
    RouteIds = {r1, r2}
    VehicleIds = {v1}
    Workers = {w1, w2}
    Assigners = {w1, w2}
    None = None
SYMMETRY IdAndWorkerSymmetry
CHECK_DEADLOCK FALSE
INVARIANTS RefIntegrity SharingBound
PROPERTY ImplementsTables
