\* One subscriber, as one process runs it.
SPECIFICATION Spec
CONSTANTS
    VehicleIds = {v1, v2}
    Subscribers = {s1}
    Times = {1, 2}
    Places = {p1, p2}
    None = None
    MaxDeliveries = 3
SYMMETRY Symmetry
CHECK_DEADLOCK FALSE
INVARIANTS TypeOK LocationBacked
PROPERTY ImplementsLatest
