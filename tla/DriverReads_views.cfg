\* Two drivers' requests around changes of their assignments.
SPECIFICATION Spec
CONSTANTS
    UserIds = {u1, u2}
    RouteIds = {r1, r2}
    VehicleIds = {v1, v2}
    None = None
    MaxChanges = 3
    MaxFixes = 1
SYMMETRY IdSymmetry
CHECK_DEADLOCK FALSE
INVARIANTS TypeOK OwnAnswers ShownStays
PROPERTY WholeAnswers
