\* Pages of two; timestamps tie, and fall before and into the window.
CONSTANTS
    Times = {0, 1, 2}
    From = 1
    To = 2
    Limit = 2
    MaxId = 5
SPECIFICATION Spec
INVARIANTS TypeOK NoMiss RepeatsBounded CountReached
