\* A shutdown that arrives during the reconnect backoff.
SPECIFICATION Spec
CONSTANTS
    Cumulative <- FourSegments
    Steps = {0, 1, 3, 7}
    Starts = {0, 4, 9}
CHECK_DEADLOCK FALSE
PROPERTY ShutdownEnds
