\* Outages, messages and a shutdown at any moment.
SPECIFICATION Spec
CONSTANTS
    Cumulative <- FourSegments
    Steps = {0, 1, 3, 7}
    Starts = {0, 4, 9}
CHECK_DEADLOCK FALSE
INVARIANTS TypeOK SubscriberAlive PositionOnRoute
PROPERTIES SubscriberReconnects CancelEnds SimulatorSteady PingPong
