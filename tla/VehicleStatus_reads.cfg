\* Fixes late, out of order and up to one tick ahead of the clock.
CONSTANTS
    StaleAfter = 1
    MovingThreshold = 5
    MaxAhead = 1
    Speeds = {5, 6}
    None = None
    MaxTime = 4
    MaxFixes = 3
SPECIFICATION Spec
INVARIANTS TypeOK OfflineMeansSilent LiveMeansRecent
PROPERTY AnswersAdvance
