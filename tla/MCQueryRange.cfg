SPECIFICATION Spec
CONSTANTS
    Half = 8
    Second = 3
    Epoch = 1
    Part = 8
    Round <- NearestEven
    Limit = 3
    Times <- AllTimes
    Durations <- AllDurations
    Timeouts <- SomeTimeouts
INVARIANTS
    RangeDecision
    StepGenuine
    ShortStepsLimited
CHECK_DEADLOCK FALSE
