SPECIFICATION Spec
CONSTANTS
    NANOSEC_PER_SEC = 5
    MAX = 31
    Frequencies = {1, 3, 5, 7}
    Durations <- MCDurations
    PowerOnCounts = {0, 25}
INVARIANT
    SpinsLongEnough
PROPERTY
    SpinEnds
