\* Two callers on two keys; a token every 1.5 ticks, a burst of 4/3 tokens.
SPECIFICATION Spec
CONSTANTS
    Keys = {k1, k2}
    Callers = {p1, p2}
    Unit = 3
    Rate = 2
    Burst = 4
    TTL = 3
    MaxLag = 1
    MaxClock = 7
    None = None
SYMMETRY Symmetry
CHECK_DEADLOCK FALSE
INVARIANTS
    TypeOK
    WindowBound
PROPERTIES
    HonestRetryAfter
    RetentionBound
