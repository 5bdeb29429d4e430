\* Two subjects, two requests at a time, limits whose buckets fill up in one
\* and in two ticks; an entry goes when it is three ticks old.
SPECIFICATION Spec
CONSTANTS
    Keys = {k1, k2}
    Limits <- MCLimits
    Rate <- MCRate
    Burst <- MCBurst
    None = None
    Procs = {p1, p2}
    SweepAt = 2
    IdleLimit = 2
    MaxClock = 5
INVARIANTS TypeOK GrantsBounded
PROPERTIES ImplementsTokenBuckets
CHECK_DEADLOCK FALSE
