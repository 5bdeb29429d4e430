\* The owner of two apps, two calls, around midnight.
\* One lookup per thread and day, one debug call.
SPECIFICATION Spec
CONSTANTS
    owner = u1
    Users = {u1}
    Apps = {x, y}
    Procs = {p1, p2}
    OwnerOf <- MCOwnerOf
    MaxThreads = 2
    GuestThreads = 1
    ForcedThreads = 3
    RPMPerThread = 1
    DailyPerThread = 1
    MaxDebug = 1
    MaxChanges = 1
    MaxCalls = 2
    LastDay = 1
    None = None
SYMMETRY Interchangeable
INVARIANTS TypeOK QuotaHonoured DebugCapped StaleRefused
CHECK_DEADLOCK FALSE
