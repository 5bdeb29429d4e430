\* Two users who want two addresses, two requests at a time.
SPECIFICATION Spec
CONSTANTS
    None = None
    Users = {u1, u2}
    Addresses = {m1, m2}
    Procs = {p1, p2}
    MaxTokens = 3
    MaxChanges = 1
SYMMETRY Interchangeable
INVARIANTS TypeOK VerifiedWasProved UnverifiedHasLink SerialPasswordChangeRevokes
\* The links and password changes run out, so a run may stop.
CHECK_DEADLOCK FALSE
