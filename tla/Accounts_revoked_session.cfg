\* A request that overlaps a password change brings old sessions back.
SPECIFICATION Spec
CONSTANTS
    None = None
    Users = {u1}
    Addresses = {m1, m2}
    Procs = {p1, p2}
    MaxTokens = 1
    MaxChanges = 1
SYMMETRY Interchangeable
INVARIANTS PasswordChangeRevokes
\* The links and password changes run out, so a run may stop.
CHECK_DEADLOCK FALSE
