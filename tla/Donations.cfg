\* A tip and a membership of one address, two users, a request and the job.
SPECIFICATION FairSpec
CONSTANTS
    None = None  kofi = kofi  member = member  m1 = m1  m2 = m2  u1 = u1  u2 = u2
    Users = {u1, u2}
    Addresses = {m1, m2}
    Events = {kofi, member}
    Patreon = {member}
    AddressOf <- MCAddressOf
    KindOf <- MCKindOf
    Procs = {p1}
    Job = job
    Grace = 0
    MaxDay = 1
    MaxItems = 2
    Imported <- MCImported
    Uses <- MCUses
    Claims <- MCClaims
    AdminSets <- MCAdminSets
INVARIANTS TypeOK OutdatedIsListed VerifiedGetTheirs
PROPERTIES StaleDowngraded
