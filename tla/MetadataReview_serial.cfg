\* One request at a time, one of them cut short: a new game, an edit that
\* replaces, moves and deletes its covers, and a report that deletes it.
SPECIFICATION Spec
CONSTANTS
    p1 = p1  s1 = s1  s2 = s2  s3 = s3  g1 = g1  u1 = u1  u2 = u2
    f1 = f1  f2 = f2  f3 = f3  f4 = f4  jp = jp  us = us  None = None
    Subs = {s1, s2, s3}
    Files = {f1, f2, f3, f4}
    Games = {g1}
    Regions = {jp, us}
    Kinds = {"cover"}
    Procs = {p1}
    Existing = {}
    Target <- MCTarget
    NewGame = {s1}
    Duplicate = {s3}
    UserOf <- MCUserOf
    Fields <- MCFields
    SubOf <- MCSubOf
    Op <- MCOp
    KindOf <- MCKindOf
    RegionsOf <- MCRegionsOf
    Serial = TRUE
    MaxGen = 2
    MaxFailures = 1
INVARIANTS TypeOK OnlyApprovedPublic OnePerRegion
PROPERTIES ImplementsLifecycle ReplacedArtKept ApprovedIsLive OnlyApprovalUnpublishes
\* The ids of submissions and uploads run out, so a run may stop.
CHECK_DEADLOCK FALSE
