\* One request at a time, one of them cut short: two revisions of a pack and a
\* second brand-new submission with its name.
SPECIFICATION FairSpec
CONSTANTS
    p1 = p1  p2 = p2  s1 = s1  s2 = s2  s3 = s3  a1 = a1  a2 = a2  a3 = a3  pk = pk  snes = snes
    None = None
    Subs = {s1, s2, s3}
    Packs = {pk}
    Slots <- MCSlots
    Art = {a1, a2}
    Procs = {p1}
    PackOf <- MCPackOf
    Contribution = {s2}
    SubOf <- MCSubOf
    SlotOf <- MCSlotOf
    ExtOf <- MCExtOf
    Unlucky = {a1}
    Serial = TRUE
    MaxRejections = 1
    MaxFailures = 1
INVARIANTS TypeOK PackOwnedOnce ApprovedListsPublicKeys
PROPERTIES ImplementsLifecycle ApprovedReadOnly SweepSparesLive RejectedLeavesStaging OnlyDeleteUnpublishes ApprovalDecides
\* The ids of submissions and uploads run out, so a run may stop.
CHECK_DEADLOCK FALSE
