\* Two requests at a time on one submission with two files.
SPECIFICATION Spec
CONSTANTS
    p1 = p1  p2 = p2  s1 = s1  s2 = s2  s3 = s3  a1 = a1  a2 = a2  a3 = a3  pk = pk  snes = snes
    None = None
    Subs = {s1}
    Packs = {pk}
    Slots <- MCSlots
    Art = {a1, a2}
    Procs = {p1, p2}
    PackOf <- MCPackOf
    Contribution = {}
    SubOf <- MCSubOfBoth
    SlotOf <- MCSlotOf
    ExtOf <- MCExtOf
    Unlucky = {}
    Serial = FALSE
    MaxRejections = 1
    MaxFailures = 0
INVARIANTS CreditedWasApproved BytesBelong
PROPERTIES ApprovedNeverRequeued
SYMMETRY Handlers
\* The ids of submissions and uploads run out, so a run may stop.
CHECK_DEADLOCK FALSE
