\* Two contributors for one slot, three approvals of up to two videos for two.
SPECIFICATION FairSpec
CONSTANTS
    Contributors = {c1, c2}
    Reviewers = {r1, r2, r3}
    MaxVideos = 2
    ProbeCap = 1
    ReviewCap = 2
INVARIANTS TypeOK SlotsHeld
PROPERTIES ReviewsEnd
