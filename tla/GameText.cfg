\* Two contributions to an imported game or to new ones; approvals that are cut
\* short anywhere and tried again.
SPECIFICATION Spec
CONSTANTS
    None = None  usa = usa  japan = japan  g1 = g1  g2 = g2  g3 = g3
    n1 = n1  n2 = n2  n3 = n3  x1 = x1  h1 = h1  d1 = d1  d2 = d2
    Games = {g1, g2, g3}
    Catalogue <- MCCatalogue
    RegionOrder <- MCRegionOrder
    Names <- MCNames
    Years = {1990, 1991}
    Texts = {x1}
    Hashes = {h1}
    Dumps = {d1, d2}
    Subs = {s1, s2}
    Payloads <- MCPayloads
    Procs = {p1}
INVARIANTS TypeOK CanonicalFollowsRegions
PROPERTIES AppliedAsWritten
\* Contributions run out, so a run may stop.
CHECK_DEADLOCK FALSE
