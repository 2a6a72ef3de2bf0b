CONSTANTS
    p1 = p1
    p2 = p2
    p3 = p3
    Procs = {p1, p2, p3}
    HostOf <- MCHostOf
    Opaque = {p3}
    Restless = {p2}
    Numbers = {0, 1}
    MaxWaits = 1
SPECIFICATION FairSpec
INVARIANTS TypeOK MovesOnlyTheAbandoned
PROPERTIES SectionIsExclusive LiveClaimIsKept AcquireEnds
CHECK_DEADLOCK FALSE
