SPECIFICATION FairSpec
CONSTANTS
    r1 = r1
    r2 = r2
    p1 = p1
    p2 = p2
    Absent = Absent
    Keep = Keep
    Request = {r1, r2}
    Adapter = {1, 2}
    Policy = {p1, p2}
    Patch <- Patches
    DefaultConfig <- NoAdapters
    MaxCrashes = 1
    MaxLate = 1
INVARIANTS TypeOK AckedSurvives LinksFollowConfig
PROPERTIES ImplementsCell RequestsEnd
