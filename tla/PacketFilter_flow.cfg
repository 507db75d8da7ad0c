SPECIFICATION FairSpec
CONSTANTS
    s1 = s1
    s2 = s2
    c1 = c1
    c2 = c2
    Absent = Absent
    Modulus = 16
    Cpu = {c1}
    Slot = {s1, s2}
    Packet <- FlowFrames
    Host <- Hosts
    Adapter = {1, 2}
    Inside = {2}
    Family = "Ipv4"
    Config <- FlowConfigs
    Match = {Absent}
    AdminSeen = {}
    AdminBucket = {}
    MaxCounts = 3
    IdleLimit = 1
    MaxTime = 3
INVARIANTS TypeOK RateBound
PROPERTIES NeverStarved CleanupSelectsOnlyOld ListedTypesNeedTheirFlag IdleEntriesGo
