SPECIFICATION Spec
CONSTANTS
    s1 = s1
    s2 = s2
    c1 = c1
    c2 = c2
    Absent = Absent
    Modulus = 16
    Cpu = {c1, c2}
    Slot = {s1, s2}
    Packet <- StateFrames
    Host <- Hosts
    Adapter = {1, 2}
    Inside = {2}
    Family = "Ipv4"
    Config <- StateConfigs
    Match = {"Allow"}
    AdminSeen = {0}
    AdminBucket <- OneToken
    MaxCounts = 1
    IdleLimit = 0
    MaxTime = 1
SYMMETRY StateSymmetry
INVARIANTS AllowEntriesWereOpened 
PROPERTIES RepliesMeetTheirFlow DenyIsKept
