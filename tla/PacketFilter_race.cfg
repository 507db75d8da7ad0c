SPECIFICATION Spec
CONSTANTS
    s1 = s1
    s2 = s2
    c1 = c1
    c2 = c2
    Absent = Absent
    Modulus = 16
    Cpu = {c1, c2}
    Slot = {s1, s2}
    Packet <- PingFrames
    Host <- Hosts
    Adapter = {1, 2}
    Inside = {2}
    Family = "Ipv4"
    Config <- SlowConfigs
    Match = {"Allow"}
    AdminSeen = {}
    AdminBucket = {}
    MaxCounts = 2
    IdleLimit = 2
    MaxTime = 1
INVARIANT RateBound
