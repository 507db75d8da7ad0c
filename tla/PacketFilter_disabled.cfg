SPECIFICATION Spec
CONSTANTS
    s1 = s1
    s2 = s2
    c1 = c1
    c2 = c2
    Absent = Absent
    Modulus = 16
    Cpu = {c1}
    Slot = {s1, s2}
    Packet <- Ipv6Frames
    Host <- Hosts
    Adapter = {1, 2}
    Inside = {2}
    Family = "Ipv6"
    Config <- NoIpConfigs
    Match = {"Allow"}
    AdminSeen = {0}
    AdminBucket = {}
    MaxCounts = 1
    IdleLimit = 0
    MaxTime = 1
INVARIANT DisabledTypesRejected
