SPECIFICATION Spec
CONSTANTS
    Absent = Absent
    Limit = 6
    MaxExtensions = 7
    LongKinds = {"Ipv6Opts", "Ipv6Frag", "Ah"}
    LongLength = 4
    Lengths = {0, 2}
    Frame <- Frames
INVARIANTS TypeOK PortsAreTheTransports TransportIsFound WholeFramesAreParsed
