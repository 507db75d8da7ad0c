SPECIFICATION Spec
CONSTANTS
    r1 = r1
    r2 = r2
    r3 = r3
    v1 = v1
    Absent = Absent
    Record = {r1, r2}
    Viewer = {v1}
    Time = {1}
    Keep = 3
    Limit = 3
    Buffer = 2
    Wire = 1
INVARIANT LivePageIsComplete
