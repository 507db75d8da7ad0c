SPECIFICATION FairSpec
CONSTANTS
    r1 = r1
    r2 = r2
    r3 = r3
    v1 = v1
    Absent = Absent
    Record = {r1, r2, r3}
    Viewer = {v1}
    Time = {1, 2}
    Keep = 1
    Limit = 2
    Buffer = 1
    Wire = 1
INVARIANTS TypeOK IdsNameOneRecord StreamIsContiguous SentInOrder 
PROPERTIES PruneKeepsNewest TableReturnsToBound StreamsCatchUp
