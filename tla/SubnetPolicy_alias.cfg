\* One net in two spellings: deleting one leaves the row of the other.
SPECIFICATION Spec
CONSTANTS
    r1 = r1
    r2 = r2
    Nobody = Nobody
    Width = 2
    Rule <- Aliased
    MaxEntries = 2
    Request = {r1, r2}
    MaxCrashes = 1
    MaxLate = 1
SYMMETRY RequestSymmetry
INVARIANT
    DeletionPersists
CHECK_DEADLOCK FALSE
