\* Two requests on two rules, room for one: failures, dropped requests, a crash.
SPECIFICATION Spec
CONSTANTS
    r1 = r1
    r2 = r2
    Nobody = Nobody
    Width = 2
    Rule <- Canonical
    MaxEntries = 1
    Request = {r1, r2}
    MaxCrashes = 1
    MaxLate = 1
SYMMETRY RequestSymmetry
INVARIANTS
    TypeOK
    AckedSurvives
    StoredWhenInForce
    StartsAgain
\* A start-up whose rows do not fit ends the daemon.
CHECK_DEADLOCK FALSE
