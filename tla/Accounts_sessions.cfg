\* Two requests of two clients on two names: five hashes are enough to give the
\* id of a deleted account to another one under a change_password.
SPECIFICATION Spec
CONSTANTS
    r1 = r1
    r2 = r2
    j1 = j1
    j2 = j2
    Request = {r1, r2}
    Jar = {j1, j2}
    Name = {admin, other}
    DefaultName = admin
    Grant <- Grants
    MaxGiven = 4
    MaxHashes = 5
SYMMETRY Symmetry
INVARIANTS
    TypeOK
    GatedUntilChanged
    
PROPERTY AdmittedOnProof
