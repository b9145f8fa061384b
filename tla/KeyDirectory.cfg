SPECIFICATION Spec
CONSTANTS
    Payloads = {m1, m2}
    Root <- MerkleHead
    ProvesPrefix <- PathProvesPrefix
    ProvesLeaf <- PathProvesLeaf
    Recovery = rescue
    FirstKey = k1
    Keys = {k1, k2, rescue}
    Witnesses = {w1, w2}
    Quorum = 2
    MaxEvents = 3
    MaxLog = 2
    MaxRestores = 1
SYMMETRY Symmetry
CHECK_DEADLOCK FALSE
INVARIANTS WriterIsVerified DamageIsRefused LateIsRefused OneHistory
