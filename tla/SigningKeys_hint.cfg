SPECIFICATION KeysSpec
CONSTANTS
    Kids = {k1, k2}
    NoKid = NoKid
    Commands = {r1}
    TokenTtl = 1
    SessionTtl = 3
    CacheTtl = 1
    MaxDay = 5
CHECK_DEADLOCK FALSE
INVARIANTS
    HintsAreAccepted
