SPECIFICATION Spec
CONSTANTS
    Requests = {r1}
    Sids = {s1, s2}
    Secrets = {k1, k2, k3, k4}
    NoSid = NoSid
    NoSecret = NoSecret
    IdleTtl = 2
    AbsTtl = 3
    MaxTime = 4
    MaxInFlight = 1
    CrashAllowed = TRUE
    SweepAllowed = TRUE
SYMMETRY Symmetry
INVARIANTS
    RevokedNotServable
    DurableIdleBehind
    ReplacedSecretDead
