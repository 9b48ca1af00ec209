SPECIFICATION Spec
CONSTANTS
    Requests = {r1, r2}
    Sids = {s1}
    Secrets = {k1, k2}
    NoSid = NoSid
    NoSecret = NoSecret
    IdleTtl = 2
    AbsTtl = 3
    MaxTime = 1
    MaxInFlight = 2
    CrashAllowed = FALSE
    SweepAllowed = FALSE
SYMMETRY Symmetry
INVARIANTS
    RevokedNotServable
