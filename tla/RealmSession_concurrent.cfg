SPECIFICATION Spec
CONSTANTS
    Requests = {r1, r2}
    Sids = {s1, s2}
    Secrets = {k1, k2, k3}
    NoSid = NoSid
    NoSecret = NoSecret
    IdleTtl = 1
    AbsTtl = 2
    MaxTime = 2
    MaxInFlight = 2
    CrashAllowed = FALSE
    SweepAllowed = TRUE
SYMMETRY Symmetry
INVARIANTS
    SecretNamesSession
    AssuranceBacked
    CurrentCopyExact
PROPERTIES
    ServedWithinLifetime
    RowsForward
