SPECIFICATION Spec
CONSTANTS
    Flows = {f1, f2, f3}
    Logouts = {l1, l2}
    Clients = {c1, c2}
    Sids = {s1, s2}
    Grants = {g1, g2, g3}
    NoSid = NoSid
    NoGrant = NoGrant
    NoClient = NoClient
    Overlap = FALSE
    MemberLeaves = TRUE
    MaxFaults = 1
SYMMETRY Symmetry
CHECK_DEADLOCK FALSE
INVARIANTS
    LogoutEndsTokensUnlessFailed
    EveryClientQueuedUnlessFailed
