SPECIFICATION Spec
CONSTANTS
    Flows = {f1}
    Logouts = {l1, l2}
    Clients = {c1}
    Sids = {s1}
    Grants = {g1}
    NoSid = NoSid
    NoGrant = NoGrant
    NoClient = NoClient
    Overlap = FALSE
    MemberLeaves = FALSE
    MaxFaults = 1
SYMMETRY Symmetry
CHECK_DEADLOCK FALSE
INVARIANTS
    EveryClientQueued
