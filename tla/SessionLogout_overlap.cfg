SPECIFICATION Spec
CONSTANTS
    Flows = {f1, f2}
    Logouts = {l1, l2}
    Clients = {c1, c2}
    Sids = {s1, s2}
    Grants = {g1, g2}
    NoSid = NoSid
    NoGrant = NoGrant
    NoClient = NoClient
    Overlap = TRUE
    MemberLeaves = FALSE
    MaxFaults = 0
SYMMETRY Symmetry
CHECK_DEADLOCK FALSE
INVARIANTS
    JoinedBeforeServed
    FoundFromSession
    NamedSessionListsClient
