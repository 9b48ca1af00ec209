SPECIFICATION MCSpec
CONSTANTS
    src = src
    tgt = tgt
    far = far
    Tabs = {t1, t2}
    Ids = {i1}
    Sids = {s1, s2}
    Clients = {src, tgt, far}
    Realms = {"admin", "user"}
    AuthRealm <- MCAuthRealm
    Environment <- MCEnvironment
    AsksAal2 = {tgt}
    Settings <- MCSettings
    Paths <- MCPaths
    NoPath = NoPath
    NoId = NoId
    NoSid = NoSid
    NoClient = NoClient
    NoRealm = NoRealm
    RequestTtl = 2
    MfaMaxAge = 1
    MaxNow = 3
    Changing = {tgt}
SYMMETRY Symmetry
CHECK_DEADLOCK FALSE
INVARIANTS OneAssertionPerRequest AssertionWithinRealm AssertionIsBacked TargetIsToldOfLogout PathsStayInside
