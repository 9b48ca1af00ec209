SPECIFICATION MCSpec
CONSTANTS
    Kids = {k1, k2, k3}
    NoKid = NoKid
    Commands = {r1, r2}
    TokenTtl = 1
    SessionTtl = 3
    CacheTtl = 1
    MaxDay = 5
    Calls = {r1, r2}
    Codes = {j1, j2}
    Tokens = {a1, a2}
    Grants = {g1}
    NoGrant = NoGrant
    NoArtifact = NoArtifact
    CodeLife = 1
    TokenLife = 2
    LastSecond = 4
    ClientIds = {c1}
    Uris = {u1, u2}
    Editors = {r1, r2}
    NoUri = NoUri
    NoRealmName = NoRealmName
    Callers = {r1, r2}
    Jtis = {j1, j2}
    NoJti = NoJti
    Tolerance = 1
    MaxTokenAge = 3
    Slack = 2
    MaxPause = 1
    Lifetimes = {1, 3}
    LastInstant = 8
    Operators = {r1, r2}
    FoundSchemas <- SomeFound
SYMMETRY Symmetry
CHECK_DEADLOCK FALSE
INVARIANTS
    SchemaFollowsHistory
    RegisteredIsUsable
    RevokedStaysOut
    AtMostOneSigner
    RotationIsUnnoticed
    LiveArtifactsAreListed
    CodeBuysOnce
    OncePerAssertion
