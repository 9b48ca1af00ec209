SPECIFICATION MCSpec
CONSTANTS
    Requests = {r1, r2}
    Uids = {u1, u2}
    Ids = {i1, i2, i3}
    NoUid = NoUid
    NoId = NoId
    OtpTtl = 2
    MaxAttempts = 2
    Cooldown = 1
    Cap = 1
    Hour = 2
    MaxTime = 2
    MaxFaults = 1
    Submits = {r1, r2}
    Pages = {u1, u2}
    NoPage = NoPage
    Window = 2
    MaxTries = 2
    MaxSteps = 2
    MaxHits = 4
    MaxDead = 1
    Adders = {r1, r2}
    MaxFactors = 3
    Channels = {"EMAIL"}
    DefaultMethod = "SMS_OTP"
    HasEmail = TRUE
    Visits = {r1, r2}
    MaxFailures = 2
    Second = 2
    Minute = 2
    LockTime = 4
    MfaCap = 2
    AskedAges = {0, 1, 3}
    MaxStall = 1
    MaxSessions = 2
    MaxLost = 1
    LastInstant = 5
SYMMETRY Symmetry
CHECK_DEADLOCK FALSE
INVARIANTS
    LastDefaultIsAsked
    OneWinPerCode
    GuessesWithinLimit
    SentNearCap
    OneWinPerStep
    LimitIsTimed
    GuessesNearLimit
    ToldWaitSuffices
    AssuranceAsAsked
    MemberWasAllowed
