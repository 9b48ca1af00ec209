SPECIFICATION FairSpec
CONSTANTS
    Clients = {c1, c2}
    Instances = {i1, i2}
    Schedule <- RetrySchedule
    Lease = 2
    Batch = 2
    MaxFaults = 1
    MaxAttempts = 4
INVARIANTS
    OneAttemptAtATime
    ParticipantAgrees
PROPERTIES
    Implements
    JobSettles
