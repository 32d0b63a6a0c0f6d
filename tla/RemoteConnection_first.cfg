SPECIFICATION FairSpec
CONSTANTS
    Management = {m}
    ExtHost = {}
    Socket = {s1,s2,s3}
    None = None
    MaxAttempts = 1
    MaxFaults = 1
CHECK_DEADLOCK FALSE
PROPERTIES FirstAttemptEnds
