SPECIFICATION FairSpec
CONSTANTS
    Management = {m}
    ExtHost = {x}
    Socket = {s1,s2,s3}
    None = None
    MaxAttempts = 0
    MaxFaults = 1
CHECK_DEADLOCK FALSE
INVARIANTS TypeOK GraceWhileLost
PROPERTIES NeverRevived Settles ClientForgotten
