SPECIFICATION FairSpec
CONSTANTS
    Window = {w1}
    Writer = {w1, Main}
    Early = {}
    Flusher = {}
    w1 = w1
    Main = Main
    Absent = Absent
    NoRequest = NoRequest
    Key = {k}
    Val = {a}
    MaxWrites = 2
    MaxFailures = 1
PROPERTY CloseEnds
CHECK_DEADLOCK FALSE
